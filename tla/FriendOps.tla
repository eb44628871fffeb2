----------------------------- MODULE FriendOps -----------------------------
(***************************************************************************)
(* The operations that the friend programs of the tutorial and of          *)
(* sample_old are made of.  A program is a sequence of them; FriendMachine *)
(* says what they do.                                                      *)
(*                                                                         *)
(* All addresses are page numbers (the address divided by 4 KiB), and with *)
(* this unit they are the addresses of the code.  The contents of a page   *)
(* is a number: p for what page p held at the start, negative numbers for  *)
(* what programs write.                                                    *)
(***************************************************************************)
EXTENDS Integers, Sequences, TLC

k4KB == 1
k2MB == 512 * k4KB
k1GB == 512 * k2MB
k512GB == 512 * k1GB

PdptIndex(v) == (v % k512GB) \div k1GB
PdIndex(v) == (v % k1GB) \div k2MB
PtIndex(v) == (v % k2MB) \div k4KB

\* Entries of page tables: 1 << 0 is present, 1 << 1 writable, 1 << 7 a page
\* at a level above the page table.
Page(p) == [to |-> p, rw |-> TRUE, ps |-> FALSE]
ReadOnly(p) == [to |-> p, rw |-> FALSE, ps |-> FALSE]
Large(p) == [to |-> p, rw |-> TRUE, ps |-> TRUE]
NotPresent == [to |-> -1, rw |-> FALSE, ps |-> FALSE]

\* Contents of pages.
Zero == -1        \* its first word has been set to 0
Partial == -2     \* every eighth word is a copy
App1 == -3        \* the image of app1
App2 == -4
Buffer == -5      \* written by an app
Greeting == -6    \* the words of a message, for what is printed
Newline == -7

\* Stores to table t: entries es[i] (i may run past the end of t); n tables
\* from t cleared.
Set(t, i, e) == [op |-> "set", t |-> t, es |-> i :> e]
Fill(t, es) == [op |-> "set", t |-> t, es |-> es]
Clear(t, n) == [op |-> "clear", t |-> t, n |-> n]

\* Memory accesses: a load, a store of contents c, a copy of one page of
\* which all or only some words arrive.
Load(v) == [op |-> "load", v |-> v]
Store(v, c) == [op |-> "store", v |-> v, c |-> c]
Copy(v, from, all) == [op |-> "copy", v |-> v, from |-> from, all |-> all]

\* Control registers, TLB and interrupts.
MovCr3(p) == [op |-> "cr3", p |-> p]
Invlpg(v) == [op |-> "invlpg", v |-> v]
Gate(vector, handlers) == [op |-> "gate", vector |-> vector, handlers |-> handlers]
Lidt == [op |-> "lidt"]
Hlt == [op |-> "hlt"]
Iret == [op |-> "iret"]
Drop == [op |-> "drop"]          \* add $8, %rsp
Push(r) == [op |-> "push", r |-> r]
Pop(r) == [op |-> "pop", r |-> r]
Mov(r, values) == [op |-> "mov", r |-> r, values |-> values]
Div == [op |-> "div"]            \* divl %ebx

\* OFFLOAD of a block, and the shared variable of a program.
Offload(block) == [op |-> "offload", block |-> block]
Assign(n) == [op |-> "assign", n |-> n]
AssignX(d) == [op |-> "assignx", d |-> d]   \* variable = x / d
Increment == [op |-> "increment"]
Cpuid == [op |-> "cpuid"]        \* bit 5 of ecx, for function 1

\* Old samples: a call through the channel to hakase, the flag of puts(), a
\* call of the application of context n, and the test of its result.
Do(type, value) == [op |-> "do", type |-> type, value |-> value]
SpinOnFlag == [op |-> "spin"]
ClearFlag == [op |-> "unspin"]
NewContext(n, v) == [op |-> "context", n |-> n, v |-> v]
Call(n) == [op |-> "call", n |-> n]
ShowI(n) == [op |-> "show_i", n |-> n]
Expect(n, i) == [op |-> "expect", n |-> n, i |-> i]
=============================================================================
