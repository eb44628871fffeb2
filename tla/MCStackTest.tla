----------------------------- MODULE MCStackTest ----------------------------
(***************************************************************************)
(* Model checking of StackTest and CountTest, and with them of FriendBoot: *)
(* one of the programs runs.  With three cores one can be the first to     *)
(* enter friend_init, a second return while the third is still to start,   *)
(* and the counters become equal more than once.                           *)
(***************************************************************************)
EXTENDS StackTest, CountTest

\* No limit (negative, zero), a limit below, at and above the device count.
BootArguments == -1..NumDevices + 1

bvars == <<vars, friend, test, count>>

\* What the other test owns stays as it is.
StackOnly(A) == prog = "stack" /\ A /\ UNCHANGED count
CountOnly(A) == prog # "stack" /\ A /\ UNCHANGED <<friend, test>>

NoCount == prog = "stack" /\ flag = 0 /\ stage = << >> /\ result = "none" /\ seen = {}
NoStack == cnt = 0 /\ stack_addr = << >> /\ at = << >> /\ x = << >>
           /\ tpc = "none" /\ verdict = 0 /\ inTime = FALSE

BootInit == (TestInit /\ NoCount) \/ (CountInit /\ NoStack)
BootHakase == StackOnly(TestHakase) \/ CountOnly(CountHakase)
BootCore(c) == StackOnly(TestCore(c)) \/ CountOnly(CountCore(c))
BootNext == BootHakase \/ \E c \in Cores : BootCore(c)
BootSpec ==
  /\ BootInit /\ [][BootNext]_bvars
  /\ WF_bvars(BootHakase) /\ \A c \in Cores : WF_bvars(BootCore(c))
=============================================================================
