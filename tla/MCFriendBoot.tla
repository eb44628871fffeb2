---------------------------- MODULE MCFriendBoot ----------------------------
(***************************************************************************)
(* Model checking of FriendBoot.  With three cores one can be the first to *)
(* enter friend_init, a second return while the third is still to start,   *)
(* and the counters become equal more than once.                           *)
(***************************************************************************)
EXTENDS FriendBoot

\* No limit (negative, zero), a limit below, at and above the device count.
BootArguments == -1..NumDevices + 1
=============================================================================
