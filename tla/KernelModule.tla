---------------------------- MODULE KernelModule ----------------------------
(***************************************************************************)
(* FriendLoader as a process sees it that uses a memory device: it opens   *)
(* the device when the module has registered it (LoaderModule), maps it    *)
(* through the open file (MemDevice) and closes the file, with any steps   *)
(* of the module in between.  Neither the file nor the mapping, which      *)
(* keeps the file alive, keeps the module loaded: the cdevs of the memory  *)
(* devices have no owner (call_interface.c:107).  What happens to a        *)
(* process that goes on with a file whose module is gone is undefined, so  *)
(* it takes no further step.                                               *)
(***************************************************************************)
EXTENDS LoaderModule, MemDevice

VARIABLES
  file,   \* the memory device that the process has open, or "none"
  gone    \* has the module gone that the file or the mapping belongs to?

kernelVars == <<vars, memVars, file, gone>>

KernelInit ==
  /\ Init
  /\ MemInit
  /\ file = "none"
  /\ gone = FALSE

-----------------------------------------------------------------------------
(* The process: mmap_friend_mem (hakase.cc), Loader16::Init (loader16.cc)    *)

\* An open finds the node, then the cdev.
Registered(d) == {<<d, "node", 0>>, <<d, "cdev", 0>>} \subseteq have

\* The process uses one memory device at a time.
OpenMem(d) ==
  /\ file = "none" /\ dev = "none"
  /\ Registered(d)
  /\ file' = d
  /\ UNCHANGED <<memVars, gone>>

\* The mmap call looks at the open file only, no more at what is registered.
MapMem ==
  /\ file = "mem" /\ ~gone
  /\ \E v \in Areas : memdevice_mmap(v)
  /\ UNCHANGED <<file, gone>>

MapBootmem ==
  /\ file = "bootmem" /\ ~gone
  /\ \E v \in Areas : bootmemdevice_mmap(v)
  /\ UNCHANGED <<file, gone>>

CloseMem ==
  /\ file # "none" /\ ~gone
  /\ file' = "none"
  /\ UNCHANGED <<memVars, gone>>

Unmap ==
  /\ ~gone
  /\ munmap
  /\ UNCHANGED <<file, gone>>

ProcessNext == (\E d \in {"mem", "bootmem"} : OpenMem(d)) \/ MapMem \/ MapBootmem \/ CloseMem \/ Unmap

\* A step of the module, after which its code may be gone.
ModuleNext ==
  /\ Next
  /\ gone' = (gone \/ (at'.f = "out" /\ (file # "none" \/ dev # "none")))
  /\ UNCHANGED <<memVars, file>>

KernelNext == ModuleNext \/ (ProcessNext /\ UNCHANGED vars)

KernelSpec == KernelInit /\ [][KernelNext]_kernelVars

-----------------------------------------------------------------------------
(* Properties *)

\* A memory device that is opened is complete: it is not half set up, its init
\* function has not failed, and the exit of the module has given none of its
\* parts back, however the open falls between the kernel calls of
\* generic_memdevice_init and memdevice_exit.
OpensCompleteDevice ==
  [][file = "none" /\ file' # "none" =>
       MemParts(file') \subseteq have /\ file' \notin failed]_kernelVars

\* The code behind an open or mapped memory device goes away only when no CPU
\* device is open, or when the load fails: a program that holds a friend core
\* keeps its memory devices too, although these do not pin the module.
BootedProgramsSafe ==
  [][gone' /\ ~gone => opens = 0 \/ failed' \cap {"cpu", "version"} # {}]_kernelVars
=============================================================================
