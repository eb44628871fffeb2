---------------------------- MODULE MCCpuDevice ----------------------------
(***************************************************************************)
(* Model checking of CpuDevice: four devices, of which one belongs to a    *)
(* possible CPU that is not present and one to a CPU with APIC id 0.       *)
(***************************************************************************)
EXTENDS CpuDevice

PresentCpus == 1..NumCpus - 1
ApicZeroCpus == {1}
=============================================================================
