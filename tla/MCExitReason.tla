---------------------------- MODULE MCExitReason ----------------------------
(***************************************************************************)
(* Small instances of ExitReason.                                          *)
(***************************************************************************)
EXTENDS ExitReason, TLC

CONSTANTS c1, c2

\* The CPUs take the same part in every safety property.
CpuSymmetry == Permutations(Cpu)
=============================================================================
