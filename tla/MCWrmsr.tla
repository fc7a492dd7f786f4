------------------------------ MODULE MCWrmsr -------------------------------
(***************************************************************************)
(* Small instances of Wrmsr.                                               *)
(***************************************************************************)
EXTENDS Wrmsr, TLC

CONSTANTS c1, c2

\* The CPUs take the same part in every safety property.
CpuSymmetry == Permutations(Cpu)
=============================================================================
