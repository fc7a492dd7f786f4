----------------------------- MODULE MCMsrTable -----------------------------
(***************************************************************************)
(* The MSRs up to the end of the x2APIC range and beyond, and KVM's own.   *)
(***************************************************************************)
EXTENDS MsrTable

AllMsrs     == (0 .. \hcff) \cup {\h4b564d00, \h4b564d01, \h4b564d02}
MostMsrs    == AllMsrs \ {\h140, \h1a0}
=============================================================================
