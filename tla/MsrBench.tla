------------------------------ MODULE MsrBench ------------------------------
(***************************************************************************)
(* msr-bench: a case tries one write of its MSR and, as that worked or not, *)
(* loops over a fast or a safe write; then it reports.                     *)
(***************************************************************************)
EXTENDS Integers, Sequences

CONSTANTS
  MsrLoop,    \* LOOP, 100000 in the code, a number of at least 1
  Writable    \* the sets of MSRs a machine may have

MSR_IA32_POWER_CTL   == \h1fc
MSR_IA32_TSCDEADLINE == \h6e0

VARIABLES
  writable,   \* the MSRs that can be written on this machine
  tag,        \* the case that runs: its MSR, or 0 at the end
  path,       \* "check", "fast" or "safe"
  msrLoop,    \* the loop variable
  looped      \* history: the MSRs the loop of this case has written

benchVars == <<writable, tag, path, msrLoop, looped>>

BenchInit == /\ writable \in Writable
             /\ tag = MSR_IA32_POWER_CTL /\ path = "check"
             /\ msrLoop = 0 /\ looped = <<>>

CheckWrite ==
  /\ tag # 0 /\ path = "check"
  /\ path' = IF tag \in writable THEN "fast" ELSE "safe"
  /\ msrLoop' = MsrLoop /\ looped' = <<>>
  /\ UNCHANGED <<writable, tag>>

\* The fast write names its MSR, the safe one takes the argument.
LoopMsr == IF path = "fast" THEN MSR_IA32_TSCDEADLINE ELSE tag

LoopWrite ==
  /\ path # "check" /\ msrLoop > 0
  /\ looped' = Append(looped, LoopMsr)
  /\ msrLoop' = msrLoop - 1
  /\ UNCHANGED <<writable, tag, path>>

\* msr_bench_report, and the next case or the end of insmod.
CaseReport ==
  /\ path # "check" /\ msrLoop = 0
  /\ tag' = IF tag = MSR_IA32_POWER_CTL THEN MSR_IA32_TSCDEADLINE ELSE 0
  /\ path' = "check"
  /\ UNCHANGED <<writable, msrLoop, looped>>

BenchOver == tag = 0 /\ UNCHANGED benchVars

BenchNext == CheckWrite \/ LoopWrite \/ CaseReport \/ BenchOver
BenchSpec == BenchInit /\ [][BenchNext]_benchVars

=============================================================================
