------------------------------ MODULE MsrTable ------------------------------
(***************************************************************************)
(* The tables of kvmwrmsr's msr.h: which counter a write of an MSR is      *)
(* recorded in, which counter a line of the report is read from, and which *)
(* MSRs show_wrmsr prints a line for.  One write is recorded and shown.    *)
(***************************************************************************)
EXTENDS Integers

CONSTANT Msrs   \* the MSRs a guest writes

ASSUME MsrsAssumption == Msrs \subseteq Nat

\* The counters (wrmsr_exits_...) that MSRs of record_wrmsr's switch have.
MsrCase ==
  [set_apic_base            |-> {\h1b},  set_tscadjust           |-> {\h3b},
   set_tscdeadline          |-> {\h6e0}, set_misc_enable         |-> {\h1a0},
   set_mcg_status           |-> {\h17a}, set_mcg_ctl             |-> {\h17b},
   set_mcg_ext_ctl          |-> {\h4d0}, set_smbase              |-> {\h9e},
   set_platform_info        |-> {\hce},
   set_misc_features_enables |-> {\h140},
   set_wall_clock           |-> {\h4b564d00, \h11},
   set_system_time          |-> {\h4b564d01, \h12},
   set_perf_fixed_ctr0      |-> {\h309}, set_perf_fixed_ctr1     |-> {\h30a},
   set_perf_fixed_ctr2      |-> {\h30b}, set_perf_fixed_ctr_ctrl |-> {\h38d},
   set_perf_global_status   |-> {\h38e}, set_perf_global_ctrl    |-> {\h38f},
   set_perf_global_ovf_ctrl |-> {\h390}]

\* Those of the x2APIC registers, by (msr - APIC_BASE_MSR) << 4.
LapicCase ==
  [set_lapic_tpr  |-> {\h80},  set_lapic_eoi  |-> {\hb0},
   set_lapic_ldr  |-> {\hd0},  set_lapic_dfr  |-> {\he0},
   set_lapic_spiv |-> {\hf0},  set_lapic_icr  |-> {\h300},
   set_lapic_icr2 |-> {\h310},
   set_lapic_lvt  |-> {\h350, \h330, \h340, \h360, \h370},
   set_lapic_lvtt |-> {\h320}, set_lapic_self_ipi |-> {\h3f0}]

Counter == DOMAIN MsrCase \cup DOMAIN LapicCase
           \cup {"set_lapic_others", "others"}

APIC_BASE_MSR == \h800
LapicMsr      == APIC_BASE_MSR .. APIC_BASE_MSR + \h3ff

\* The key whose set holds x, or the default of the switch.
Switch(case, x, default) ==
  IF \E k \in DOMAIN case : x \in case[k]
    THEN CHOOSE k \in DOMAIN case : x \in case[k]
    ELSE default

LapicCounter(m) == Switch(LapicCase, (m - APIC_BASE_MSR) * 16, "set_lapic_others")

\* record_wrmsr; msr2str groups the MSRs in the same way.
RecordedIn(m) == IF m \in LapicMsr THEN LapicCounter(m)
                                   ELSE Switch(MsrCase, m, "others")

\* report_wrmsr
ReturnedFrom(m) == IF RecordedIn(m) = "set_misc_features_enables"
                     THEN "set_misc_enable" ELSE RecordedIn(m)

NamedMsr == UNION {MsrCase[k] : k \in DOMAIN MsrCase}

\* Faulty variant of Lines: the line of APIC_LVTT is forgotten.
Lines_NoLvtt ==
  (NamedMsr \ {\h4b564d00, \h4b564d01}) \cup {0}
  \cup {APIC_BASE_MSR + r \div 16 :
          r \in {\h80, \hb0, \hd0, \he0, \hf0, \h300, \h310, \h350, \h3f0, 0}}

\* The MSRs show_wrmsr prints a line for; 0 and APIC_BASE_MSR stand for the
\* MSRs and for the x2APIC registers that have no line of their own.
Lines ==
  (NamedMsr \ {\h4b564d00, \h4b564d01}) \cup {0}
  \cup {APIC_BASE_MSR + r \div 16 :
          r \in {\h80, \hb0, \hd0, \he0, \hf0, \h300, \h310, \h350, \h320,
                 \h3f0, 0}}

VARIABLES written, counts

vars == <<written, counts>>

Init == written = {} /\ counts = [k \in Counter |-> 0]

RecordWrmsr ==
  /\ written = {}
  /\ \E m \in Msrs : /\ written' = {m}
                     /\ counts' = [counts EXCEPT ![RecordedIn(m)] = @ + 1]

\* After the report.
ResetWrmsr ==
  /\ written # {}
  /\ written' = {} /\ counts' = [k \in Counter |-> 0]

Next == RecordWrmsr \/ ResetWrmsr
Spec == Init /\ [][Next]_vars

\* A write of an MSR shows up in one line of the report, the line that bears
\* the name msr2str gives this MSR, and in no other (msr.h:94-344,
\* kvmwrmsr.c:20-85): "Report kvm exit wrmsr detail" (README.md:11).
ShownOnOwnLine ==
  \A m \in written :
    LET nonzero == {l \in Lines : counts[ReturnedFrom(l)] > 0}
    IN  \E l \in Lines : nonzero = {l} /\ RecordedIn(l) = RecordedIn(m)
=============================================================================
