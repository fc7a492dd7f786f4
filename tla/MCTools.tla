------------------------------ MODULE MCTools ------------------------------
(***************************************************************************)
(* The programs with a small state, one of which is run: the IPI calls of  *)
(* ipi_bench, tlb-shootdown-bench, apic-ipi, pio-mmio-bench and the tables *)
(* of kvmwrmsr.  The others stay in an initial state.                      *)
(***************************************************************************)
EXTENDS MCMsrTable, IpiCall, TlbShootdown, ApicIpi, ResourceWalk

\* Three CPUs: self-ipi and single-ipi, up to three loops; a broadcaster with two
\* loops, two that take locks, and three with one loop.
MCCallCases ==
  [func : {"gettime"}, loops : 0 .. 3, target : {t \in OneTargets : DOMAIN t = {0}}]
  \cup [func : {"spinlock", "empty"}, loops : {2},
         target : {t \in ManyTargets : DOMAIN t = {0}}]
  \cup [func : {"spinlock"}, loops : {2},
         target : {t \in ManyTargets : DOMAIN t = {0, 1}}]
  \cup [func : {"empty"}, loops : {1},
         target : {t \in ManyTargets : DOMAIN t = CallCpu}]

MCOptions == [threads : {2}, loops : 0 .. 2, unmap : BOOLEAN, interleave : BOOLEAN]

\* Two or three CPUs on up to three nodes, in any order.
MCTopologies == UNION {[S -> 0 .. 2] : S \in {{0, 1}, {0, 2, 3}}}

Kids(names) == [i \in 1 .. Len(names) |-> [name |-> names[i], child |-> "none"]]
Devices(names) == [i \in 1 .. Len(names) |-> [name |-> "other", child |-> names[i]]]
Bus(kids) == [name |-> "PCI Bus 0000:00", kids |-> kids]
Leaf(name) == [name |-> name, kids |-> <<>>]

\* Some of dma1, pic1, timer0, timer1, keyboard, keyboard, in this order.
LegacyPorts == <<"other", "pic1", "timer0", "other", "keyboard", "keyboard">>
SubPorts == {SelectSeq(LegacyPorts, LAMBDA n : n \notin S) :
               S \in SUBSET {"other", "pic1", "timer0", "keyboard"}}
MCPortTrees ==
  {<<Bus(Kids(l)), Leaf("other"), Bus(Kids(<<"other">>))>> : l \in SubPorts}
  \cup {<<Leaf("other")>>}

MCMemTrees ==
  {<<Leaf("other"), Bus(Devices(a)), Bus(Devices(b)), Leaf("IOAPIC 0"), Leaf("Local APIC")>> :
     a \in {<<>>, <<"vram">>},
     b \in {<<>>} \cup [1 .. 2 -> {"virtio-pci-modern", "other", "none"}]}

VARIABLE tool

Tools == {"msr-table", "ipi-call", "tlb-shootdown", "apic-ipi", "pio-mmio"}

\* The tools that are not run have one initial state each.
ToolsInit ==
  /\ tool \in Tools
  /\ Init
  /\ CallInit
  /\ tool # "ipi-call" => wait /\ loops = 0 /\ target[0] = {0}
  /\ TlbInit
  /\ tool # "tlb-shootdown" => opt.loops = 0 /\ opt.unmap /\ opt.interleave
  /\ ApicInit
  /\ tool # "apic-ipi" => /\ options = {} /\ known = {} /\ nodes = 1
                          /\ cpuNode = [c \in {0, 1} |-> 0]
  /\ WalkInit
  /\ tool # "pio-mmio" => /\ Len(ports) = 1
                          /\ mem[2].kids = <<>> /\ mem[3].kids = <<>>

RunMsr(A) ==
  tool = "msr-table" /\ A /\ UNCHANGED <<tool, callVars, tlbVars, apicVars, walkVars>>
RunCall(A) ==
  tool = "ipi-call" /\ A /\ UNCHANGED <<tool, vars, tlbVars, apicVars, walkVars>>
RunTlb(A) ==
  tool = "tlb-shootdown" /\ A /\ UNCHANGED <<tool, vars, callVars, apicVars, walkVars>>
RunApic(A) ==
  tool = "apic-ipi" /\ A /\ UNCHANGED <<tool, vars, callVars, tlbVars, walkVars>>
RunWalk(A) ==
  tool = "pio-mmio" /\ A /\ UNCHANGED <<tool, vars, callVars, tlbVars, apicVars>>

toolVars == <<tool, vars, callVars, tlbVars, apicVars, walkVars>>

ToolsNext == \/ RunMsr(Next) \/ RunCall(CallNext) \/ RunTlb(TlbNext)
             \/ RunApic(ApicNext) \/ RunWalk(WalkNext)

\* The fairness of CallSpec and TlbSpec, for the tool that is run.
ToolsSpec ==
  /\ ToolsInit /\ [][ToolsNext]_toolVars
  /\ \A c \in CallCpu : /\ WF_toolVars(RunCall(c \in Sender /\ Send(c)))
                        /\ WF_toolVars(RunCall(Interrupt(c)))
  /\ WF_toolVars(RunTlb(Main))
  /\ \A t \in Tid : WF_toolVars(RunTlb(Routine(t)))

\* The loops of the IPI calls end, if it is them that run (ipi_bench.c:100, 185).
CallsEnd == tool = "ipi-call" => LoopsEnd

\* tlb-shootdown-bench ends, if it is run.
ShootdownEnds == tool = "tlb-shootdown" => ProcessEnds
=============================================================================
