------------------------------- MODULE ApicIpi -------------------------------
(***************************************************************************)
(* apic-ipi: for each IPI function the options select, bench() chooses a   *)
(* target CPU for every NUMA node, up to MAXNUMA, and sends it IPIs.  One  *)
(* step is one round of the loop over the nodes.                           *)
(***************************************************************************)
EXTENDS Integers, FiniteSets

CONSTANTS
  IpiFunc,      \* the indices of ipi_funcs[], 0 .. 3 in the code
  MAXNUMA,      \* entries of the array numa[], 4 in the code
  Topologies,   \* the machines: online CPU -> cpu_to_node()
  EmptyNodes    \* how many nodes without CPUs a machine may have

ASSUME IpiFuncAssumption    == IpiFunc \subseteq Nat
ASSUME MaxNumaAssumption    == MAXNUMA \in Nat
ASSUME EmptyNodesAssumption == EmptyNodes \subseteq Nat
ASSUME TopologiesAssumption ==
  \A machine \in Topologies :
    /\ machine \in [DOMAIN machine -> Nat] /\ DOMAIN machine # {}
    /\ DOMAIN machine \subseteq Nat /\ IsFiniteSet(DOMAIN machine)

VARIABLES
  cpuNode,      \* the machine
  nodes,        \* num_online_nodes()
  options,      \* the functions still to run, numbers of ipi_funcs[]
  known,        \* those that kallsyms_lookup_name finds
  apc,          \* where insmod is
  currentcpu, node,
  numa,         \* the indices that are set in numa[]
  targets       \* history: the CPUs this bench() has sent IPIs to

machineVars == <<cpuNode, nodes, known>>
apicVars == <<machineVars, options, apc, currentcpu, node, numa, targets>>

Online  == DOMAIN cpuNode
NodesOf(machine) == {machine[c] : c \in DOMAIN machine}

ApicInit ==
  /\ cpuNode \in Topologies
  /\ nodes \in {Cardinality(NodesOf(cpuNode)) + e : e \in EmptyNodes}
  /\ options \in SUBSET IpiFunc /\ known \in SUBSET IpiFunc
  /\ apc = "init" /\ currentcpu = CHOOSE c \in Online : TRUE
  /\ node = 0 /\ numa = {} /\ targets = {}

\* Without options the help is printed; with them every bit is run in turn.
NextFunc ==
  /\ apc = "init" /\ options # {}
  /\ apc' = "bench" /\ node' = 0 /\ numa' = {} /\ targets' = {}
  /\ currentcpu' \in Online
  /\ UNCHANGED <<machineVars, options>>

ReturnMinusOne ==
  /\ apc = "init" /\ options = {}
  /\ apc' = "gone"
  /\ UNCHANGED <<machineVars, options, currentcpu, node, numa, targets>>

Func == CHOOSE f \in options : \A g \in options : f <= g

\* An entry behind the end of numa[] is whatever is on the stack.
Garbage == SUBSET {n \in NodesOf(cpuNode) : n >= MAXNUMA}

Candidates(set) == {c \in Online \ {currentcpu} : cpuNode[c] \notin set}

\* Faulty variant of Served: the entry of the loop index is set.
Served_ByIndex(cpu) == node

\* The entry of numa[] that is set after the IPIs.
Served(cpu) == cpuNode[cpu]

LoopOver == node >= nodes \/ node >= MAXNUMA

SendToNode ==
  /\ apc = "bench" /\ ~LoopOver
  /\ \E g \in Garbage :
       LET found  == Candidates(numa \cup g)
           target == CHOOSE c \in found : \A d \in found : c <= d
       IN  \* No CPU is left (targetcpu is nr_cpu_ids), the function is NULL, or a byte behind numa[]
           \* is set: undefined, and not followed further.
           IF found = {} \/ Func \notin known
             THEN /\ apc' = "astray"
                  /\ UNCHANGED <<node, numa, targets>>
             ELSE /\ apc' = IF Served(target) < MAXNUMA THEN apc ELSE "astray"
                  /\ node' = node + 1
                  /\ numa' = numa \cup {Served(target)}
                  /\ targets' = targets \cup {target}
  /\ UNCHANGED <<machineVars, options, currentcpu>>

BenchReturns ==
  /\ apc = "bench" /\ LoopOver
  /\ apc' = "init"
  /\ options' = options \ {Func}
  /\ UNCHANGED <<machineVars, currentcpu, node, numa, targets>>

ApicOver == apc \in {"gone", "astray"} /\ UNCHANGED apicVars

ApicNext == NextFunc \/ ReturnMinusOne \/ SendToNode \/ BenchReturns \/ ApicOver
ApicSpec == ApicInit /\ [][ApicNext]_apicVars

\* "from current cpu to each NUMA node IPI" (apic_ipi.c:37): if every online
\* node has a CPU other than the current one, and numa[] an entry for it, then
\* each node gets the IPIs of one CPU, never the current one, and the search
\* (lines 39-47) neither runs out of CPUs nor leaves the array.
Regular == /\ nodes = Cardinality(NodesOf(cpuNode))
           /\ \A n \in NodesOf(cpuNode) :
                n < MAXNUMA /\ \E c \in Online \ {currentcpu} : cpuNode[c] = n

EachNodeOnce ==
  Regular /\ known = IpiFunc =>
    /\ apc # "astray"
    /\ currentcpu \notin targets
    /\ \A c, d \in targets : cpuNode[c] = cpuNode[d] => c = d
    /\ apc = "bench" /\ LoopOver => {cpuNode[c] : c \in targets} = NodesOf(cpuNode)
=============================================================================
