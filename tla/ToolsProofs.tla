----------------------------- MODULE ToolsProofs -----------------------------
(***************************************************************************)
(* Theorems about the programs with a small state: the nodes apic-ipi      *)
(* sends IPIs to, the ports pio-mmio-bench reports, and the line of        *)
(* kvmwrmsr's report on which a write is shown.                            *)
(***************************************************************************)
EXTENDS MsrTable, ApicIpi, ResourceWalk, FiniteSetTheorems,
        WellFoundedInduction, TLAPS

\* find_next_bit and the like: a set of numbers that is not empty has a least.
LEMMA LeastOf ==
  ASSUME NEW T, T \subseteq Nat, T # {}
  PROVE  \E x \in T : \A y \in T : x <= y
<1> DEFINE R == OpToRel(<, Nat)
<1>1. IsWellFoundedOn(R, Nat)
  BY NatLessThanWellFounded
<1>2. \A x, y \in Nat : y < x => <<y, x>> \in R
  BY DEF OpToRel
<1> HIDE DEF R
<1>3. PICK x \in T : \A y \in T : ~ (<<y, x>> \in R)
  BY <1>1, WFMin
<1>4. \A y \in T : ~ (y < x)
  BY <1>2, <1>3
<1>5. \A y \in T : x \in Nat /\ y \in Nat
  OBVIOUS
<1> QED BY <1>4, <1>5

-----------------------------------------------------------------------------
(***************************************************************************)
(* apic-ipi.                                                               *)
(***************************************************************************)
ApicTypeOK ==
  /\ cpuNode \in Topologies /\ nodes \in Nat
  /\ options \subseteq IpiFunc /\ known \subseteq IpiFunc
  /\ apc \in {"init", "bench", "astray", "gone"}
  /\ apc = "bench" => options # {}
  /\ currentcpu \in Online /\ node \in Nat

(***************************************************************************)
(* On a machine where the search is to work, numa[] holds the nodes of the *)
(* targets, one for each round of the loop.                                *)
(***************************************************************************)
NumaOk ==
  /\ apc # "astray"
  /\ targets \subseteq Online \ {currentcpu}
  /\ \A c, d \in targets : cpuNode[c] = cpuNode[d] => c = d
  /\ numa = {cpuNode[c] : c \in targets}
  /\ node = Cardinality(numa)

ApicInv == ApicTypeOK /\ (Regular /\ known = IpiFunc => NumaOk)

LEMMA NodesFinite ==
  ASSUME NEW machine \in Topologies
  PROVE  IsFiniteSet(NodesOf(machine)) /\ Cardinality(NodesOf(machine)) \in Nat
<1>1. machine \in [DOMAIN machine -> Nat] /\ IsFiniteSet(DOMAIN machine)
  BY TopologiesAssumption
<1>2. machine \in Surjection(DOMAIN machine, NodesOf(machine))
  BY <1>1 DEF Surjection, NodesOf
<1> QED BY <1>1, <1>2, FS_Surjection, FS_CardinalityType

LEMMA MachineFacts ==
  ASSUME ApicTypeOK
  PROVE  /\ Online \subseteq Nat /\ cpuNode \in [Online -> Nat]
         /\ NodesOf(cpuNode) \subseteq Nat
         /\ IsFiniteSet(NodesOf(cpuNode)) /\ Cardinality(NodesOf(cpuNode)) \in Nat
<1>1. cpuNode \in Topologies /\ cpuNode \in [Online -> Nat] /\ Online \subseteq Nat
  BY TopologiesAssumption DEF ApicTypeOK, Online
<1>2. NodesOf(cpuNode) = {cpuNode[c] : c \in Online}
  BY DEF NodesOf, Online
<1> QED BY <1>1, <1>2, NodesFinite

LEMMA ApicBegins == ApicInit => ApicInv
<1> SUFFICES ASSUME ApicInit PROVE ApicInv
  OBVIOUS
<1>1. cpuNode \in Topologies /\ Online # {}
  BY TopologiesAssumption DEF ApicInit, Online
<1>2. currentcpu \in Online
  BY <1>1 DEF ApicInit
<1>3. nodes \in Nat
  BY <1>1, NodesFinite, EmptyNodesAssumption DEF ApicInit
<1>4. ApicTypeOK
  BY <1>2, <1>3 DEF ApicInit, ApicTypeOK
<1>5. NumaOk
  BY FS_EmptySet DEF ApicInit, NumaOk
<1> QED BY <1>4, <1>5 DEF ApicInv

\* One round of the loop finds a CPU on a node that has had no IPIs.
LEMMA SendFinds ==
  ASSUME ApicTypeOK, Regular, known = IpiFunc, NumaOk, SendToNode
  PROVE  \E target \in Online \ {currentcpu} :
           /\ cpuNode[target] \notin numa
           /\ apc' = apc /\ node' = node + 1
           /\ numa' = numa \cup {cpuNode[target]}
           /\ targets' = targets \cup {target}
<1>1. /\ Online \subseteq Nat /\ cpuNode \in [Online -> Nat]
      /\ IsFiniteSet(NodesOf(cpuNode)) /\ Cardinality(NodesOf(cpuNode)) \in Nat
  BY MachineFacts
<1>2. Garbage = {{}}
  <2>1. {n \in NodesOf(cpuNode) : n >= MAXNUMA} = {}
    <3>1. \A n \in NodesOf(cpuNode) : n \in Nat /\ n < MAXNUMA
      BY MachineFacts DEF Regular
    <3> QED BY <3>1, MaxNumaAssumption
  <2> QED BY <2>1 DEF Garbage
<1>3. PICK n \in NodesOf(cpuNode) : n \notin numa
  <2>1. numa \subseteq NodesOf(cpuNode)
    BY DEF NumaOk, NodesOf, Online
  <2>2. node # nodes /\ nodes = Cardinality(NodesOf(cpuNode))
    BY DEF SendToNode, LoopOver, Regular, ApicTypeOK
  <2>3. numa # NodesOf(cpuNode)
    BY <2>2 DEF NumaOk
  <2> QED BY <2>1, <2>3
<1>4. PICK c \in Online \ {currentcpu} : cpuNode[c] = n
  BY DEF Regular
<1>5. PICK g \in Garbage :
       LET found  == Candidates(numa \cup g)
           target == CHOOSE x \in found : \A y \in found : x <= y
       IN  IF found = {} \/ Func \notin known
             THEN /\ apc' = "astray"
                  /\ UNCHANGED <<node, numa, targets>>
             ELSE /\ apc' = IF Served(target) < MAXNUMA THEN apc ELSE "astray"
                  /\ node' = node + 1
                  /\ numa' = numa \cup {Served(target)}
                  /\ targets' = targets \cup {target}
  BY DEF SendToNode
<1> DEFINE found  == Candidates(numa)
           target == CHOOSE x \in found : \A y \in found : x <= y
<1>6. numa \cup g = numa
  BY <1>2
<1>7. found # {} /\ found \subseteq Nat
  <2>1. c \in found
    BY <1>3, <1>4 DEF Candidates
  <2> QED BY <1>1, <2>1 DEF Candidates
<1> HIDE DEF found
<1>8. target \in found
  BY <1>7, LeastOf
<1> HIDE DEF target
<1>9. target \in Online \ {currentcpu} /\ cpuNode[target] \notin numa
  BY <1>8 DEF found, Candidates
<1>10. Func \in known
  <2>1. options # {} /\ options \subseteq IpiFunc /\ options \subseteq Nat
    BY IpiFuncAssumption DEF ApicTypeOK, SendToNode
  <2>2. Func \in options
    BY <2>1, LeastOf DEF Func
  <2> QED BY <2>1, <2>2
<1>11. Served(target) = cpuNode[target] /\ cpuNode[target] < MAXNUMA
  <2>1. cpuNode[target] \in NodesOf(cpuNode)
    BY <1>9 DEF NodesOf, Online
  <2> QED BY <2>1 DEF Served, Regular
<1>12. /\ apc' = IF Served(target) < MAXNUMA THEN apc ELSE "astray"
       /\ node' = node + 1
       /\ numa' = numa \cup {Served(target)}
       /\ targets' = targets \cup {target}
  BY <1>5, <1>6, <1>7, <1>10 DEF target, found
<1> QED BY <1>9, <1>11, <1>12

LEMMA ApicStays ==
  ASSUME ApicInv, [ApicNext]_apicVars
  PROVE  ApicInv'
<1>1. ApicTypeOK
  BY DEF ApicInv
<1>2. /\ UNCHANGED <<cpuNode, nodes, known>> /\ Online' = Online
      /\ NodesOf(cpuNode)' = NodesOf(cpuNode)
  BY DEF ApicNext, NextFunc, ReturnMinusOne, SendToNode, BenchReturns, ApicOver,
     apicVars, machineVars, Online, NodesOf
<1>3. ApicTypeOK'
  <2>1. node' \in Nat
    <3>1. node' \in {node, node + 1, 0}
      BY DEF ApicNext, NextFunc, ReturnMinusOne, SendToNode, BenchReturns, ApicOver,
         apicVars
    <3> QED BY <1>1, <3>1 DEF ApicTypeOK
  <2>2. currentcpu' \in Online'
    BY <1>1, <1>2 DEF ApicTypeOK, ApicNext, NextFunc, ReturnMinusOne, SendToNode,
       BenchReturns, ApicOver, apicVars
  <2>3. options' \subseteq IpiFunc
    BY <1>1 DEF ApicTypeOK, ApicNext, NextFunc, ReturnMinusOne, SendToNode,
       BenchReturns, ApicOver, apicVars
  <2>4. /\ apc' \in {"init", "bench", "astray", "gone"}
        /\ apc' = "bench" => options' # {}
    BY <1>1 DEF ApicTypeOK, ApicNext, NextFunc, ReturnMinusOne, SendToNode,
       BenchReturns, ApicOver, apicVars
  <2> QED BY <1>1, <1>2, <2>1, <2>2, <2>3, <2>4 DEF ApicTypeOK
<1>4. SUFFICES ASSUME Regular', known = IpiFunc PROVE NumaOk'
  BY <1>2, <1>3 DEF ApicInv
<1>5. CASE NextFunc
  BY <1>5, FS_EmptySet DEF NextFunc, NumaOk
<1>6. CASE ~NextFunc
  <2>1. UNCHANGED currentcpu
    BY <1>6 DEF ApicNext, ReturnMinusOne, SendToNode, BenchReturns, ApicOver, apicVars
  <2>2. Regular /\ NumaOk
    <3>1. Regular
      BY <1>2, <1>4, <2>1 DEF Regular
    <3> QED BY <1>4, <3>1 DEF ApicInv
  <2>3. CASE SendToNode
    <3>1. PICK target \in Online \ {currentcpu} :
           /\ cpuNode[target] \notin numa
           /\ apc' = apc /\ node' = node + 1
           /\ numa' = numa \cup {cpuNode[target]}
           /\ targets' = targets \cup {target}
      BY <1>1, <1>4, <2>2, <2>3, SendFinds
    <3>2. IsFiniteSet(numa)
      <4>1. numa \subseteq NodesOf(cpuNode)
        BY <2>2 DEF NumaOk, NodesOf, Online
      <4> QED BY <1>1, <4>1, MachineFacts, FS_Subset
    <3>3. node' = Cardinality(numa')
      BY <2>2, <3>1, <3>2, FS_AddElement DEF NumaOk
    <3>4. numa' = {cpuNode[x] : x \in targets'}
      BY <2>2, <3>1 DEF NumaOk
    <3>5. \A x \in targets : cpuNode[x] \in numa
      BY <2>2 DEF NumaOk
    <3>6. \A x, y \in targets' : cpuNode[x] = cpuNode[y] => x = y
      BY <2>2, <3>1, <3>5 DEF NumaOk
    <3> QED BY <1>2, <2>1, <2>2, <3>1, <3>3, <3>4, <3>6 DEF NumaOk
  <2>4. CASE ~SendToNode
    <3>1. UNCHANGED <<node, numa, targets>> /\ (apc' = apc \/ apc' # "astray")
      BY <1>6, <2>4 DEF ApicNext, ReturnMinusOne, BenchReturns, ApicOver, apicVars
    <3> QED BY <1>2, <2>1, <2>2, <3>1 DEF NumaOk
  <2> QED BY <2>3, <2>4
<1> QED BY <1>5, <1>6

\* "from current cpu to each NUMA node IPI" (apic_ipi.c:37): where each node has
\* a CPU to send to and an entry in numa[], the search finds one on each node,
\* never the current CPU nor two on a node (apic_ipi.c:39-47).
THEOREM EachNode == ApicSpec => []EachNodeOnce
<1>1. ApicInv => EachNodeOnce
  <2> SUFFICES ASSUME ApicInv, Regular, known = IpiFunc
               PROVE  /\ apc # "astray"
                      /\ currentcpu \notin targets
                      /\ \A c, d \in targets : cpuNode[c] = cpuNode[d] => c = d
                      /\ LoopOver => {cpuNode[c] : c \in targets} = NodesOf(cpuNode)
    BY DEF EachNodeOnce
  <2>1. ApicTypeOK /\ NumaOk
    BY DEF ApicInv
  <2>2. /\ numa \subseteq NodesOf(cpuNode) /\ numa = {cpuNode[c] : c \in targets}
        /\ node = Cardinality(numa) /\ node \in Nat
        /\ nodes = Cardinality(NodesOf(cpuNode)) /\ nodes \in Nat
    BY <2>1 DEF NumaOk, NodesOf, Online, Regular, ApicTypeOK
  <2>3. Cardinality(NodesOf(cpuNode)) <= MAXNUMA
    <3>1. NodesOf(cpuNode) \subseteq 0 .. MAXNUMA - 1
      <4>1. \A n \in NodesOf(cpuNode) : n \in Nat /\ n < MAXNUMA
        BY <2>1, MachineFacts DEF Regular
      <4> QED BY <4>1, MaxNumaAssumption
    <3>2. /\ IsFiniteSet(0 .. MAXNUMA - 1)
          /\ Cardinality(0 .. MAXNUMA - 1) = IF 0 > MAXNUMA - 1 THEN 0
                                             ELSE (MAXNUMA - 1) - 0 + 1
      BY MaxNumaAssumption, FS_Interval
    <3>3. Cardinality(NodesOf(cpuNode)) <= Cardinality(0 .. MAXNUMA - 1)
      BY <3>1, <3>2, FS_Subset
    <3>4. Cardinality(0 .. MAXNUMA - 1) = MAXNUMA
      BY <3>2, MaxNumaAssumption
    <3> QED BY <3>3, <3>4
  <2>4. ASSUME LoopOver PROVE numa = NodesOf(cpuNode)
    <3>1. IsFiniteSet(NodesOf(cpuNode)) /\ Cardinality(NodesOf(cpuNode)) \in Nat
      BY <2>1, MachineFacts
    <3>2. Cardinality(numa) <= Cardinality(NodesOf(cpuNode))
      BY <2>2, <3>1, FS_Subset
    <3>3. Cardinality(numa) >= Cardinality(NodesOf(cpuNode))
      BY <2>2, <2>3, <2>4, <3>1, MaxNumaAssumption DEF LoopOver
    <3>4. Cardinality(numa) = Cardinality(NodesOf(cpuNode))
      BY <2>2, <3>1, <3>2, <3>3
    <3> QED BY <2>2, <3>1, <3>4, FS_Subset
  <2> QED BY <2>1, <2>2, <2>4 DEF NumaOk
<1> QED BY <1>1, ApicBegins, ApicStays, PTL DEF ApicSpec


-----------------------------------------------------------------------------
(***************************************************************************)
(* pio-mmio-bench.                                                         *)
(***************************************************************************)
Bus == "PCI Bus 0000:00"

\* A kid k of the PCI bus i.
IsKid(tree, i, k) == /\ i \in 1 .. Len(tree) /\ tree[i].name = Bus
                     /\ k \in 1 .. Len(tree[i].kids)

\* The first keyboard port of a bus.
FirstKey(i, k) ==
  /\ IsKid(ports, i, k) /\ ports[i].kids[k].name = "keyboard"
  /\ \A j \in 1 .. Len(ports[i].kids) : j < k => ports[i].kids[j].name # "keyboard"

WantPort(w, i, k) ==
  \/ w = "pio" /\ IsKid(ports, i, k) /\ ports[i].kids[k].name \in {"pic1", "timer0"}
  \/ w \in {"pio", "empty"} /\ FirstKey(i, k)

WantMem(w, i, k) ==
  /\ w = "mmio"
  /\ \/ /\ k = 0 /\ i \in 1 .. Len(mem)
        /\ mem[i].name \in {"IOAPIC 0", "Local APIC", Bus}
     \/ /\ IsKid(mem, i, k)
        /\ mem[i].kids[k].child \in {"vram", "virtio-pci-modern"}

Want(w, i, k) == IF walk = "pio" THEN WantPort(w, i, k) ELSE WantMem(w, i, k)

\* The walk has left this position behind.
Past(i, k) == i < res \/ (i = res /\ k < tmp)

InList(q, x) == \E n \in 1 .. Len(q) : q[n] = x
NoTwice(q)   == \A m, n \in 1 .. Len(q) : q[m] = q[n] => m = n
Place == {"pio", "empty", "mmio"} \X Nat \X Nat

\* What is to be read until the walk is where it is.
Due(w, i, k) ==
  \/ WantPort(w, i, k) /\ (walk = "pio" => Past(i, k))
  \/ WantMem(w, i, k) /\ (walk = "gone" \/ (walk \in {"mmio", "oops"} /\ Past(i, k)))

WalkTypeOK ==
  /\ ports \in PortTrees /\ mem \in MemTrees
  /\ walk \in {"pio", "mmio", "gone", "oops"} /\ res \in Nat \ {0} /\ tmp \in Nat
  /\ OnBus => walk # "gone" /\ res <= Len(Tree) /\ IsKid(Tree, res, tmp)
  /\ hits \in Seq(Place)

WalkInv ==
  /\ WalkTypeOK /\ NoTwice(hits)
  /\ walk = "pio" /\ OnBus => \A j \in 1 .. tmp - 1 : ports[res].kids[j].name # "keyboard"
  /\ \A w : \A i, k \in Nat : InList(hits, <<w, i, k>>) <=> Due(w, i, k)

LEMMA KidsAre ==
  \A q \in Seq(Resource) : /\ Len(q) \in Nat
                            /\ \A i \in 1 .. Len(q) :
                                 /\ Len(q[i].kids) \in Nat
                                 /\ q[i].kids # <<>> => Len(q[i].kids) > 0
<1>1. \A q \in Seq(Resource) : \A i \in 1 .. Len(q) : q[i] \in Resource
  OBVIOUS
<1>2. \A x \in Resource : x.kids \in Seq([name : STRING, child : STRING])
  BY DEF Resource
<1>3. \A q \in Seq([name : STRING, child : STRING]) :
        Len(q) \in Nat /\ (q # <<>> => Len(q) > 0)
  OBVIOUS
<1>4. \A q \in Seq(Resource) : Len(q) \in Nat
  OBVIOUS
<1> QED BY <1>1, <1>2, <1>3, <1>4

LEMMA TreeFacts ==
  ASSUME WalkTypeOK
  PROVE  /\ ports \in Seq(Resource) /\ mem \in Seq(Resource) /\ Tree \in Seq(Resource)
         /\ Len(ports) \in Nat /\ Len(mem) \in Nat /\ Len(Tree) \in Nat
         /\ \A i \in 1 .. Len(ports) : Len(ports[i].kids) \in Nat
         /\ \A i \in 1 .. Len(mem) : Len(mem[i].kids) \in Nat
         /\ \A i \in 1 .. Len(Tree) : /\ Len(Tree[i].kids) \in Nat
                                      /\ Tree[i].kids # <<>> => Len(Tree[i].kids) > 0
<1>1. /\ ports \in Seq(Resource) /\ mem \in Seq(Resource) /\ Tree \in Seq(Resource)
  BY TreesAssumption DEF WalkTypeOK, Tree
<1> QED BY <1>1, KidsAre

LEMMA Concat ==
  ASSUME NEW P, NEW q \in Seq(P), NEW r \in Seq(P)
  PROVE  /\ q \o r \in Seq(P)
         /\ \A x : InList(q \o r, x) <=> InList(q, x) \/ InList(r, x)
         /\ (NoTwice(q) /\ NoTwice(r) /\ \A x : ~(InList(q, x) /\ InList(r, x)))
              => NoTwice(q \o r)
<1> DEFINE s == q \o r
<1>1. /\ s \in Seq(P) /\ Len(s) = Len(q) + Len(r) /\ Len(q) \in Nat /\ Len(r) \in Nat
      /\ \A n \in 1 .. Len(q) : s[n] = q[n]
      /\ \A n \in 1 .. Len(r) : s[Len(q) + n] = r[n]
  OBVIOUS
<1>2. \A n \in 1 .. Len(s) :
        n \in 1 .. Len(q) \/ (n - Len(q) \in 1 .. Len(r) /\ Len(q) + (n - Len(q)) = n)
  BY <1>1
<1>3. /\ \A n \in 1 .. Len(q) : n \in 1 .. Len(s)
      /\ \A n \in 1 .. Len(r) : Len(q) + n \in 1 .. Len(s)
  BY <1>1
<1> HIDE DEF s
<1>4. \A n \in 1 .. Len(s) :
        \/ s[n] = q[n] /\ n \in 1 .. Len(q)
        \/ s[n] = r[n - Len(q)] /\ n - Len(q) \in 1 .. Len(r)
  <2> SUFFICES ASSUME NEW n \in 1 .. Len(s)
               PROVE  \/ s[n] = q[n] /\ n \in 1 .. Len(q)
                      \/ s[n] = r[n - Len(q)] /\ n - Len(q) \in 1 .. Len(r)
    OBVIOUS
  <2>1. CASE n \in 1 .. Len(q)
    <3>1. s[n] = q[n]
      BY <1>1, <2>1
    <3> QED BY <2>1, <3>1
  <2>2. CASE n - Len(q) \in 1 .. Len(r) /\ Len(q) + (n - Len(q)) = n
    <3>1. s[Len(q) + (n - Len(q))] = r[n - Len(q)]
      BY <1>1, <2>2
    <3> QED BY <2>2, <3>1
  <2> QED BY <1>2, <2>1, <2>2
<1>5. \A x : InList(s, x) <=> InList(q, x) \/ InList(r, x)
  <2>1. ASSUME NEW x, InList(s, x) PROVE InList(q, x) \/ InList(r, x)
    BY <1>4, <2>1 DEF InList
  <2>2. ASSUME NEW x, InList(q, x) PROVE InList(s, x)
    <3>1. PICK n \in 1 .. Len(q) : q[n] = x
      BY <2>2 DEF InList
    <3> QED BY <1>1, <1>3, <3>1 DEF InList
  <2>3. ASSUME NEW x, InList(r, x) PROVE InList(s, x)
    <3>1. PICK n \in 1 .. Len(r) : r[n] = x
      BY <2>3 DEF InList
    <3>2. s[Len(q) + n] = x /\ Len(q) + n \in 1 .. Len(s)
      BY <1>1, <1>3, <3>1
    <3> QED BY <3>2 DEF InList
  <2> QED BY <2>1, <2>2, <2>3
<1>6. ASSUME NoTwice(q), NoTwice(r), \A x : ~(InList(q, x) /\ InList(r, x))
      PROVE  NoTwice(s)
  <2> SUFFICES ASSUME NEW m \in 1 .. Len(s), NEW n \in 1 .. Len(s), s[m] = s[n]
               PROVE  m = n
    BY DEF NoTwice
  <2>1. CASE m \in 1 .. Len(q) /\ n \in 1 .. Len(q) /\ s[m] = q[m] /\ s[n] = q[n]
    BY <1>6, <2>1 DEF NoTwice
  <2>2. CASE /\ m - Len(q) \in 1 .. Len(r) /\ n - Len(q) \in 1 .. Len(r)
             /\ s[m] = r[m - Len(q)] /\ s[n] = r[n - Len(q)]
    <3>1. m - Len(q) = n - Len(q)
      BY <1>6, <2>2 DEF NoTwice
    <3> QED BY <1>1, <3>1
  <2>3. CASE m \in 1 .. Len(q) /\ s[m] = q[m] /\ s[n] = r[n - Len(q)]
             /\ n - Len(q) \in 1 .. Len(r)
    <3>1. InList(q, s[m]) /\ InList(r, s[m])
      BY <2>3 DEF InList
    <3> QED BY <1>6, <3>1
  <2>4. CASE n \in 1 .. Len(q) /\ s[n] = q[n] /\ s[m] = r[m - Len(q)]
             /\ m - Len(q) \in 1 .. Len(r)
    <3>1. InList(q, s[n]) /\ InList(r, s[n])
      BY <2>4 DEF InList
    <3> QED BY <1>6, <3>1
  <2> QED BY <1>4, <2>1, <2>2, <2>3, <2>4
<1> QED BY <1>1, <1>5, <1>6 DEF s


LEMMA NoList ==
  ASSUME NEW P
  PROVE  <<>> \in Seq(P) /\ NoTwice(<<>>) /\ \A x : ~InList(<<>>, x)
  BY DEF NoTwice, InList

LEMMA OneList ==
  ASSUME NEW P, NEW a \in P
  PROVE  /\ <<a>> \in Seq(P) /\ NoTwice(<<a>>)
         /\ \A x : InList(<<a>>, x) <=> x = a
<1>1. Len(<<a>>) = 1 /\ <<a>>[1] = a /\ \A n \in 1 .. 1 : n = 1
  OBVIOUS
<1>2. 1 \in 1 .. 1 /\ <<a>> \in Seq(P)
  OBVIOUS
<1> QED BY <1>1, <1>2 DEF NoTwice, InList

LEMMA TwoList ==
  ASSUME NEW P, NEW a \in P, NEW b \in P, a # b
  PROVE  /\ <<a, b>> \in Seq(P) /\ NoTwice(<<a, b>>)
         /\ \A x : InList(<<a, b>>, x) <=> x = a \/ x = b
<1> DEFINE q == <<a, b>>
<1>1. /\ Len(q) = 2 /\ q[1] = a /\ q[2] = b /\ q \in Seq(P)
      /\ \A n \in 1 .. 2 : n = 1 \/ n = 2
  OBVIOUS
<1>2. 1 \in 1 .. 2 /\ 2 \in 1 .. 2
  OBVIOUS
<1> HIDE DEF q
<1>3. NoTwice(q)
  BY <1>1 DEF NoTwice
<1>4. \A x : InList(q, x) <=> x = a \/ x = b
  BY <1>1, <1>2 DEF InList
<1> QED BY <1>1, <1>3, <1>4 DEF q

\* A round of a loop that reads what is wanted of the positions it leaves.
LEMMA ReadKeeps ==
  ASSUME WalkInv, NEW list \in Seq(Place), NoTwice(list),
         walk \in {"pio", "mmio"}, UNCHANGED <<ports, mem, walk>>, hits' = hits \o list,
         \A i, k \in Nat : Past(i, k) => Past(i, k)',
         \A w : \A i, k \in Nat : InList(list, <<w, i, k>>)
                        <=> Want(w, i, k) /\ ~Past(i, k) /\ Past(i, k)'
  PROVE  /\ hits' \in Seq(Place) /\ NoTwice(hits')
         /\ \A w : \A i, k \in Nat : InList(hits', <<w, i, k>>) <=> Due(w, i, k)'
<1>1. /\ hits \in Seq(Place) /\ NoTwice(hits)
      /\ \A w : \A i, k \in Nat : InList(hits, <<w, i, k>>) <=> Due(w, i, k)
      /\ walk \in {"pio", "mmio"}
  BY DEF WalkInv, WalkTypeOK
<1>2. \A w : \A i, k \in Nat : InList(list, <<w, i, k>>) => ~Due(w, i, k)
  <2> SUFFICES ASSUME NEW w, NEW i \in Nat, NEW k \in Nat, Want(w, i, k), ~Past(i, k)
               PROVE  ~Due(w, i, k)
    OBVIOUS
  <2>1. CASE walk = "pio"
    BY <2>1 DEF Due
  <2>2. CASE walk = "mmio"
    BY <2>2 DEF Due, Want, WantPort, WantMem
  <2> QED BY <1>1, <2>1, <2>2
<1>3. \A x : ~(InList(hits, x) /\ InList(list, x))
  <2> SUFFICES ASSUME NEW x, InList(hits, x), InList(list, x) PROVE FALSE
    OBVIOUS
  <2>1. x \in Place
    BY DEF InList
  <2>2. x = <<x[1], x[2], x[3]>> /\ x[2] \in Nat /\ x[3] \in Nat
    BY <2>1 DEF Place
  <2>3. InList(hits, <<x[1], x[2], x[3]>>) /\ InList(list, <<x[1], x[2], x[3]>>)
    BY <2>2
  <2>4. Due(x[1], x[2], x[3])
    BY <1>1, <2>2, <2>3
  <2>5. ~Due(x[1], x[2], x[3])
    BY <1>2, <2>2, <2>3
  <2> QED BY <2>4, <2>5
<1>4. /\ hits' \in Seq(Place) /\ NoTwice(hits')
      /\ \A x : InList(hits', x) <=> InList(hits, x) \/ InList(list, x)
  BY <1>1, <1>3, Concat
<1>5. \A w : \A i, k \in Nat : Due(w, i, k)' <=> Due(w, i, k) \/ InList(list, <<w, i, k>>)
  <2> SUFFICES ASSUME NEW w, NEW i \in Nat, NEW k \in Nat
               PROVE  Due(w, i, k)' <=> \/ Due(w, i, k)
                                        \/ Want(w, i, k) /\ ~Past(i, k) /\ Past(i, k)'
    OBVIOUS
  <2>1. WantPort(w, i, k)' = WantPort(w, i, k) /\ WantMem(w, i, k)' = WantMem(w, i, k)
    BY DEF WantPort, WantMem, FirstKey, IsKid
  <2>2. CASE walk = "pio"
    BY <2>1, <2>2 DEF Due, Want
  <2>3. CASE walk = "mmio"
    BY <2>1, <2>3 DEF Due, Want
  <2> QED BY <1>1, <2>2, <2>3
<1> QED BY <1>1, <1>4, <1>5


\* Leaving a kid that is not followed by others to the next resource, or else to
\* the next kid, leaves just this kid.
LEMMA KidLeft ==
  ASSUME WalkTypeOK, IsKid(Tree, res, tmp), NextKid
  PROVE  /\ res' \in Nat \ {0} /\ tmp' \in Nat
         /\ tmp' > 0 => res' = res /\ tmp' = tmp + 1 /\ IsKid(Tree, res, tmp')
         /\ \A i, k \in Nat : Past(i, k) => Past(i, k)'
         /\ \A i, k \in Nat : k = 0 \/ IsKid(Tree, i, k) =>
              (~Past(i, k) /\ Past(i, k)' <=> i = res /\ k = tmp)
<1>1. /\ res \in Nat \ {0} /\ tmp \in Nat /\ tmp > 0 /\ tmp <= Len(Tree[res].kids)
      /\ Len(Tree[res].kids) \in Nat /\ res \in 1 .. Len(Tree) /\ Tree[res].name = Bus
  BY TreeFacts DEF WalkTypeOK, IsKid
<1>2. CASE KidsLeft
  <2>1. tmp' = tmp + 1 /\ res' = res /\ tmp + 1 <= Len(Tree[res].kids)
    BY <1>1, <1>2 DEF NextKid, KidsLeft
  <2>2. IsKid(Tree, res, tmp')
    BY <1>1, <2>1 DEF IsKid
  <2>3. \A i, k \in Nat : Past(i, k)' <=> i < res \/ (i = res /\ k < tmp + 1)
    BY <2>1 DEF Past
  <2>4. \A i, k \in Nat : /\ Past(i, k) => Past(i, k)'
                          /\ (~Past(i, k) /\ Past(i, k)' <=> i = res /\ k = tmp)
    BY <1>1, <2>3 DEF Past
  <2> QED BY <1>1, <2>1, <2>2, <2>4
<1>3. CASE ~KidsLeft
  <2>1. tmp' = 0 /\ res' = res + 1 /\ tmp = Len(Tree[res].kids)
    BY <1>1, <1>3 DEF NextKid, KidsLeft, NextSibling
  <2>2. \A i, k \in Nat : Past(i, k)' <=> i < res + 1
    BY <1>1, <2>1 DEF Past
  <2>3. \A i, k \in Nat : Past(i, k) => Past(i, k)'
    BY <1>1, <2>2 DEF Past
  <2>4. \A i, k \in Nat : ~Past(i, k) /\ Past(i, k)' <=> i = res /\ k >= tmp
    BY <1>1, <2>2 DEF Past
  <2>5. \A k \in Nat : k = 0 \/ IsKid(Tree, res, k) => k <= tmp
    BY <1>1, <2>1 DEF IsKid
  <2>6. \A i, k \in Nat : k = 0 \/ IsKid(Tree, i, k) =>
              (~Past(i, k) /\ Past(i, k)' <=> i = res /\ k = tmp)
    BY <1>1, <2>4, <2>5
  <2> QED BY <1>1, <2>1, <2>3, <2>6
<1> QED BY <1>2, <1>3

LEMMA VisitResStep ==
  ASSUME WalkInv, VisitRes
  PROVE  WalkInv'
<1>1. /\ WalkTypeOK /\ walk \in {"pio", "mmio"} /\ tmp = 0 /\ res \in Nat \ {0}
      /\ res \in 1 .. Len(Tree) /\ UNCHANGED <<ports, mem, walk>>
  <2>1. WalkTypeOK /\ walk \in {"pio", "mmio"} /\ res <= Len(Tree) /\ ~(tmp > 0)
    BY DEF WalkInv, VisitRes, InTree, OnBus
  <2>2. /\ res \in Nat \ {0} /\ tmp \in Nat
        /\ Len(Tree) \in Nat
    BY <2>1, TreeFacts DEF WalkTypeOK
  <2>3. UNCHANGED <<ports, mem, walk>>
    BY DEF VisitRes
  <2> QED BY <2>1, <2>2, <2>3
<1> DEFINE name == Tree[res].name
           at   == <<walk, res, 0>>
           list == IF walk = "mmio" /\ name \in {"IOAPIC 0", "Local APIC", Bus}
                     THEN <<at>> ELSE <<>>
           goesIn == name = Bus /\ Tree[res].kids # <<>>
<1>2. hits' = hits \o list
  BY DEF VisitRes, Read, MemRes, Bus
<1>3. /\ goesIn  => tmp' = 1 /\ res' = res
      /\ ~goesIn => tmp' = 0 /\ res' = res + 1
  BY DEF VisitRes, NextSibling, Bus
<1>4. at \in Place
  BY <1>1 DEF Place
<1>5. /\ list \in Seq(Place) /\ NoTwice(list)
      /\ \A x : InList(list, x) <=> /\ x = at /\ walk = "mmio"
                                    /\ name \in {"IOAPIC 0", "Local APIC", Bus}
  <2>1. /\ <<>> \in Seq(Place) /\ NoTwice(<<>>) /\ \A x : ~InList(<<>>, x)
        /\ <<at>> \in Seq(Place) /\ NoTwice(<<at>>)
        /\ \A x : InList(<<at>>, x) <=> x = at
    <3> HIDE DEF at
    <3> QED BY <1>4, NoList, OneList
  <2>2. CASE walk = "mmio" /\ name \in {"IOAPIC 0", "Local APIC", Bus}
    <3>1. list = <<at>>
      BY <2>2
    <3> QED BY <2>1, <2>2, <3>1
  <2>3. CASE ~(walk = "mmio" /\ name \in {"IOAPIC 0", "Local APIC", Bus})
    <3>1. list = <<>>
      BY <2>3
    <3> QED BY <2>1, <2>3, <3>1
  <2> QED BY <2>2, <2>3
<1>6. Len(Tree[res].kids) \in Nat /\ (Tree[res].kids # <<>> => Len(Tree[res].kids) > 0)
  BY <1>1, TreeFacts
<1>7. Tree = IF walk = "pio" THEN ports ELSE mem
  BY DEF Tree
<1> HIDE DEF list
<1>8. \A i, k \in Nat : Past(i, k) <=> i < res
  BY <1>1 DEF Past
<1>9. \A i, k \in Nat : Past(i, k)' <=> IF goesIn THEN i < res \/ (i = res /\ k = 0)
                                                  ELSE i < res + 1
  BY <1>1, <1>3 DEF Past
<1>10. \A w : \A i, k \in Nat : InList(list, <<w, i, k>>)
                                 <=> Want(w, i, k) /\ ~Past(i, k) /\ Past(i, k)'
  <2> SUFFICES ASSUME NEW w, NEW i \in Nat, NEW k \in Nat
               PROVE  InList(list, <<w, i, k>>)
                        <=> Want(w, i, k) /\ ~Past(i, k) /\ Past(i, k)'
    OBVIOUS
  <2>1. (~Past(i, k) /\ Past(i, k)') <=> (i = res /\ (goesIn => k = 0))
    <3>1. Past(i, k) <=> i < res
      BY <1>8
    <3>2. CASE goesIn
      <4>1. Past(i, k)' <=> (i < res \/ (i = res /\ k = 0))
        BY <1>9, <3>2
      <4> QED BY <1>1, <3>1, <3>2, <4>1
    <3>3. CASE ~goesIn
      <4>1. Past(i, k)' <=> i < res + 1
        BY <1>9, <3>3
      <4> QED BY <1>1, <3>1, <3>3, <4>1
    <3> QED BY <3>2, <3>3
  <2>2. ~goesIn => ~IsKid(Tree, res, k)
    BY <1>6 DEF IsKid
  <2>3. CASE walk = "pio"
    <3>1. IsKid(ports, res, k) => k # 0
      BY <1>1 DEF IsKid
    <3>2. ~(Want(w, res, k) /\ (goesIn => k = 0))
      BY <1>7, <2>2, <2>3, <3>1 DEF Want, WantPort, FirstKey
    <3> QED BY <1>5, <2>1, <2>3, <3>2
  <2>4. CASE walk = "mmio"
    <3>1. IsKid(mem, res, k) => k # 0
      BY <1>1 DEF IsKid
    <3>2. Want(w, res, k) /\ (goesIn => k = 0)
            <=> w = "mmio" /\ k = 0 /\ name \in {"IOAPIC 0", "Local APIC", Bus}
      BY <1>1, <1>7, <2>2, <2>4, <3>1 DEF Want, WantMem
    <3>3. InList(list, <<w, i, k>>)
            <=> w = "mmio" /\ i = res /\ k = 0 /\ name \in {"IOAPIC 0", "Local APIC", Bus}
      <4>1. <<w, i, k>> = at <=> w = "mmio" /\ i = res /\ k = 0
        BY <2>4
      <4> QED BY <1>5, <2>4, <4>1
    <3> QED BY <2>1, <3>2, <3>3
  <2> QED BY <1>1, <2>3, <2>4
<1>11. \A i, k \in Nat : Past(i, k) => Past(i, k)'
  BY <1>1, <1>8, <1>9
<1>12. /\ hits' \in Seq(Place) /\ NoTwice(hits')
       /\ \A w : \A i, k \in Nat : InList(hits', <<w, i, k>>) <=> Due(w, i, k)'
  BY <1>1, <1>2, <1>5, <1>10, <1>11, ReadKeeps
<1>13. Tree' = Tree
  BY <1>1 DEF Tree
<1>14. OnBus' => walk # "gone" /\ res <= Len(Tree) /\ IsKid(Tree, res, tmp')
  BY <1>1, <1>3, <1>6, <1>13, TreeFacts DEF OnBus, IsKid
<1>15. WalkTypeOK'
  BY <1>1, <1>3, <1>12, <1>13, <1>14 DEF WalkTypeOK, OnBus
<1>16. tmp' > 0 => tmp' = 1
  BY <1>3
<1> QED BY <1>12, <1>15, <1>16 DEF WalkInv, OnBus


LEMMA WantedKid ==
  ASSUME walk \in {"pio", "mmio"}, NEW w, NEW i \in Nat, NEW k \in Nat, Want(w, i, k)
  PROVE  k = 0 \/ IsKid(Tree, i, k)
  BY DEF Want, WantPort, WantMem, FirstKey, Tree

LEMMA KidStep ==
  ASSUME WalkInv, walk \in {"pio", "mmio"}, IsKid(Tree, res, tmp), NextKid,
         UNCHANGED <<ports, mem, walk>>,
         NEW list \in Seq(Place), NoTwice(list), hits' = hits \o list,
         \A w : \A i, k \in Nat : InList(list, <<w, i, k>>)
                                    <=> Want(w, i, k) /\ i = res /\ k = tmp,
         walk = "pio" => Kid.name # "keyboard"
  PROVE  WalkInv'
<1>1. WalkTypeOK /\ res \in Nat \ {0} /\ tmp \in Nat
  BY DEF WalkInv, WalkTypeOK
<1>2. /\ res' \in Nat \ {0} /\ tmp' \in Nat
      /\ tmp' > 0 => res' = res /\ tmp' = tmp + 1 /\ IsKid(Tree, res, tmp')
      /\ \A i, k \in Nat : Past(i, k) => Past(i, k)'
      /\ \A i, k \in Nat : k = 0 \/ IsKid(Tree, i, k) =>
           (~Past(i, k) /\ Past(i, k)' <=> i = res /\ k = tmp)
  BY <1>1, KidLeft
<1>3. \A w : \A i, k \in Nat : InList(list, <<w, i, k>>)
                                 <=> Want(w, i, k) /\ ~Past(i, k) /\ Past(i, k)'
  BY <1>2, WantedKid
<1>4. /\ hits' \in Seq(Place) /\ NoTwice(hits')
      /\ \A w : \A i, k \in Nat : InList(hits', <<w, i, k>>) <=> Due(w, i, k)'
  BY <1>2, <1>3, ReadKeeps
<1>5. Tree' = Tree
  BY DEF Tree
<1>6. res <= Len(Tree)
  BY <1>1, TreeFacts DEF IsKid
<1>7. OnBus' => res' <= Len(Tree) /\ IsKid(Tree, res', tmp')
  BY <1>2, <1>6 DEF OnBus
<1>8. WalkTypeOK'
  <2>1. OnBus' => walk # "gone" /\ (res <= Len(Tree))' /\ IsKid(Tree, res, tmp)'
    BY <1>5, <1>7 DEF IsKid
  <2> QED BY <1>1, <1>2, <1>4, <2>1 DEF WalkTypeOK
<1>9. ASSUME walk = "pio", tmp' > 0, NEW j \in 1 .. tmp' - 1
      PROVE  ports[res].kids[j].name # "keyboard"
  <2>1. j \in 1 .. tmp - 1 \/ j = tmp
    BY <1>1, <1>2, <1>9
  <2>2. CASE j = tmp
    BY <1>9, <2>2 DEF Kid, Tree
  <2>3. CASE j \in 1 .. tmp - 1
    <3>1. tmp > 0
      BY <1>1, <2>3
    <3> QED BY <1>9, <2>3, <3>1 DEF WalkInv, OnBus
  <2> QED BY <2>1, <2>2, <2>3
<1> QED BY <1>2, <1>4, <1>8, <1>9 DEF WalkInv, OnBus

\* What is read of a kid, or nothing.
LEMMA OneOrNone ==
  ASSUME NEW a \in Place, NEW q, q \in BOOLEAN
  PROVE  LET list == IF q THEN <<a>> ELSE <<>>
         IN  /\ list \in Seq(Place) /\ NoTwice(list)
             /\ \A x : InList(list, x) <=> x = a /\ q
<1>1. CASE q
  BY <1>1, OneList
<1>2. CASE ~q
  BY <1>2, NoList
<1> QED BY <1>1, <1>2

LEMMA VisitDeviceStep ==
  ASSUME WalkInv, VisitDevice
  PROVE  WalkInv'
<1>1. /\ WalkTypeOK /\ walk = "mmio" /\ tmp > 0 /\ NextKid /\ OnBus
      /\ UNCHANGED <<ports, mem, walk>>
  BY DEF WalkInv, VisitDevice, OnBus
<1>2. IsKid(Tree, res, tmp) /\ res \in Nat /\ tmp \in Nat /\ tmp # 0
  BY <1>1 DEF WalkTypeOK
<1> DEFINE at   == <<walk, res, tmp>>
           q    == Kid.child \in {"vram", "virtio-pci-modern"}
           list == IF q THEN <<at>> ELSE <<>>
<1>3. hits' = hits \o list
  BY DEF VisitDevice, Read, MemChild
<1>4. at \in Place
  BY <1>1, <1>2 DEF Place
<1>5. /\ list \in Seq(Place) /\ NoTwice(list)
      /\ \A x : InList(list, x) <=> x = at /\ q
  <2> HIDE DEF at
  <2>1. q \in BOOLEAN
    OBVIOUS
  <2> HIDE DEF q
  <2> QED BY <1>4, <2>1, OneOrNone
<1>6. \A w : \A i, k \in Nat : InList(list, <<w, i, k>>)
                                 <=> Want(w, i, k) /\ i = res /\ k = tmp
  <2> SUFFICES ASSUME NEW w, NEW i \in Nat, NEW k \in Nat
               PROVE  InList(list, <<w, i, k>>) <=> Want(w, i, k) /\ i = res /\ k = tmp
    OBVIOUS
  <2>1. <<w, i, k>> = at <=> w = "mmio" /\ i = res /\ k = tmp
    BY <1>1
  <2>2. Want(w, res, tmp) <=> w = "mmio" /\ q
    BY <1>1, <1>2 DEF Want, WantMem, Kid, Tree
  <2> HIDE DEF list, q, at
  <2> QED BY <1>5, <2>1, <2>2
<1> HIDE DEF list
<1> QED BY <1>1, <1>2, <1>3, <1>5, <1>6, KidStep

LEMMA VisitPortStep ==
  ASSUME WalkInv, VisitPort
  PROVE  WalkInv'
<1>1. /\ WalkTypeOK /\ walk = "pio" /\ tmp > 0 /\ OnBus
      /\ UNCHANGED <<ports, mem, walk>> /\ Tree = ports /\ Tree' = ports
  BY DEF WalkInv, VisitPort, OnBus, Tree
<1>2. /\ IsKid(ports, res, tmp) /\ res \in Nat \ {0} /\ tmp \in Nat /\ tmp # 0
      /\ res \in 1 .. Len(ports) /\ ports[res].name = Bus
      /\ tmp \in 1 .. Len(ports[res].kids) /\ Len(ports[res].kids) \in Nat
  BY <1>1, TreeFacts DEF WalkTypeOK, IsKid
<1>3. \A j \in 1 .. tmp - 1 : ports[res].kids[j].name # "keyboard"
  BY <1>1 DEF WalkInv
<1>4. CASE Kid.name # "keyboard"
  <2> DEFINE at   == <<walk, res, tmp>>
             q    == Kid.name \in {"pic1", "timer0"}
             list == IF q THEN <<at>> ELSE <<>>
  <2>1. hits' = hits \o list /\ NextKid
    BY <1>4 DEF VisitPort, Read
  <2>2. at \in Place
    BY <1>1, <1>2 DEF Place
  <2>3. /\ list \in Seq(Place) /\ NoTwice(list)
        /\ \A x : InList(list, x) <=> x = at /\ q
    <3> HIDE DEF at
    <3>1. q \in BOOLEAN
      OBVIOUS
    <3> HIDE DEF q
    <3> QED BY <2>2, <3>1, OneOrNone
  <2>4. \A w : \A i, k \in Nat : InList(list, <<w, i, k>>)
                                   <=> Want(w, i, k) /\ i = res /\ k = tmp
    <3> SUFFICES ASSUME NEW w, NEW i \in Nat, NEW k \in Nat
                 PROVE  InList(list, <<w, i, k>>) <=> Want(w, i, k) /\ i = res /\ k = tmp
      OBVIOUS
    <3>1. <<w, i, k>> = at <=> w = "pio" /\ i = res /\ k = tmp
      BY <1>1
    <3>2. Want(w, res, tmp) <=> w = "pio" /\ q
      BY <1>1, <1>2, <1>4 DEF Want, WantPort, FirstKey, Kid
    <3> HIDE DEF list, q, at
    <3> QED BY <2>3, <3>1, <3>2
  <2> HIDE DEF list
  <2> QED BY <1>1, <1>2, <1>4, <2>1, <2>3, <2>4, KidStep
<1>5. CASE Kid.name = "keyboard"
  <2> DEFINE a == <<"empty", res, tmp>>
             b == <<walk, res, tmp>>
             list == <<a, b>>
  <2>1. hits' = hits \o list /\ res' = res + 1 /\ tmp' = 0
    BY <1>5 DEF VisitPort, Read, NextSibling
  <2>2. a \in Place /\ b \in Place /\ a # b
    BY <1>1, <1>2 DEF Place
  <2>3. /\ list \in Seq(Place) /\ NoTwice(list)
        /\ \A x : InList(list, x) <=> x = a \/ x = b
    <3> HIDE DEF a, b
    <3> QED BY <2>2, TwoList
  <2>4. \A i, k \in Nat : Past(i, k)' <=> i < res + 1
    BY <1>2, <2>1 DEF Past
  <2>5. \A i, k \in Nat : /\ Past(i, k) => Past(i, k)'
                          /\ ~Past(i, k) /\ Past(i, k)' <=> i = res /\ k >= tmp
    BY <1>2, <2>4 DEF Past
  <2>6. ASSUME NEW w, NEW k \in Nat, k >= tmp
        PROVE  Want(w, res, k) <=> w \in {"pio", "empty"} /\ k = tmp
    <3>1. CASE k = tmp
      <4>1. FirstKey(res, tmp)
        <5>1. \A j \in 1 .. Len(ports[res].kids) : j < tmp => j \in 1 .. tmp - 1
          BY <1>2
        <5> QED BY <1>1, <1>2, <1>3, <1>5, <5>1 DEF FirstKey, Kid
      <4> QED BY <1>1, <3>1, <4>1 DEF Want, WantPort
    <3>2. CASE k # tmp
      <4>1. tmp < k /\ ports[res].kids[tmp].name = "keyboard"
        BY <1>1, <1>2, <1>5, <2>6, <3>2 DEF Kid
      <4>2. ~FirstKey(res, k)
        BY <1>2, <4>1 DEF FirstKey
      <4>3. ports \in PortTrees
        BY <1>1 DEF WalkTypeOK
      <4>4. IsKid(ports, res, k) => ports[res].kids[k].name \notin {"pic1", "timer0"}
        BY <1>2, <4>1, <4>3, PortsInOrder DEF IsKid, Bus
      <4> QED BY <1>1, <3>2, <4>2, <4>4 DEF Want, WantPort
    <3> QED BY <3>1, <3>2
  <2>7. \A w : \A i, k \in Nat : InList(list, <<w, i, k>>)
                                   <=> Want(w, i, k) /\ ~Past(i, k) /\ Past(i, k)'
    <3> SUFFICES ASSUME NEW w, NEW i \in Nat, NEW k \in Nat
                 PROVE  InList(list, <<w, i, k>>)
                          <=> Want(w, i, k) /\ ~Past(i, k) /\ Past(i, k)'
      OBVIOUS
    <3>1. (<<w, i, k>> = a \/ <<w, i, k>> = b)
            <=> w \in {"pio", "empty"} /\ i = res /\ k = tmp
      BY <1>1
    <3>2. (~Past(i, k) /\ Past(i, k)') <=> (i = res /\ k >= tmp)
      BY <2>5
    <3>3. tmp >= tmp
      BY <1>2
    <3> HIDE DEF list, a, b
    <3> QED BY <2>3, <2>6, <3>1, <3>2, <3>3
  <2> HIDE DEF list
  <2>8. /\ hits' \in Seq(Place) /\ NoTwice(hits')
        /\ \A w : \A i, k \in Nat : InList(hits', <<w, i, k>>) <=> Due(w, i, k)'
    BY <1>1, <2>1, <2>3, <2>5, <2>7, ReadKeeps
  <2>9. ~OnBus'
    BY <2>1 DEF OnBus
  <2>10. WalkTypeOK'
    BY <1>1, <1>2, <2>1, <2>8, <2>9 DEF WalkTypeOK
  <2> QED BY <2>8, <2>9, <2>10 DEF WalkInv
<1> QED BY <1>4, <1>5


\* At its end a walk has left all positions of its tree behind.
LEMMA WalkDoneStep ==
  ASSUME WalkInv, WalkDone
  PROVE  WalkInv'
<1>1. /\ WalkTypeOK /\ walk \in {"pio", "mmio"} /\ res > Len(Tree)
      /\ res' = 1 /\ tmp' = 0 /\ UNCHANGED <<ports, mem, hits>>
      /\ walk' = IF walk = "pio" THEN "mmio" ELSE "gone"
      /\ res \in Nat /\ Len(Tree) \in Nat
  <2>1. /\ WalkTypeOK /\ walk \in {"pio", "mmio"} /\ ~(res <= Len(Tree))
        /\ res' = 1 /\ tmp' = 0 /\ UNCHANGED <<ports, mem, hits>>
        /\ walk' = IF walk = "pio" THEN "mmio" ELSE "gone"
    BY DEF WalkInv, WalkDone, InTree, NextSibling
  <2>2. res \in Nat /\ Len(Tree) \in Nat
    BY <2>1, TreeFacts DEF WalkTypeOK
  <2> QED BY <2>1, <2>2
<1>2. \A i \in 1 .. Len(Tree), k \in Nat : Past(i, k)
  BY <1>1 DEF Past
<1>3. \A i, k \in Nat : i # 0 => ~Past(i, k)'
  BY <1>1 DEF Past
<1>4. ASSUME NEW w, NEW i \in Nat, NEW k \in Nat PROVE Due(w, i, k)' <=> Due(w, i, k)
  <2>1. WantPort(w, i, k)' = WantPort(w, i, k) /\ WantMem(w, i, k)' = WantMem(w, i, k)
    BY <1>1 DEF WantPort, WantMem, FirstKey, IsKid
  <2>2. /\ WantPort(w, i, k) => i \in 1 .. Len(ports)
        /\ WantMem(w, i, k) => i \in 1 .. Len(mem)
    BY DEF WantPort, WantMem, FirstKey, IsKid
  <2>3. WantMem(w, i, k) => i # 0
    BY <2>2
  <2>4. CASE walk = "pio"
    <3>1. Tree = ports /\ walk' = "mmio"
      BY <1>1, <2>4 DEF Tree
    <3>2. (WantPort(w, i, k) => Past(i, k)) /\ (WantMem(w, i, k) => ~Past(i, k)')
      BY <1>2, <1>3, <2>2, <2>3, <3>1
    <3> QED BY <2>1, <2>4, <3>1, <3>2 DEF Due
  <2>5. CASE walk = "mmio"
    <3>1. Tree = mem /\ walk' = "gone"
      BY <1>1, <2>5 DEF Tree
    <3>2. WantMem(w, i, k) => Past(i, k)
      BY <1>2, <2>2, <3>1
    <3> QED BY <2>1, <2>5, <3>1, <3>2 DEF Due
  <2> QED BY <1>1, <2>4, <2>5
<1>5. ~OnBus'
  BY <1>1 DEF OnBus
<1>6. WalkTypeOK'
  BY <1>1, <1>5 DEF WalkTypeOK
<1> QED BY <1>1, <1>4, <1>5, <1>6 DEF WalkInv

LEMMA WalkStays ==
  ASSUME WalkInv, [WalkNext]_walkVars
  PROVE  WalkInv'
<1>1. CASE WalkOver \/ UNCHANGED walkVars
  <2>1. UNCHANGED <<ports, mem, walk, res, tmp, hits>>
    BY <1>1 DEF WalkOver, walkVars
  <2>2. \A w, i, k : Due(w, i, k)' = Due(w, i, k)
    BY <2>1 DEF Due, WantPort, WantMem, FirstKey, IsKid, Past
  <2> QED BY <2>1, <2>2 DEF WalkInv, WalkTypeOK, OnBus, IsKid, Tree
<1>2. CASE RemapCrash
  <2>1. /\ UNCHANGED <<ports, mem, res, tmp, hits>>
        /\ walk = "mmio" /\ walk' = "oops"
    BY <1>2 DEF RemapCrash
  <2>2. \A w, i, k : Due(w, i, k)' = Due(w, i, k)
    BY <2>1 DEF Due, WantPort, WantMem, FirstKey, IsKid, Past
  <2>3. Tree' = Tree
    BY <2>1 DEF Tree
  <2> QED BY <2>1, <2>2, <2>3 DEF WalkInv, WalkTypeOK, OnBus, IsKid
<1> QED BY <1>1, <1>2, VisitResStep, VisitPortStep, VisitDeviceStep, WalkDoneStep
        DEF WalkNext

LEMMA WalkBegins == WalkInit => WalkInv
<1> SUFFICES ASSUME WalkInit PROVE WalkInv
  OBVIOUS
<1>1. WalkTypeOK /\ ~OnBus
  BY DEF WalkInit, WalkTypeOK, OnBus
<1>2. \A i, k \in Nat : i # 0 => ~Past(i, k)
  BY DEF WalkInit, Past
<1>3. \A w : \A i, k \in Nat : ~Due(w, i, k)
  <2>1. \A w : \A i, k \in Nat : WantPort(w, i, k) => i # 0
    BY DEF WantPort, FirstKey, IsKid
  <2> QED BY <1>2, <2>1 DEF Due, WalkInit
<1>4. NoTwice(hits) /\ \A x : ~InList(hits, x)
  BY NoList DEF WalkInit
<1> QED BY <1>1, <1>3, <1>4 DEF WalkInv

\* A port that is wanted, and the only one of its name that is, has one line.
LEMMA LineOnce ==
  ASSUME WalkInv, walk # "pio", NEW i \in Nat, NEW name,
         NEW what \in {"pio", "empty"}, NEW k \in PortsNamed(i, name),
         WantPort(what, i, k),
         \A j \in PortsNamed(i, name) : WantPort(what, i, j) => j = k
  PROVE  \E n \in 1 .. Len(hits) : PortLines(i, what, name) = {n}
<1>1. \A j \in PortsNamed(i, name) : j \in Nat
  BY DEF PortsNamed
<1>2. \A j \in Nat : InList(hits, <<what, i, j>>) <=> WantPort(what, i, j)
  BY DEF WalkInv, WalkTypeOK, Due, WantMem
<1>3. PICK n \in 1 .. Len(hits) : hits[n] = <<what, i, k>>
  BY <1>1, <1>2 DEF InList
<1>4. n \in PortLines(i, what, name)
  BY <1>3 DEF PortLines
<1>5. ASSUME NEW m \in PortLines(i, what, name) PROVE m = n
  <2>1. PICK j \in PortsNamed(i, name) : hits[m] = <<what, i, j>>
    BY <1>5 DEF PortLines
  <2>2. m \in 1 .. Len(hits)
    BY <1>5 DEF PortLines
  <2>3. j = k
    BY <1>1, <1>2, <2>1, <2>2 DEF InList
  <2> QED BY <1>3, <2>1, <2>2, <2>3 DEF WalkInv, NoTwice
<1> QED BY <1>4, <1>5

\* The lines of a bus: its pic and its timer by their only port, its keyboard by
\* the first.
LEMMA BusLines ==
  ASSUME WalkInv, walk # "pio", NEW i \in 1 .. Len(ports), ports[i].name = Bus,
         NEW what, NEW name, PortsNamed(i, name) # {},
         \/ what = "pio" /\ name \in {"pic1", "timer0", "keyboard"}
         \/ what = "empty" /\ name = "keyboard"
  PROVE  \E n \in 1 .. Len(hits) : PortLines(i, what, name) = {n}
<1>1. /\ ports \in PortTrees /\ i \in Nat
      /\ \A k : k \in PortsNamed(i, name)
                  <=> IsKid(ports, i, k) /\ ports[i].kids[k].name = name
  BY DEF WalkInv, WalkTypeOK, PortsNamed, IsKid
<1>2. CASE name \in {"pic1", "timer0"}
  <2>1. PICK k : k \in PortsNamed(i, name)
    OBVIOUS
  <2>2. WantPort(what, i, k)
    BY <1>1, <1>2, <2>1 DEF WantPort
  <2>3. \A j \in PortsNamed(i, name) : j = k
    <3>1. \A j \in 1 .. Len(ports[i].kids) :
            k # j => ports[i].kids[j].name # ports[i].kids[k].name
      <4>1. k \in 1 .. Len(ports[i].kids) /\ ports[i].kids[k].name \in {"pic1", "timer0"}
        BY <1>1, <1>2, <2>1 DEF IsKid
      <4> QED BY <1>1, <4>1, PortsInOrder DEF Bus
    <3> QED BY <2>1, <3>1 DEF PortsNamed
  <2> QED BY <1>1, <1>2, <2>1, <2>2, <2>3, LineOnce
<1>3. CASE name = "keyboard"
  <2>1. PortsNamed(i, name) \subseteq Nat
    BY DEF PortsNamed
  <2>2. PICK k \in PortsNamed(i, name) : \A j \in PortsNamed(i, name) : k <= j
    BY <2>1, LeastOf
  <2>3. FirstKey(i, k)
    <3>1. ASSUME NEW j \in 1 .. Len(ports[i].kids), j < k
          PROVE  ports[i].kids[j].name # "keyboard"
      BY <1>3, <2>1, <2>2, <3>1 DEF PortsNamed
    <3> QED BY <1>1, <1>3, <2>2, <3>1 DEF FirstKey
  <2>4. ASSUME NEW j \in PortsNamed(i, name), WantPort(what, i, j) PROVE j = k
    <3>1. FirstKey(i, j)
      BY <1>1, <1>3, <2>4 DEF WantPort
    <3>2. ~(k < j)
      BY <1>1, <1>3, <2>2, <3>1 DEF FirstKey, IsKid
    <3> QED BY <2>1, <2>2, <3>2
  <2> QED BY <1>1, <1>3, <2>2, <2>3, <2>4, LineOnce DEF WantPort
<1> QED BY <1>2, <1>3

\* Of any resource trees in the order of their addresses pio_mmio_bench_init
\* reports the pic, the timer, the keyboard and the empty port of each PCI bus
\* on one line each, and no other port (pio_mmio_bench.c:61-82).
THEOREM EachPort == WalkSpec => []EachPortOnce
<1>1. WalkInv => EachPortOnce
  <2> SUFFICES ASSUME WalkInv, walk # "pio" PROVE EachPortOnce
    BY DEF EachPortOnce
  <2>1. ASSUME NEW i \in 1 .. Len(ports), ports[i].name = Bus,
               NEW line \in ({"pio"} \X {"pic1", "timer0", "keyboard"})
                              \cup {<<"empty", "keyboard">>},
               PortsNamed(i, line[2]) # {}
        PROVE  \E n \in 1 .. Len(hits) : PortLines(i, line[1], line[2]) = {n}
    <3>1. \/ line[1] = "pio" /\ line[2] \in {"pic1", "timer0", "keyboard"}
          \/ line[1] = "empty" /\ line[2] = "keyboard"
      OBVIOUS
    <3> QED BY <2>1, <3>1, BusLines
  <2>2. ASSUME NEW n \in 1 .. Len(hits), hits[n][1] # "mmio"
        PROVE  /\ ports[hits[n][2]].name = Bus
               /\ ports[hits[n][2]].kids[hits[n][3]].name
                    \in (IF hits[n][1] = "pio" THEN {"pic1", "timer0", "keyboard"}
                                               ELSE {"keyboard"})
    <3>1. PICK w, i, k : /\ hits[n] = <<w, i, k>> /\ w \in {"pio", "empty"}
                         /\ i \in Nat /\ k \in Nat
      <4>1. hits[n] \in Place
        BY DEF WalkInv, WalkTypeOK
      <4> QED BY <2>2, <4>1 DEF Place
    <3>2. Due(w, i, k)
      BY <3>1 DEF WalkInv, InList
    <3>3. WantPort(w, i, k)
      BY <3>1, <3>2 DEF Due, WantMem
    <3>4. IsKid(ports, i, k) /\ ports[i].kids[k].name
            \in (IF w = "pio" THEN {"pic1", "timer0", "keyboard"} ELSE {"keyboard"})
      BY <3>1, <3>3 DEF WantPort, FirstKey
    <3> QED BY <3>1, <3>4 DEF IsKid
  <2> QED BY <2>1, <2>2 DEF EachPortOnce, Bus
<1>2. WalkInv /\ [WalkNext]_walkVars => WalkInv'
  BY WalkStays
<1> QED BY <1>1, <1>2, WalkBegins, PTL DEF WalkSpec

-----------------------------------------------------------------------------
(***************************************************************************)
(* MsrTable.  A counter that has a case of the switch for one MSR has one  *)
(* line, and the two defaults have the lines 0 and APIC_BASE_MSR: a case   *)
(* belongs to one line, so that a write is shown on this line and on no    *)
(* other.                                                                  *)
(***************************************************************************)

\* record_wrmsr's cases (msr.h:94-234), one by one.
LEMMA MsrCases ==
  /\ DOMAIN MsrCase =
       {"set_apic_base", "set_tscadjust", "set_tscdeadline",
        "set_misc_enable", "set_mcg_status", "set_mcg_ctl",
        "set_mcg_ext_ctl", "set_smbase", "set_platform_info",
        "set_misc_features_enables", "set_wall_clock", "set_system_time",
        "set_perf_fixed_ctr0", "set_perf_fixed_ctr1", "set_perf_fixed_ctr2",
        "set_perf_fixed_ctr_ctrl", "set_perf_global_status", "set_perf_global_ctrl",
        "set_perf_global_ovf_ctrl"}
  /\ MsrCase["set_apic_base"] = {\h1b}
  /\ MsrCase["set_tscadjust"] = {\h3b}
  /\ MsrCase["set_tscdeadline"] = {\h6e0}
  /\ MsrCase["set_misc_enable"] = {\h1a0}
  /\ MsrCase["set_mcg_status"] = {\h17a}
  /\ MsrCase["set_mcg_ctl"] = {\h17b}
  /\ MsrCase["set_mcg_ext_ctl"] = {\h4d0}
  /\ MsrCase["set_smbase"] = {\h9e}
  /\ MsrCase["set_platform_info"] = {\hce}
  /\ MsrCase["set_misc_features_enables"] = {\h140}
  /\ MsrCase["set_wall_clock"] = {\h4b564d00, \h11}
  /\ MsrCase["set_system_time"] = {\h4b564d01, \h12}
  /\ MsrCase["set_perf_fixed_ctr0"] = {\h309}
  /\ MsrCase["set_perf_fixed_ctr1"] = {\h30a}
  /\ MsrCase["set_perf_fixed_ctr2"] = {\h30b}
  /\ MsrCase["set_perf_fixed_ctr_ctrl"] = {\h38d}
  /\ MsrCase["set_perf_global_status"] = {\h38e}
  /\ MsrCase["set_perf_global_ctrl"] = {\h38f}
  /\ MsrCase["set_perf_global_ovf_ctrl"] = {\h390}
BY SMT DEF MsrCase

\* The MSRs of the kvmclock that have two numbers are printed under the new one.
Legacy == {\h4b564d00, \h4b564d01}

\* The x2APIC registers show_wrmsr has a line for.
Shown == {\h80, \hb0, \hd0, \he0, \hf0, \h300, \h310, \h350, \h320, \h3f0}

LEMMA OneMsrCase ==
  ASSUME NEW j \in DOMAIN MsrCase, NEW k \in DOMAIN MsrCase,
         NEW x, x \in MsrCase[j], x \in MsrCase[k]
  PROVE  j = k
BY SMTT(60), MsrCases

LEMMA OneLapicCase ==
  ASSUME NEW j \in DOMAIN LapicCase, NEW k \in DOMAIN LapicCase,
         NEW x, x \in LapicCase[j], x \in LapicCase[k]
  PROVE  j = k
BY SMTT(60) DEF LapicCase

\* An MSR of record_wrmsr's switch is no x2APIC register, is not 0, and its
\* case has one line.
LEMMA OneMsrLine ==
  ASSUME NEW k \in DOMAIN MsrCase
  PROVE  /\ \A x \in MsrCase[k] : x \in Nat \ {0} /\ x \notin LapicMsr
         /\ \A x, y \in MsrCase[k] \ Legacy : x = y
         /\ \E x \in MsrCase[k] : x \notin Legacy
         /\ k = "set_misc_enable" => MsrCase[k] = {\h1a0}
         /\ k = "set_misc_features_enables" => MsrCase[k] = {\h140}
<1>1. \A x \in MsrCase[k] : x \in Nat \ {0} /\ x \notin LapicMsr
  BY SMTT(60), MsrCases DEF LapicMsr, APIC_BASE_MSR
<1>2. \A x, y \in MsrCase[k] \ Legacy : x = y
  BY SMTT(60), MsrCases DEF Legacy
<1>3. \E x \in MsrCase[k] : x \notin Legacy
  BY SMTT(60), MsrCases DEF Legacy
<1>4. /\ k = "set_misc_enable" => MsrCase[k] = {\h1a0}
      /\ k = "set_misc_features_enables" => MsrCase[k] = {\h140}
  BY SMTT(60), MsrCases
<1> QED BY <1>1, <1>2, <1>3, <1>4

\* So has an x2APIC register of its switch.
LEMMA OneLapicLine ==
  ASSUME NEW k \in DOMAIN LapicCase
  PROVE  /\ \E r \in Shown : r \in LapicCase[k]
         /\ \A r, s \in Shown : r \in LapicCase[k] /\ s \in LapicCase[k] => r = s
         /\ 0 \notin LapicCase[k]
<1>1. \E r \in Shown : r \in LapicCase[k]
  BY SMTT(60) DEF LapicCase, Shown
<1>2. \A r, s \in Shown : r \in LapicCase[k] /\ s \in LapicCase[k] => r = s
  BY SMTT(60) DEF LapicCase, Shown
<1>3. 0 \notin LapicCase[k]
  BY SMTT(60) DEF LapicCase
<1> QED BY <1>1, <1>2, <1>3

LEMMA ShownRegister ==
  ASSUME NEW r \in Shown \cup {0}
  PROVE  /\ r \in Nat
         /\ APIC_BASE_MSR + r \div 16 \in LapicMsr
         /\ ((APIC_BASE_MSR + r \div 16) - APIC_BASE_MSR) * 16 = r
BY SMTT(60) DEF Shown, LapicMsr, APIC_BASE_MSR

\* Every register with a line is one of the switch.
LEMMA ShownHasCase ==
  ASSUME NEW r \in Shown
  PROVE  \E k \in DOMAIN LapicCase : r \in LapicCase[k]
BY SMTT(60) DEF Shown, LapicCase

\* No name stands for cases of both switches.
LEMMA NamesDiffer ==
  /\ DOMAIN LapicCase \cap DOMAIN MsrCase = {}
  /\ "others" \notin DOMAIN LapicCase \cup DOMAIN MsrCase
  /\ "set_lapic_others" \notin DOMAIN LapicCase \cup DOMAIN MsrCase
  /\ "set_misc_enable" \in DOMAIN MsrCase
  /\ "set_misc_features_enables" \in DOMAIN MsrCase
BY SMTT(60), MsrCases DEF LapicCase

LEMMA SwitchFinds ==
  ASSUME NEW case, NEW x, NEW default, NEW k \in DOMAIN case, x \in case[k],
         \A j \in DOMAIN case : x \in case[j] => j = k
  PROVE  Switch(case, x, default) = k
BY DEF Switch

\* The counter of an MSR: that of its case, or the default of its switch.
LEMMA RecordedAs ==
  ASSUME NEW m \in Nat
  PROVE  /\ \A k \in DOMAIN MsrCase : m \in MsrCase[k] => RecordedIn(m) = k
         /\ m \notin NamedMsr /\ m \notin LapicMsr => RecordedIn(m) = "others"
         /\ \A k \in DOMAIN LapicCase :
              m \in LapicMsr /\ (m - APIC_BASE_MSR) * 16 \in LapicCase[k]
                => RecordedIn(m) = k
         /\ m \in LapicMsr
              /\ (\A k \in DOMAIN LapicCase : (m - APIC_BASE_MSR) * 16 \notin LapicCase[k])
              => RecordedIn(m) = "set_lapic_others"
<1>1. ASSUME NEW k \in DOMAIN MsrCase, m \in MsrCase[k]
      PROVE  RecordedIn(m) = k
  <2>1. m \notin LapicMsr
    BY <1>1, OneMsrLine
  <2>2. \A j \in DOMAIN MsrCase : m \in MsrCase[j] => j = k
    BY <1>1, OneMsrCase
  <2>3. Switch(MsrCase, m, "others") = k
    BY <1>1, <2>2, SwitchFinds
  <2> QED BY <2>1, <2>3 DEF RecordedIn
<1>2. m \notin NamedMsr /\ m \notin LapicMsr => RecordedIn(m) = "others"
  BY DEF NamedMsr, RecordedIn, Switch
<1>3. ASSUME NEW k \in DOMAIN LapicCase, m \in LapicMsr,
             (m - APIC_BASE_MSR) * 16 \in LapicCase[k]
      PROVE  RecordedIn(m) = k
  <2>2. \A j \in DOMAIN LapicCase : (m - APIC_BASE_MSR) * 16 \in LapicCase[j] => j = k
    BY <1>3, OneLapicCase
  <2>3. Switch(LapicCase, (m - APIC_BASE_MSR) * 16, "set_lapic_others") = k
    BY <1>3, <2>2, SwitchFinds
  <2> QED BY <1>3, <2>3 DEF RecordedIn, LapicCounter
<1>4. m \in LapicMsr
        /\ (\A k \in DOMAIN LapicCase : (m - APIC_BASE_MSR) * 16 \notin LapicCase[k])
        => RecordedIn(m) = "set_lapic_others"
  BY DEF RecordedIn, LapicCounter, Switch
<1> QED BY <1>1, <1>2, <1>3, <1>4

\* The lines of show_wrmsr (kvmwrmsr.c:20-85), by kind.
LEMMA LinesAre ==
  ASSUME NEW l
  PROVE  l \in Lines <=> \/ \E k \in DOMAIN MsrCase : l \in MsrCase[k] /\ l \notin Legacy
                         \/ l = 0
                         \/ \E r \in Shown \cup {0} : l = APIC_BASE_MSR + r \div 16
BY DEF Lines, NamedMsr, Legacy, Shown

\* What a line's MSR is recorded in.
LEMMA LineRecorded ==
  /\ \A k \in DOMAIN MsrCase : \A l \in MsrCase[k] : RecordedIn(l) = k
  /\ RecordedIn(0) = "others"
  /\ RecordedIn(APIC_BASE_MSR + 0 \div 16) = "set_lapic_others"
  /\ \A k \in DOMAIN LapicCase : \A r \in Shown :
       r \in LapicCase[k] => RecordedIn(APIC_BASE_MSR + r \div 16) = k
<1>1. ASSUME NEW k \in DOMAIN MsrCase, NEW l \in MsrCase[k]
      PROVE  RecordedIn(l) = k
  <2>1. l \in Nat
    BY OneMsrLine
  <2> QED BY <2>1, RecordedAs
<1>2. RecordedIn(0) = "others"
  <2>1. 0 \notin NamedMsr
    <3>1. \A k \in DOMAIN MsrCase : 0 \notin MsrCase[k]
      BY OneMsrLine
    <3> QED BY <3>1 DEF NamedMsr
  <2>2. 0 \notin LapicMsr
    BY DEF LapicMsr, APIC_BASE_MSR
  <2> QED BY <2>1, <2>2, RecordedAs
<1> DEFINE Line(r) == APIC_BASE_MSR + r \div 16
<1>3. ASSUME NEW r \in Shown \cup {0}
      PROVE  Line(r) \in Nat /\ Line(r) \in LapicMsr /\ (Line(r) - APIC_BASE_MSR) * 16 = r
  <2>1. Line(r) \in LapicMsr /\ (Line(r) - APIC_BASE_MSR) * 16 = r
    BY ShownRegister
  <2>2. Line(r) \in Nat
    BY <2>1 DEF LapicMsr, APIC_BASE_MSR
  <2> QED BY <2>1, <2>2
<1> HIDE DEF Line
<1>4. RecordedIn(Line(0)) = "set_lapic_others"
  <2>1. \A k \in DOMAIN LapicCase : 0 \notin LapicCase[k]
    BY OneLapicLine
  <2> QED BY <1>3, <2>1, RecordedAs
<1>5. ASSUME NEW k \in DOMAIN LapicCase, NEW r \in Shown, r \in LapicCase[k]
      PROVE  RecordedIn(Line(r)) = k
  BY <1>3, <1>5, RecordedAs
<1> QED BY <1>1, <1>2, <1>4, <1>5 DEF Line

\* Every counter is that of a line.
LEMMA LineOfEach ==
  ASSUME NEW m \in Nat
  PROVE  \E l \in Lines : RecordedIn(l) = RecordedIn(m)
<1>1. CASE \E k \in DOMAIN MsrCase : m \in MsrCase[k]
  <2> PICK k \in DOMAIN MsrCase : m \in MsrCase[k]
    BY <1>1
  <2> PICK l \in MsrCase[k] : l \notin Legacy
    BY OneMsrLine
  <2>1. l \in Lines
    BY LinesAre
  <2>2. RecordedIn(l) = k /\ RecordedIn(m) = k
    BY LineRecorded
  <2> QED BY <2>1, <2>2
<1>2. CASE m \notin NamedMsr /\ m \notin LapicMsr
  <2>1. 0 \in Lines
    BY LinesAre
  <2>2. RecordedIn(m) = "others"
    BY <1>2, RecordedAs
  <2> QED BY <2>1, <2>2, LineRecorded
<1>3. ASSUME m \in LapicMsr, NEW k \in DOMAIN LapicCase,
             (m - APIC_BASE_MSR) * 16 \in LapicCase[k]
      PROVE  \E l \in Lines : RecordedIn(l) = RecordedIn(m)
  <2> PICK r \in Shown : r \in LapicCase[k]
    BY OneLapicLine
  <2>1. APIC_BASE_MSR + r \div 16 \in Lines
    BY LinesAre
  <2>2. RecordedIn(m) = k
    BY <1>3, RecordedAs
  <2>3. RecordedIn(APIC_BASE_MSR + r \div 16) = k
    BY LineRecorded
  <2> QED BY <2>1, <2>2, <2>3
<1>4. CASE /\ m \in LapicMsr
           /\ \A k \in DOMAIN LapicCase : (m - APIC_BASE_MSR) * 16 \notin LapicCase[k]
  <2>1. APIC_BASE_MSR + 0 \div 16 \in Lines
    BY LinesAre
  <2>2. RecordedIn(m) = "set_lapic_others"
    BY <1>4, RecordedAs
  <2> QED BY <2>1, <2>2, LineRecorded
<1> QED BY <1>1, <1>2, <1>3, <1>4 DEF NamedMsr

\* No two lines show the same counter, as far as record_wrmsr is concerned.
LEMMA LinesDiffer ==
  ASSUME NEW l \in Lines, NEW n \in Lines, RecordedIn(l) = RecordedIn(n)
  PROVE  l = n
<1> DEFINE Kind(x, c) ==
             \/ \E k \in DOMAIN MsrCase : x \in MsrCase[k] /\ x \notin Legacy /\ c = k
             \/ x = 0 /\ c = "others"
             \/ x = APIC_BASE_MSR + 0 \div 16 /\ c = "set_lapic_others"
             \/ \E k \in DOMAIN LapicCase : \E r \in Shown :
                  x = APIC_BASE_MSR + r \div 16 /\ r \in LapicCase[k] /\ c = k
<1>1. ASSUME NEW x \in Lines
      PROVE  Kind(x, RecordedIn(x))
  <2>1. CASE \E k \in DOMAIN MsrCase : x \in MsrCase[k] /\ x \notin Legacy
    BY <2>1, LineRecorded
  <2>2. CASE x = 0
    BY <2>2, LineRecorded
  <2>3. CASE x = APIC_BASE_MSR + 0 \div 16
    BY <2>3, LineRecorded
  <2>4. ASSUME NEW r \in Shown, x = APIC_BASE_MSR + r \div 16
        PROVE  Kind(x, RecordedIn(x))
    <3> PICK k \in DOMAIN LapicCase : r \in LapicCase[k]
      BY ShownHasCase
    <3>1. RecordedIn(x) = k
      BY <2>4, LineRecorded
    <3> QED BY <2>4, <3>1
  <2> HIDE DEF Kind
  <2> QED BY <2>1, <2>2, <2>3, <2>4, LinesAre
<1> DEFINE c == RecordedIn(l)
<1>2. Kind(l, c) /\ Kind(n, c)
  BY <1>1
<1> HIDE DEF c
<1>3. ASSUME NEW k \in DOMAIN MsrCase, c = k
      PROVE  l = n
  <2>1. l \in MsrCase[k] \ Legacy /\ n \in MsrCase[k] \ Legacy
    BY <1>2, <1>3, NamesDiffer
  <2> QED BY <2>1, OneMsrLine
<1>4. CASE c = "others"
  BY <1>2, <1>4, NamesDiffer
<1>5. CASE c = "set_lapic_others"
  BY <1>2, <1>5, NamesDiffer
<1>6. ASSUME NEW k \in DOMAIN LapicCase, c = k
      PROVE  l = n
  <2>1. /\ \E r \in Shown : l = APIC_BASE_MSR + r \div 16 /\ r \in LapicCase[k]
        /\ \E r \in Shown : n = APIC_BASE_MSR + r \div 16 /\ r \in LapicCase[k]
    BY <1>2, <1>6, NamesDiffer
  <2> QED BY <2>1, OneLapicLine
<1> QED BY <1>2, <1>3, <1>4, <1>5, <1>6

OneIn(c) == [k \in Counter |-> IF k = c THEN 1 ELSE 0]

\* The counter of the write on record, if any, is 1, and every other one is 0.
MsrInv == \/ written = {} /\ counts = [k \in Counter |-> 0]
          \/ \E m \in Msrs : written = {m} /\ counts = OneIn(RecordedIn(m))

LEMMA RecordedIsCounter ==
  ASSUME NEW m \in Nat
  PROVE  RecordedIn(m) \in Counter
<1> PICK l \in Lines : RecordedIn(l) = RecordedIn(m)
  BY LineOfEach
<1>1. ASSUME NEW r \in Shown
      PROVE  RecordedIn(APIC_BASE_MSR + r \div 16) \in DOMAIN LapicCase
  BY ShownHasCase, LineRecorded
<1>2. RecordedIn(l) \in Counter
  BY <1>1, LinesAre, LineRecorded DEF Counter
<1> QED BY <1>2

\* A write of any MSR but two shows up on one line of the report, the one that
\* bears its name (msr.h:94-344, kvmwrmsr.c:20-85).  The two are
\* MSR_MISC_FEATURES_ENABLES, for which report_wrmsr returns the counter of
\* MSR_IA32_MISC_ENABLE (msr.h:267-268), and the latter, shown on both lines.
THEOREM EachOnItsLine ==
  ASSUME Msrs \cap {\h140, \h1a0} = {}
  PROVE  Spec => []ShownOnOwnLine
<1>1. Init => MsrInv
  BY DEF Init, MsrInv
<1>2. MsrInv /\ [Next]_vars => MsrInv'
  <2> SUFFICES ASSUME MsrInv, [Next]_vars
               PROVE  MsrInv'
    OBVIOUS
  <2>1. CASE RecordWrmsr
    <3> PICK m \in Msrs : /\ written' = {m}
                          /\ counts' = [counts EXCEPT ![RecordedIn(m)] = @ + 1]
      BY <2>1 DEF RecordWrmsr
    <3>1. counts = [k \in Counter |-> 0]
      BY <2>1 DEF RecordWrmsr, MsrInv
    <3>2. RecordedIn(m) \in Counter
      BY RecordedIsCounter, MsrsAssumption
    <3>3. counts' = OneIn(RecordedIn(m))
      BY <3>1, <3>2 DEF OneIn
    <3> QED BY <3>3 DEF MsrInv
  <2>2. CASE ResetWrmsr
    BY <2>2 DEF ResetWrmsr, MsrInv
  <2>3. CASE UNCHANGED vars
    BY <2>3 DEF MsrInv, vars
  <2> QED BY <2>1, <2>2, <2>3 DEF Next
<1>3. MsrInv => ShownOnOwnLine
  <2> SUFFICES ASSUME MsrInv, NEW m \in written
               PROVE  \E l \in Lines :
                        /\ {n \in Lines : counts[ReturnedFrom(n)] > 0} = {l}
                        /\ RecordedIn(l) = RecordedIn(m)
    BY DEF ShownOnOwnLine
  <2>1. m \in Msrs /\ counts = OneIn(RecordedIn(m))
    BY DEF MsrInv
  <2>2. m \in Nat /\ m # \h140 /\ m # \h1a0
    BY <2>1, MsrsAssumption
  <2> PICK l \in Lines : RecordedIn(l) = RecordedIn(m)
    BY <2>2, LineOfEach
  <2>3. \A n \in Lines : n \in Nat
    <3>1. \A r \in Shown \cup {0} : APIC_BASE_MSR + r \div 16 \in Nat
      BY ShownRegister DEF LapicMsr, APIC_BASE_MSR
    <3> QED BY <3>1, LinesAre, OneMsrLine
  <2>4. RecordedIn(m) # "set_misc_enable" /\ RecordedIn(m) # "set_misc_features_enables"
    <3>1. CASE \E k \in DOMAIN MsrCase : m \in MsrCase[k]
      BY <2>2, <3>1, OneMsrLine, RecordedAs
    <3>2. CASE m \notin NamedMsr /\ m \notin LapicMsr
      BY <2>2, <3>2, RecordedAs, NamesDiffer
    <3>3. CASE m \in LapicMsr
      BY <2>2, <3>3, RecordedAs, NamesDiffer
    <3> QED BY <3>1, <3>2, <3>3 DEF NamedMsr
  <2>5. ASSUME NEW n \in Lines
        PROVE  counts[ReturnedFrom(n)] > 0 <=> n = l
    <3>1. RecordedIn(n) \in Counter /\ ReturnedFrom(n) \in Counter
      <4>1. RecordedIn(n) \in Counter
        BY <2>3, RecordedIsCounter
      <4>2. "set_misc_enable" \in Counter
        BY NamesDiffer DEF Counter
      <4> QED BY <4>1, <4>2 DEF ReturnedFrom
    <3>2. ReturnedFrom(n) = RecordedIn(m) <=> RecordedIn(n) = RecordedIn(m)
      BY <2>4 DEF ReturnedFrom
    <3>3. counts[ReturnedFrom(n)] > 0 <=> ReturnedFrom(n) = RecordedIn(m)
      BY <2>1, <3>1 DEF OneIn
    <3>4. RecordedIn(n) = RecordedIn(m) <=> n = l
      BY LinesDiffer
    <3> QED BY <3>2, <3>3, <3>4
  <2> QED BY <2>5
<1> QED BY <1>1, <1>2, <1>3, PTL DEF Spec
=============================================================================
