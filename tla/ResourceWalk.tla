---------------------------- MODULE ResourceWalk ----------------------------
(***************************************************************************)
(* pio-mmio-bench: the walks of the kernel's two resource trees, and which *)
(* of the resources they read from.  Names stand for the strings the code  *)
(* compares with; "other" for all others.                                  *)
(***************************************************************************)
EXTENDS Integers, Sequences

CONSTANTS
  PortTrees,   \* ioport_resource: sequences of resources
  MemTrees,    \* iomem_resource
  RemapFails   \* BOOLEAN: an ioremap may fail

\* A resource under the root has a name and kids; a kid has a name and the
\* name of its first child, "none" if it has no child.
Resource == [name : STRING, kids : Seq([name : STRING, child : STRING])]

ASSUME TreesAssumption == /\ PortTrees \subseteq Seq(Resource)
                          /\ MemTrees \subseteq Seq(Resource)
                          /\ RemapFails \in BOOLEAN

\* The kernel keeps the resources of a bus in the order of their addresses:
\* pic1 (0x20) and timer0 (0x40), of which there is one each, lie before the
\* keyboard, which has two (0x60, 0x64).
ASSUME PortsInOrder ==
  \A tree \in PortTrees : \A i \in 1 .. Len(tree) :
    tree[i].name = "PCI Bus 0000:00" =>
      \A k, j \in 1 .. Len(tree[i].kids) :
        /\ tree[i].kids[k].name = "keyboard" /\ k < j =>
             tree[i].kids[j].name \notin {"pic1", "timer0"}
        /\ tree[i].kids[k].name \in {"pic1", "timer0"} /\ k # j =>
             tree[i].kids[j].name # tree[i].kids[k].name

VARIABLES
  ports, mem,
  walk,        \* "pio", "mmio", "gone" after insmod, or "oops"
  res, tmp,    \* the two loop variables: positions; tmp = 0 outside the bus
  hits         \* the resources read, in their order

walkVars == <<ports, mem, walk, res, tmp, hits>>

Tree    == IF walk = "pio" THEN ports ELSE mem
InTree  == walk \in {"pio", "mmio"} /\ res <= Len(Tree)
OnBus   == tmp > 0
Kid     == Tree[res].kids[tmp]

WalkInit ==
  /\ ports \in PortTrees /\ mem \in MemTrees
  /\ walk = "pio" /\ res = 1 /\ tmp = 0 /\ hits = <<>>

\* pio_bench or mmio_bench, on the resources in this order.
Read(list) == hits' = hits \o list

NextSibling(pos) == res' = pos /\ tmp' = 0

\* The memory resources that are read, under the root and behind a kid.
MemRes   == {"IOAPIC 0", "Local APIC", "PCI Bus 0000:00"}
MemChild == {"vram", "virtio-pci-modern"}

\* mmio_bench takes what ioremap returns: NULL is read from, and insmod dies.
RemapCrash ==
  /\ InTree /\ walk = "mmio" /\ RemapFails
  /\ IF OnBus THEN Kid.child \in MemChild ELSE Tree[res].name \in MemRes
  /\ walk' = "oops"
  /\ UNCHANGED <<ports, mem, res, tmp, hits>>

\* A resource under the root.
VisitRes ==
  /\ InTree /\ ~OnBus
  /\ LET name == Tree[res].name
     IN  /\ Read(IF walk = "mmio" /\ name \in MemRes
                   THEN << <<walk, res, 0>> >> ELSE <<>>)
         /\ IF name = "PCI Bus 0000:00" /\ Tree[res].kids # <<>>
              THEN tmp' = 1 /\ UNCHANGED res
              ELSE NextSibling(res + 1)
  /\ UNCHANGED <<ports, mem, walk>>

KidsLeft == tmp < Len(Tree[res].kids)

NextKid == IF KidsLeft THEN tmp' = tmp + 1 /\ UNCHANGED res
                       ELSE NextSibling(res + 1)

\* Faulty variant of VisitPort: nothing leaves the loop at the keyboard.
VisitPort_NoBreak ==
  /\ InTree /\ OnBus /\ walk = "pio"
  /\ Read(IF Kid.name \in {"pic1", "timer0"} THEN << <<walk, res, tmp>> >>
          ELSE IF Kid.name = "keyboard"
                 THEN << <<"empty", res, tmp>>, <<walk, res, tmp>> >>
          ELSE <<>>)
  /\ NextKid
  /\ UNCHANGED <<ports, mem, walk>>

\* The keyboard's port, and the one before it as "empty", end the loop.
VisitPort ==
  /\ InTree /\ OnBus /\ walk = "pio"
  /\ IF Kid.name = "keyboard"
       THEN /\ Read(<< <<"empty", res, tmp>>, <<walk, res, tmp>> >>)
            /\ NextSibling(res + 1)
       ELSE /\ Read(IF Kid.name \in {"pic1", "timer0"}
                      THEN << <<walk, res, tmp>> >> ELSE <<>>)
            /\ NextKid
  /\ UNCHANGED <<ports, mem, walk>>

VisitDevice ==
  /\ InTree /\ OnBus /\ walk = "mmio"
  /\ Read(IF Kid.child \in MemChild
            THEN << <<walk, res, tmp>> >> ELSE <<>>)
  /\ NextKid
  /\ UNCHANGED <<ports, mem, walk>>

WalkDone ==
  /\ walk \in {"pio", "mmio"} /\ ~InTree
  /\ walk' = IF walk = "pio" THEN "mmio" ELSE "gone"
  /\ NextSibling(1)
  /\ UNCHANGED <<ports, mem, hits>>

WalkOver == walk \in {"gone", "oops"} /\ UNCHANGED walkVars

WalkNext == \/ VisitRes \/ VisitPort \/ VisitDevice
            \/ RemapCrash \/ WalkDone \/ WalkOver
WalkSpec == WalkInit /\ [][WalkNext]_walkVars

-----------------------------------------------------------------------------
\* The kids of ports[i] with this name, and the reports of them as "pio" or as
\* "empty".
PortsNamed(i, name) ==
  {k \in 1 .. Len(ports[i].kids) : ports[i].kids[k].name = name}

PortLines(i, what, name) ==
  {n \in 1 .. Len(hits) : \E k \in PortsNamed(i, name) : hits[n] = <<what, i, k>>}

\* "Benchmark PIO pic0(handled by kernel), keyboard(handled by QEMU), empty PIO"
\* (README.md:23): the report has one line for each of the devices that a bus
\* has, and no line of any other port.  The keyboard has two ports, and the
\* loop is left at the first of them (pio_mmio_bench.c:77): that there is no
\* second line, and that the break loses no line of the pic or the timer, are
\* two sides of it.
EachPortOnce ==
  walk # "pio" =>
    /\ \A i \in 1 .. Len(ports) : ports[i].name = "PCI Bus 0000:00" =>
         \A line \in ({"pio"} \X {"pic1", "timer0", "keyboard"})
                       \cup {<<"empty", "keyboard">>} :
           PortsNamed(i, line[2]) # {} =>
             \E n \in 1 .. Len(hits) : PortLines(i, line[1], line[2]) = {n}
    /\ \A n \in 1 .. Len(hits) : hits[n][1] # "mmio" =>
         /\ ports[hits[n][2]].name = "PCI Bus 0000:00"
         /\ ports[hits[n][2]].kids[hits[n][3]].name
              \in (IF hits[n][1] = "pio" THEN {"pic1", "timer0", "keyboard"}
                                         ELSE {"keyboard"})
=============================================================================
