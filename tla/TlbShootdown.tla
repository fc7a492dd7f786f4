---------------------------- MODULE TlbShootdown ----------------------------
(***************************************************************************)
(* tlb-shootdown-bench: main creates a thread per CPU asked for, joins them *)
(* in order and adds up their figures.  A thread binds itself to its CPU,  *)
(* maps a buffer, and then again and again fills it and gives the memory   *)
(* back, with madvise page by page or with one munmap.  The threads share  *)
(* one address space, seen as regions of the size of a buffer.             *)
(***************************************************************************)
EXTENDS Integers, FiniteSets

CONSTANTS
  Options,      \* the command lines, some of OptionType
  Pages,        \* pages of a buffer
  Regions,      \* the regions of the address space, numbers
  Cores,        \* how many CPUs the process may be bound to
  SysFaults     \* the calls that may fail, a subset of SysCall

OptionType == [threads : Nat, loops : Nat, unmap : BOOLEAN, interleave : BOOLEAN]
SysCall    == {"calloc", "clone", "mmap", "munmap", "madvise"}

ASSUME OptionsAssumption   ==
  /\ Options \subseteq OptionType
  /\ \E most \in Options : \A o \in Options : o.threads <= most.threads
ASSUME PagesAssumption     == Pages \in Nat \ {0}
ASSUME RegionsAssumption   == Regions \subseteq Nat
ASSUME CoresAssumption     == Cores \in Nat
ASSUME SysFaultsAssumption == SysFaults \subseteq SysCall

VARIABLES
  opt,        \* the command line
  process,    \* "running", or how it has ended
  mpc, tnum,  \* where main is, and its loop index
  total,      \* fill_elapled and leak_elapled, in times added
  tpc,        \* where each thread is
  round,      \* its loop variable
  index,      \* its index, in pages
  p,          \* its pointer p, a region, or what mmap returns on an error
  info,       \* its thread_info: times added to usec_fill, usec_leak, and ret
  owner,      \* the thread each region is mapped by
  resident    \* the pages with memory behind them

threadVars == <<tpc, round, index, p, info>>
spaceVars  == <<owner, resident>>
tlbVars == <<opt, process, mpc, tnum, total, threadVars, spaceVars>>

MaxThreads == CHOOSE n \in {o.threads : o \in Options} :
                \A o \in Options : o.threads <= n
Tid     == 0 .. MaxThreads - 1
Nobody  == -1
MAP_FAILED == -1
Page    == 0 .. Pages - 1

TlbInit ==
  /\ opt \in Options
  /\ process = "running" /\ mpc = "calloc" /\ tnum = 0
  /\ total = [fill |-> 0, leak |-> 0]
  /\ tpc = [t \in Tid |-> "none"]
  /\ round = [t \in Tid |-> 0] /\ index = [t \in Tid |-> 0]
  /\ p = [t \in Tid |-> MAP_FAILED]
  /\ info = [t \in Tid |-> [fill |-> 0, leak |-> 0, ret |-> 0]]
  /\ owner = [r \in Regions |-> Nobody]
  /\ resident = {}

\* exit(), or a signal: all threads are gone at once.
Ends(how) ==
  /\ process' = how
  /\ UNCHANGED <<opt, mpc, tnum, total, threadVars, spaceVars>>

-----------------------------------------------------------------------------
(***************************************************************************)
(* main                                                                    *)
(***************************************************************************)
MainAt(place) == process = "running" /\ mpc = place

Calloc ==
  /\ MainAt("calloc")
  /\ mpc' = "create"
  /\ UNCHANGED <<opt, process, tnum, total, threadVars, spaceVars>>

\* main returns 0 and has created no thread.
CallocFails ==
  /\ MainAt("calloc") /\ "calloc" \in SysFaults
  /\ Ends("unstarted")

CoreId(t) == IF opt.interleave THEN t * 2 ELSE t

CreateThread ==
  /\ MainAt("create") /\ tnum < opt.threads
  /\ tpc' = [tpc EXCEPT ![tnum] = "bind"]
  /\ tnum' = tnum + 1
  /\ UNCHANGED <<opt, process, mpc, total, round, index, p, info, spaceVars>>

CreateFails ==
  /\ MainAt("create") /\ tnum < opt.threads /\ "clone" \in SysFaults
  /\ Ends("failure")

AllCreated ==
  /\ MainAt("create") /\ tnum >= opt.threads
  /\ mpc' = "join" /\ tnum' = 0
  /\ UNCHANGED <<opt, process, total, threadVars, spaceVars>>

\* Faulty variant of Joined: main does not wait for the thread.
Joined_AnyTime(t) == TRUE

\* pthread_join returns when the thread has ended.
Joined(t) == tpc[t] = "ended"

JoinThread ==
  /\ MainAt("join") /\ tnum < opt.threads /\ Joined(tnum)
  /\ total' = [fill |-> total.fill + info[tnum].fill,
               leak |-> total.leak + info[tnum].leak]
  /\ tnum' = tnum + 1
  /\ UNCHANGED <<opt, process, mpc, threadVars, spaceVars>>

\* The totals are printed and thread_info is freed; main returns.
MainReturns ==
  /\ MainAt("join") /\ tnum >= opt.threads
  /\ Ends("success")

-----------------------------------------------------------------------------
(***************************************************************************)
(* __routine                                                               *)
(***************************************************************************)
ThreadAt(t, place) == process = "running" /\ tpc[t] = place

mainFrame == <<opt, process, mpc, tnum, total>>

Goto(t, place) == tpc' = [tpc EXCEPT ![t] = place] /\ UNCHANGED mainFrame

SetAffinity(t) ==
  /\ ThreadAt(t, "bind") /\ CoreId(t) < Cores
  /\ Goto(t, "map")
  /\ UNCHANGED <<round, index, p, info, spaceVars>>

SetAffinityFails(t) ==
  /\ ThreadAt(t, "bind") /\ CoreId(t) >= Cores
  /\ Ends("failure")

\* mmap without MAP_POPULATE, at an address of the kernel's choice.
Mmap(t, r) == /\ owner[r] = Nobody
              /\ owner' = [owner EXCEPT ![r] = t]
              /\ UNCHANGED resident

MmapFails == /\ "mmap" \in SysFaults \/ \A r \in Regions : owner[r] # Nobody
             /\ UNCHANGED spaceVars

Map(t) ==
  /\ ThreadAt(t, "map")
  /\ \/ \E r \in Regions : Mmap(t, r) /\ p' = [p EXCEPT ![t] = r]
     \/ MmapFails /\ UNCHANGED p
  /\ Goto(t, "loop")
  /\ UNCHANGED <<round, index, info>>

\* Faulty variant of LoopsLeft: "<=" for "<".
LoopsLeft_OneMore(t) == round[t] <= opt.loops

LoopsLeft(t) == round[t] < opt.loops

StartRound(t) ==
  /\ LoopsLeft(t) /\ ThreadAt(t, "loop")
  /\ index' = [index EXCEPT ![t] = 0]
  /\ Goto(t, "fill")
  /\ UNCHANGED <<round, p, info, spaceVars>>

ThreadReturns(t) ==
  /\ ~LoopsLeft(t) /\ ThreadAt(t, "loop")
  /\ Goto(t, "ended")
  /\ UNCHANGED <<round, index, p, info, spaceVars>>

Mapped(t) == p[t] \in Regions /\ owner[p[t]] # Nobody

\* Faulty variant of NextIndex: the index is too narrow for the buffer.
NextIndex_Wraps(i) == (i + 1) % Pages

NextIndex(i) == i + 1

\* *(p+index) = 0: a page that is not resident is faulted in.
FillPage(t) ==
  /\ ThreadAt(t, "fill") /\ index[t] < Pages /\ Mapped(t)
  /\ resident' = resident \cup {<<p[t], index[t]>>}
  /\ index' = [index EXCEPT ![t] = NextIndex(@)]
  /\ UNCHANGED <<mainFrame, tpc, round, p, info, owner>>

\* A store where nothing is mapped: SIGSEGV.
FillCrashes(t) ==
  /\ ThreadAt(t, "fill") /\ index[t] < Pages /\ ~Mapped(t)
  /\ Ends("killed")

FillDone(t) ==
  /\ ThreadAt(t, "fill") /\ index[t] >= Pages
  /\ info' = [info EXCEPT ![t].fill = @ + 1]
  /\ index' = [index EXCEPT ![t] = IF opt.unmap THEN @ ELSE 0]
  /\ Goto(t, IF opt.unmap THEN "unmap" ELSE "advise")
  /\ UNCHANGED <<round, p, spaceVars>>

\* Faulty variant of PagesLeft: the last page is left out.
PagesLeft_ButOne(t) == index[t] < Pages - 1

PagesLeft(t) == index[t] < Pages

\* madvise(p+index, 4096, MADV_DONTNEED) frees the page.
Madvise(t) ==
  /\ ThreadAt(t, "advise") /\ PagesLeft(t) /\ Mapped(t)
  /\ resident' = resident \ {<<p[t], index[t]>>}
  /\ index' = [index EXCEPT ![t] = NextIndex(@)]
  /\ UNCHANGED <<mainFrame, tpc, round, p, info, owner>>

\* The error is remembered, and the loop over the pages left.
MadviseFails(t) ==
  /\ ThreadAt(t, "advise") /\ PagesLeft(t)
  /\ "madvise" \in SysFaults \/ ~Mapped(t)
  /\ info' = [info EXCEPT ![t].ret = -1]
  /\ Goto(t, "leaked")
  /\ UNCHANGED <<round, index, p, spaceVars>>

AdviseDone(t) ==
  /\ ThreadAt(t, "advise") /\ ~PagesLeft(t)
  /\ Goto(t, "leaked")
  /\ UNCHANGED <<round, index, p, info, spaceVars>>

\* munmap also succeeds where nothing is mapped, or something of another
\* thread.
Munmap(t) ==
  /\ ThreadAt(t, "unmap")
  /\ owner' = [owner EXCEPT ![p[t]] = Nobody]
  /\ resident' = resident \ ({p[t]} \X Page)
  /\ Goto(t, "remap")
  /\ UNCHANGED <<round, index, p, info>>

MunmapFails(t) ==
  /\ ThreadAt(t, "unmap") /\ "munmap" \in SysFaults
  /\ Ends("failure")

\* "char *p = mmap(...)" inside the block: the p of the loop is another.
Remap(t) ==
  /\ ThreadAt(t, "remap")
  /\ (\E r \in Regions : Mmap(t, r)) \/ MmapFails
  /\ Goto(t, "leaked")
  /\ UNCHANGED <<round, index, p, info>>

LeakDone(t) ==
  /\ ThreadAt(t, "leaked")
  /\ info' = [info EXCEPT ![t].leak = @ + 1]
  /\ round' = [round EXCEPT ![t] = @ + 1]
  /\ Goto(t, "loop")
  /\ UNCHANGED <<index, p, spaceVars>>

-----------------------------------------------------------------------------
Main == \/ Calloc \/ CallocFails
        \/ CreateThread \/ CreateFails \/ AllCreated
        \/ JoinThread \/ MainReturns

Routine(t) ==
  \/ SetAffinity(t) \/ SetAffinityFails(t) \/ Map(t)
  \/ StartRound(t) \/ FillPage(t) \/ FillCrashes(t) \/ FillDone(t)
  \/ Madvise(t) \/ MadviseFails(t) \/ AdviseDone(t)
  \/ Munmap(t) \/ MunmapFails(t) \/ Remap(t)
  \/ LeakDone(t) \/ ThreadReturns(t)

ProcessOver == process # "running" /\ UNCHANGED tlbVars

TlbNext == Main \/ (\E t \in Tid : Routine(t)) \/ ProcessOver

\* The scheduler runs every thread of the process.
TlbSpec == /\ TlbInit /\ [][TlbNext]_tlbVars
           /\ WF_tlbVars(Main) /\ \A t \in Tid : WF_tlbVars(Routine(t))

-----------------------------------------------------------------------------
\* The variables of main, the threads and the address space keep their types;
\* no loop goes past its end, and only mapped pages have memory.
TlbTypeOK ==
  /\ opt \in Options
  /\ process \in {"running", "success", "failure", "killed", "unstarted"}
  /\ mpc \in {"calloc", "create", "join"} /\ tnum \in 0 .. opt.threads
  /\ total \in [fill : Nat, leak : Nat]
  /\ tpc \in [Tid -> {"none", "bind", "map", "loop", "fill", "advise", "unmap",
                      "remap", "leaked", "ended"}]
  /\ round \in [Tid -> 0 .. opt.loops] /\ index \in [Tid -> 0 .. Pages]
  /\ p \in [Tid -> Regions \cup {MAP_FAILED}]
  /\ info \in [Tid -> [fill : Nat, leak : Nat, ret : {0, -1}]]
  /\ owner \in [Regions -> Tid \cup {Nobody}]
  /\ resident \subseteq {r \in Regions : owner[r] # Nobody} \X Page

\* With madvise, or with one loop, a thread stores where it has mapped memory
\* itself: its p is the region mmap gave it until it has given it back.  With
\* -u and more loops the p of line 80 is the region unmapped in line 87, as the
\* new one goes to the p of line 92.
KeepsPointer == ~opt.unmap \/ opt.loops <= 1

\* The threads stay out of each other's way (lines 74-101): a thread fills,
\* advises and unmaps only a region it has mapped itself, and the one store
\* that crashes is that of a thread whose first mmap, which nobody checks
\* (line 74), has failed.
OwnRegion ==
  KeepsPointer =>
    /\ \A t \in Tid : tpc[t] \in {"fill", "advise", "unmap"} /\ p[t] \in Regions =>
         owner[p[t]] = t
    /\ process = "killed" => \E t \in Tid : tpc[t] = "fill" /\ p[t] = MAP_FAILED

\* What is timed as filling is page faults (README.md: "Benchmark TLB
\* shootdown by madvise"): as long as no madvise of the thread has failed, the page it
\* is about to store to has no memory, whatever loop it is in.  Pages are
\* faulted in one by one: a kernel that backs the buffer with huge pages, or
\* faults pages around, takes fewer faults than there are stores.
FillFaults ==
  KeepsPointer =>
    \A t \in Tid : tpc[t] = "fill" /\ index[t] < Pages /\ info[t].ret = 0 =>
      <<p[t], index[t]>> \notin resident

\* The totals main prints are complete, one time per thread and loop for the
\* filling and for the giving back: main reads a thread's figures, and frees
\* thread_info, only after the thread's last addition (lines 174-187).
TotalsComplete ==
  process = "success" =>
    total = [fill |-> opt.threads * opt.loops, leak |-> opt.threads * opt.loops]

\* The process ends, whatever system call fails.
ProcessEnds == <>(process # "running")
=============================================================================
