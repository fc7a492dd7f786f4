------------------------- MODULE TlbShootdownProofs -------------------------
(***************************************************************************)
(* Theorems about tlb-shootdown-bench: types, the regions the threads keep *)
(* to themselves, what the filling measures and the totals.                *)
(***************************************************************************)
EXTENDS TlbShootdown, TLAPS

Body   == {"fill", "advise", "unmap", "remap", "leaked"}
Filled == Body \ {"fill"}

(***************************************************************************)
(* The figures of a thread follow its loop variable: one time more in      *)
(* usec_fill between the end of the filling and the end of the round.      *)
(***************************************************************************)
LoopOk(t) ==
  /\ tpc[t] \in {"none", "bind", "map"} => round[t] = 0 /\ p[t] = MAP_FAILED
  /\ tpc[t] \in Body => round[t] < opt.loops
  /\ tpc[t] = "ended" => round[t] = opt.loops
  /\ info[t].leak = round[t]
  /\ info[t].fill = IF tpc[t] \in Filled THEN round[t] + 1 ELSE round[t]
  /\ tpc[t] = "advise" => ~opt.unmap
  /\ tpc[t] \in {"unmap", "remap"} => opt.unmap

\* main has added up the figures of the threads before tnum.
SumOf(n) == [fill |-> n * opt.loops, leak |-> n * opt.loops]

MainOk ==
  /\ mpc = "calloc" => tnum = 0
  /\ mpc \in {"calloc", "create"} =>
       /\ \A t \in Tid : t >= tnum => tpc[t] = "none"
       /\ total = [fill |-> 0, leak |-> 0]
  /\ mpc = "join" => total = SumOf(tnum)
  /\ process = "success" => mpc = "join" /\ tnum = opt.threads

LoopInv == /\ TlbTypeOK /\ MainOk
           /\ \A t \in Tid : LoopOk(t)

(***************************************************************************)
(* When a thread's p is its own region: from mmap on, and with -u until    *)
(* the munmap of the first round.                                          *)
(***************************************************************************)
Holding(t) == \/ tpc[t] \in {"fill", "advise", "unmap"}
              \/ tpc[t] = "loop" /\ round[t] = 0
              \/ tpc[t] \in {"loop", "leaked"} /\ ~opt.unmap

OwnInv ==
  KeepsPointer =>
    \A t \in Tid : Holding(t) /\ p[t] \in Regions => owner[p[t]] = t

(***************************************************************************)
(* Which pages of its region have no memory while no madvise has failed:   *)
(* those not yet filled, those already given back, and all between rounds. *)
(***************************************************************************)
Unbacked(t) == CASE tpc[t] = "fill"   -> {i \in Page : i >= index[t]}
              [] tpc[t] = "advise" -> {i \in Page : i < index[t]}
              [] tpc[t] = "unmap"  -> {}
              [] OTHER             -> Page

EmptyInv ==
  KeepsPointer =>
    \A t \in Tid : Holding(t) /\ info[t].ret = 0 =>
      \A i \in Unbacked(t) : <<p[t], i>> \notin resident

-----------------------------------------------------------------------------
\* The threads main creates are among the threads there are.
LEMMA TidOfOptions ==
  ASSUME NEW o \in Options
  PROVE  /\ o.threads \in Nat /\ o.loops \in Nat
         /\ 0 .. o.threads - 1 \subseteq Tid /\ Tid \subseteq Nat
<1>1. o.threads \in Nat /\ o.loops \in Nat
  BY OptionsAssumption DEF OptionType
<1>2. \E n \in {q.threads : q \in Options} : \A q \in Options : q.threads <= n
  BY OptionsAssumption
<1>3. /\ MaxThreads \in {q.threads : q \in Options}
      /\ \A q \in Options : q.threads <= MaxThreads
  BY <1>2 DEF MaxThreads
<1>4. MaxThreads \in Nat /\ o.threads <= MaxThreads
  BY <1>3, OptionsAssumption DEF OptionType
<1> QED BY <1>1, <1>4 DEF Tid

\* A thread writes to its own variables only, or ends the process.
LEMMA RoutineFrame ==
  ASSUME TlbTypeOK, NEW t \in Tid, Routine(t)
  PROVE  /\ UNCHANGED <<opt, mpc, tnum, total>> /\ process = "running"
         /\ \A u \in Tid \ {t} : UNCHANGED <<tpc[u], round[u], index[u], p[u], info[u]>>
         /\ \/ process' = process
            \/ /\ process' \in {"failure", "killed"}
               /\ UNCHANGED <<threadVars, spaceVars>>
<1> USE DEF TlbTypeOK, ThreadAt, Goto, mainFrame, threadVars
<1>1. CASE SetAffinity(t) \/ SetAffinityFails(t) \/ Map(t)
  BY <1>1 DEF SetAffinity, SetAffinityFails, Map, Ends
<1>2. CASE StartRound(t) \/ FillPage(t) \/ FillCrashes(t) \/ FillDone(t)
  BY <1>2 DEF StartRound, FillPage, FillCrashes, FillDone, Ends
<1>3. CASE Madvise(t) \/ MadviseFails(t) \/ AdviseDone(t)
  BY <1>3 DEF Madvise, MadviseFails, AdviseDone
<1>4. CASE Munmap(t) \/ MunmapFails(t) \/ Remap(t)
  BY <1>4 DEF Munmap, MunmapFails, Remap, Ends
<1>5. CASE LeakDone(t) \/ ThreadReturns(t)
  BY <1>5 DEF LeakDone, ThreadReturns
<1> QED BY <1>1, <1>2, <1>3, <1>4, <1>5 DEF Routine

LEMMA LoopInit == TlbInit => LoopInv
<1> SUFFICES ASSUME TlbInit PROVE LoopInv
  OBVIOUS
<1>1. opt \in Options /\ opt.loops \in Nat /\ opt.threads \in Nat
  BY TidOfOptions DEF TlbInit
<1>2. TlbTypeOK
  BY <1>1, PagesAssumption DEF TlbInit, TlbTypeOK, MAP_FAILED, Nobody
<1>3. MainOk
  BY DEF TlbInit, MainOk
<1>4. \A t \in Tid : LoopOk(t)
  BY DEF TlbInit, LoopOk, Body, Filled
<1> QED BY <1>2, <1>3, <1>4 DEF LoopInv

\* A step of main.
LEMMA LoopMain ==
  ASSUME LoopInv, Main
  PROVE  LoopInv'
<1>1. /\ opt \in Options /\ opt' = opt
      /\ opt.threads \in Nat /\ opt.loops \in Nat
      /\ tnum \in 0 .. opt.threads
  BY TidOfOptions
     DEF LoopInv, TlbTypeOK, Main, Calloc, CallocFails, CreateThread,
         CreateFails, AllCreated, JoinThread, MainReturns, Ends
<1>2. CASE CreateThread
  <2>1. /\ mpc = "create" /\ mpc' = mpc /\ tnum < opt.threads /\ tnum' = tnum + 1
        /\ process = "running" /\ tpc' = [tpc EXCEPT ![tnum] = "bind"]
        /\ UNCHANGED <<opt, process, total, round, index, p, info, owner, resident>>
    BY <1>2 DEF CreateThread, MainAt, spaceVars
  <2>2. tnum \in Tid
    BY <1>1, <2>1, TidOfOptions
  <2>3. TlbTypeOK'
    <3>1. tnum' \in 0 .. opt.threads
      BY <1>1, <2>1
    <3> QED BY <2>1, <3>1 DEF LoopInv, TlbTypeOK
  <2>4. MainOk'
    <3>1. \A t \in Tid : t >= tnum' => t # tnum /\ t >= tnum
      BY <1>1, <2>1 DEF Tid
    <3> QED BY <2>1, <3>1 DEF LoopInv, MainOk, TlbTypeOK
  <2>5. tpc[tnum] = "none"
    BY <1>1, <2>1, <2>2 DEF LoopInv, MainOk
  <2>6. ASSUME NEW t \in Tid PROVE LoopOk(t)'
    <3>1. LoopOk(t)
      BY DEF LoopInv
    <3>2. \/ tpc'[t] = tpc[t]
          \/ tpc[t] = "none" /\ tpc'[t] = "bind"
      BY <2>1, <2>5 DEF LoopInv, TlbTypeOK
    <3> QED BY <2>1, <3>1, <3>2 DEF LoopOk, Body, Filled
  <2> QED BY <2>3, <2>4, <2>6 DEF LoopInv
<1>3. CASE JoinThread
  <2>1. /\ mpc = "join" /\ tnum < opt.threads /\ tpc[tnum] = "ended"
        /\ total' = [fill |-> total.fill + info[tnum].fill,
                     leak |-> total.leak + info[tnum].leak]
        /\ tnum' = tnum + 1 /\ process = "running"
        /\ UNCHANGED <<opt, process, mpc, threadVars, spaceVars>>
    BY <1>3 DEF JoinThread, MainAt, Joined
  <2>2. tnum \in Tid
    BY <1>1, <2>1, TidOfOptions
  <2>3. info[tnum].fill = opt.loops /\ info[tnum].leak = opt.loops
    BY <2>1, <2>2 DEF LoopInv, LoopOk, Filled, Body
  <2>4. total' = SumOf(tnum')
    <3>1. total = SumOf(tnum)
      BY <2>1 DEF LoopInv, MainOk
    <3>2. tnum * opt.loops + opt.loops = (tnum + 1) * opt.loops
      BY <1>1
    <3> QED BY <2>1, <2>3, <3>1, <3>2 DEF SumOf
  <2>5. MainOk'
    BY <2>1, <2>4 DEF MainOk, SumOf
  <2>6. TlbTypeOK'
    <3>1. tnum' \in 0 .. opt.threads
      BY <1>1, <2>1
    <3>2. total' \in [fill : Nat, leak : Nat]
      BY <1>1, <2>1, <2>3 DEF LoopInv, TlbTypeOK
    <3> QED BY <2>1, <3>1, <3>2 DEF LoopInv, TlbTypeOK, threadVars, spaceVars
  <2>7. \A t \in Tid : LoopOk(t)'
    BY <2>1 DEF LoopInv, LoopOk, threadVars
  <2> QED BY <2>5, <2>6, <2>7 DEF LoopInv
<1>4. CASE AllCreated
  <2>1. /\ mpc = "create" /\ mpc' = "join" /\ tnum' = 0 /\ process = "running"
        /\ UNCHANGED <<opt, process, total, threadVars, spaceVars>>
    BY <1>4 DEF AllCreated, MainAt
  <2>2. MainOk'
    <3>1. 0 * opt.loops = 0
      BY <1>1
    <3> QED BY <2>1, <3>1 DEF LoopInv, MainOk, SumOf
  <2>3. TlbTypeOK'
    BY <1>1, <2>1 DEF LoopInv, TlbTypeOK, threadVars, spaceVars
  <2>4. \A t \in Tid : LoopOk(t)'
    BY <2>1 DEF LoopInv, LoopOk, threadVars
  <2> QED BY <2>2, <2>3, <2>4 DEF LoopInv
<1>5. CASE CallocFails \/ CreateFails \/ MainReturns
  <2>1. /\ UNCHANGED <<opt, mpc, tnum, total, threadVars, spaceVars>>
        /\ \/ process' \in {"failure", "unstarted"}
           \/ process' = "success" /\ mpc = "join" /\ tnum >= opt.threads
    BY <1>5 DEF CallocFails, CreateFails, MainReturns, MainAt, Ends
  <2>2. MainOk'
    BY <1>1, <2>1 DEF LoopInv, MainOk, threadVars, SumOf
  <2>3. TlbTypeOK'
    BY <2>1 DEF LoopInv, TlbTypeOK, threadVars, spaceVars
  <2>4. \A t \in Tid : LoopOk(t)'
    BY <2>1 DEF LoopInv, LoopOk, threadVars
  <2> QED BY <2>2, <2>3, <2>4 DEF LoopInv
<1>6. CASE Calloc
  <2>1. /\ mpc = "calloc" /\ mpc' = "create" /\ process = "running"
        /\ UNCHANGED <<opt, process, tnum, total, threadVars, spaceVars>>
    BY <1>6 DEF Calloc, MainAt
  <2>2. MainOk'
    BY <2>1 DEF LoopInv, MainOk, threadVars
  <2>3. TlbTypeOK'
    BY <2>1 DEF LoopInv, TlbTypeOK, threadVars, spaceVars
  <2>4. \A t \in Tid : LoopOk(t)'
    BY <2>1 DEF LoopInv, LoopOk, threadVars
  <2> QED BY <2>2, <2>3, <2>4 DEF LoopInv
<1> QED BY <1>2, <1>3, <1>4, <1>5, <1>6 DEF Main

\* A step of a thread keeps the types.
LEMMA TypeRoutine ==
  ASSUME LoopInv, NEW t \in Tid, Routine(t)
  PROVE  TlbTypeOK'
<1>1. /\ opt \in Options /\ opt.loops \in Nat /\ LoopOk(t) /\ TlbTypeOK
      /\ Pages \in Nat \ {0} /\ Nobody \notin Tid
  BY TidOfOptions, PagesAssumption DEF LoopInv, TlbTypeOK, Nobody
<1>2. UNCHANGED <<opt, mpc, tnum, total>>
  BY <1>1, RoutineFrame
<1> USE DEF TlbTypeOK, Goto, ThreadAt, mainFrame, spaceVars
<1>3. CASE SetAffinity(t) \/ AdviseDone(t) \/ ThreadReturns(t)
  BY <1>1, <1>3 DEF SetAffinity, AdviseDone, ThreadReturns
<1>4. CASE SetAffinityFails(t) \/ FillCrashes(t) \/ MunmapFails(t)
  BY <1>1, <1>4 DEF SetAffinityFails, FillCrashes, MunmapFails, Ends, threadVars
<1>5. ASSUME UNCHANGED spaceVars \/ \E r \in Regions : Mmap(t, r)
      PROVE  /\ owner' \in [Regions -> Tid \cup {Nobody}]
             /\ resident' \subseteq {r \in Regions : owner'[r] # Nobody} \X Page
  BY <1>1, <1>5 DEF Mmap
<1>6. CASE Map(t)
  <2>1. p' \in [Tid -> Regions \cup {MAP_FAILED}] /\ process' = process
    BY <1>1, <1>6 DEF Map
  <2>2. /\ owner' \in [Regions -> Tid \cup {Nobody}]
        /\ resident' \subseteq {r \in Regions : owner'[r] # Nobody} \X Page
    BY <1>5, <1>6 DEF Map, MmapFails
  <2> QED BY <1>1, <1>2, <1>6, <2>1, <2>2 DEF Map
<1>7. CASE Remap(t)
  BY <1>1, <1>2, <1>5, <1>7 DEF Remap, MmapFails
<1>8. CASE StartRound(t)
  BY <1>1, <1>8 DEF StartRound
<1>9. CASE FillPage(t) \/ Madvise(t)
  <2>1. /\ index[t] \in 0 .. Pages /\ index[t] < Pages
        /\ index' = [index EXCEPT ![t] = @ + 1]
    BY <1>1, <1>9 DEF FillPage, Madvise, NextIndex, PagesLeft
  <2>2. index' \in [Tid -> 0 .. Pages] /\ index[t] \in Page
    BY <1>1, <2>1 DEF Page
  <2>3. /\ resident' \subseteq resident \cup {<<p[t], index[t]>>}
        /\ p[t] \in Regions /\ owner[p[t]] # Nobody /\ owner' = owner
        /\ UNCHANGED <<process, tpc, round, p, info>>
    BY <1>9 DEF FillPage, Madvise, Mapped
  <2> QED BY <1>1, <1>2, <2>2, <2>3
<1>10. CASE FillDone(t)
  <2>1. info' \in [Tid -> [fill : Nat, leak : Nat, ret : {0, -1}]]
    BY <1>1, <1>10 DEF FillDone
  <2>2. /\ index' \in [Tid -> 0 .. Pages]
        /\ tpc' = [tpc EXCEPT ![t] = IF opt.unmap THEN "unmap" ELSE "advise"]
    BY <1>1, <1>10 DEF FillDone
  <2> QED BY <1>1, <1>2, <1>10, <2>1, <2>2 DEF FillDone
<1>11. CASE MadviseFails(t)
  <2>1. info' \in [Tid -> [fill : Nat, leak : Nat, ret : {0, -1}]]
    BY <1>1, <1>11 DEF MadviseFails
  <2> QED BY <1>1, <1>2, <1>11, <2>1 DEF MadviseFails
<1>12. CASE Munmap(t)
  <2>1. owner' \in [Regions -> Tid \cup {Nobody}]
    BY <1>1, <1>12 DEF Munmap
  <2>2. ASSUME NEW x \in resident' PROVE x \in {r \in Regions : owner'[r] # Nobody} \X Page
    <3>1. /\ x \in resident /\ x \notin {p[t]} \X Page
          /\ owner' = [owner EXCEPT ![p[t]] = Nobody]
      BY <1>12 DEF Munmap
    <3>2. /\ x = <<x[1], x[2]>> /\ x[1] \in Regions /\ owner[x[1]] # Nobody
          /\ x[2] \in Page
      BY <1>1, <3>1
    <3>3. x[1] # p[t]
      BY <3>1, <3>2
    <3>4. owner'[x[1]] = owner[x[1]]
      BY <1>1, <3>1, <3>2, <3>3
    <3> QED BY <3>2, <3>4
  <2> QED BY <1>1, <1>2, <1>12, <2>1, <2>2 DEF Munmap
<1>13. CASE LeakDone(t)
  <2>1. info' \in [Tid -> [fill : Nat, leak : Nat, ret : {0, -1}]]
    <3>1. /\ info' = [info EXCEPT ![t].leak = @ + 1]
          /\ info \in [Tid -> [fill : Nat, leak : Nat, ret : {0, -1}]]
      BY <1>1, <1>13 DEF LeakDone
    <3> QED BY <3>1
  <2>2. round[t] < opt.loops /\ round[t] \in 0 .. opt.loops
    BY <1>1, <1>13 DEF LeakDone, LoopOk, Body
  <2>3. round' \in [Tid -> 0 .. opt.loops]
    BY <1>1, <1>13, <2>2 DEF LeakDone
  <2> QED BY <1>1, <1>2, <1>13, <2>1, <2>3 DEF LeakDone
<1> QED BY <1>3, <1>4, <1>6, <1>7, <1>8, <1>9, <1>10, <1>11, <1>12, <1>13
        DEF Routine

\* A step of a thread keeps its figures in step with its loop.
LEMMA LoopOkRoutine ==
  ASSUME LoopInv, NEW t \in Tid, Routine(t)
  PROVE  LoopOk(t)'
<1>1. /\ opt.loops \in Nat /\ LoopOk(t) /\ TlbTypeOK /\ opt' = opt
      /\ round[t] \in 0 .. opt.loops
      /\ info[t].fill \in Nat /\ info[t].leak \in Nat
  BY TidOfOptions, RoutineFrame DEF LoopInv, TlbTypeOK
<1> USE DEF LoopOk, Body, Filled, Goto, ThreadAt, mainFrame, TlbTypeOK
<1>2. CASE SetAffinity(t) \/ AdviseDone(t) \/ Munmap(t) \/ Remap(t)
  BY <1>1, <1>2 DEF SetAffinity, AdviseDone, Munmap, Remap
<1>3. CASE SetAffinityFails(t) \/ FillCrashes(t) \/ MunmapFails(t)
  BY <1>1, <1>3 DEF SetAffinityFails, FillCrashes, MunmapFails, Ends, threadVars
<1>4. CASE Map(t)
  BY <1>1, <1>4 DEF Map
<1>5. CASE StartRound(t) \/ ThreadReturns(t)
  BY <1>1, <1>5 DEF StartRound, ThreadReturns, LoopsLeft
<1>6. CASE FillPage(t) \/ Madvise(t)
  BY <1>1, <1>6 DEF FillPage, Madvise
<1>7. CASE FillDone(t)
  <2>1. /\ info'[t] = [info[t] EXCEPT !.fill = @ + 1] /\ tpc[t] = "fill"
        /\ tpc'[t] = IF opt.unmap THEN "unmap" ELSE "advise"
        /\ UNCHANGED <<round, p>>
    BY <1>1, <1>7 DEF FillDone
  <2>2. info'[t].fill = info[t].fill + 1 /\ info'[t].leak = info[t].leak
    BY <1>1, <2>1
  <2> QED BY <1>1, <2>1, <2>2
<1>8. CASE MadviseFails(t)
  <2>1. /\ info'[t] = [info[t] EXCEPT !.ret = -1] /\ tpc[t] = "advise"
        /\ tpc'[t] = "leaked" /\ UNCHANGED <<round, p>>
    BY <1>1, <1>8 DEF MadviseFails
  <2>2. info'[t].fill = info[t].fill /\ info'[t].leak = info[t].leak
    BY <1>1, <2>1
  <2> QED BY <1>1, <2>1, <2>2
<1>9. CASE LeakDone(t)
  <2>1. /\ info'[t] = [info[t] EXCEPT !.leak = @ + 1] /\ tpc[t] = "leaked"
        /\ tpc'[t] = "loop" /\ round'[t] = round[t] + 1 /\ p' = p
    BY <1>1, <1>9 DEF LeakDone
  <2>2. info'[t].fill = info[t].fill /\ info'[t].leak = info[t].leak + 1
    BY <1>1, <2>1
  <2> QED BY <1>1, <2>1, <2>2
<1> QED BY <1>2, <1>3, <1>4, <1>5, <1>6, <1>7, <1>8, <1>9 DEF Routine

LEMMA LoopInductive == TlbSpec => []LoopInv
<1>1. LoopInv /\ [TlbNext]_tlbVars => LoopInv'
  <2> SUFFICES ASSUME LoopInv, [TlbNext]_tlbVars PROVE LoopInv'
    OBVIOUS
  <2>1. CASE Main
    BY <2>1, LoopMain
  <2>2. ASSUME NEW t \in Tid, Routine(t) PROVE LoopInv'
    <3>1. /\ UNCHANGED <<opt, mpc, tnum, total>> /\ process' # "success"
          /\ \A u \in Tid \ {t} : UNCHANGED <<tpc[u], round[u], p[u], info[u]>>
          /\ tpc[t] # "none"
      <4>1. tpc[t] # "none"
        BY <2>2 DEF Routine, SetAffinity, SetAffinityFails, Map, StartRound,
           FillPage, FillCrashes, FillDone, Madvise, MadviseFails, AdviseDone,
           Munmap, MunmapFails, Remap, LeakDone, ThreadReturns, ThreadAt
      <4> QED BY <2>2, <4>1, RoutineFrame DEF LoopInv
    <3>2. MainOk'
      BY <3>1 DEF LoopInv, MainOk, SumOf
    <3>3. \A u \in Tid \ {t} : LoopOk(u)'
      BY <3>1 DEF LoopInv, LoopOk
    <3> QED BY <2>2, <3>2, <3>3, TypeRoutine, LoopOkRoutine DEF LoopInv
  <2>3. CASE UNCHANGED tlbVars
    BY <2>3 DEF tlbVars, threadVars, spaceVars, LoopInv, TlbTypeOK, MainOk,
       SumOf, LoopOk
  <2> QED BY <2>1, <2>2, <2>3 DEF TlbNext, ProcessOver
<1> QED BY <1>1, LoopInit, PTL DEF TlbSpec

\* main's loop index stays below -t, the threads' loop variables below -l and
\* their indices within the buffer, and pages have memory only where something
\* is mapped (tlb-shootdown-bench.c:58-110 and 160-190).
THEOREM TlbTypeCorrect == TlbSpec => []TlbTypeOK
<1>1. LoopInv => TlbTypeOK
  BY DEF LoopInv
<1> QED BY <1>1, LoopInductive, PTL

\* The totals main prints have one time per thread and loop in them, however
\* many threads and loops there are (tlb-shootdown-bench.c:174-187).
THEOREM TotalsAreComplete == TlbSpec => []TotalsComplete
<1>1. LoopInv => TotalsComplete
  BY DEF LoopInv, MainOk, TotalsComplete, SumOf
<1> QED BY <1>1, LoopInductive, PTL

-----------------------------------------------------------------------------
(***************************************************************************)
(* The regions.                                                            *)
(***************************************************************************)
\* main, and a step that ends the process, leave them alone.
LEMMA HoldersKept ==
  ASSUME LoopInv, \/ Main
                  \/ \E t \in Tid : Routine(t) /\ process' # process
                  \/ UNCHANGED tlbVars
  PROVE  /\ UNCHANGED <<opt, p, owner, resident, index, info>>
         /\ \A t \in Tid : Holding(t)' =>
              /\ Holding(t) /\ UNCHANGED <<tpc[t], round[t]>>
<1>1. CASE CreateThread
  <2>1. /\ UNCHANGED <<opt, round, index, p, info, owner, resident>>
        /\ \A t \in Tid : tpc'[t] = tpc[t] \/ tpc'[t] = "bind"
    BY <1>1 DEF CreateThread, spaceVars, LoopInv, TlbTypeOK
  <2> QED BY <2>1 DEF Holding
<1>2. CASE \/ Calloc \/ CallocFails \/ CreateFails \/ AllCreated
           \/ JoinThread \/ MainReturns \/ UNCHANGED tlbVars
  <2>1. UNCHANGED <<opt, threadVars, spaceVars>>
    BY <1>2 DEF Calloc, CallocFails, CreateFails, AllCreated, JoinThread,
                MainReturns, Ends, tlbVars
  <2> QED BY <2>1 DEF threadVars, spaceVars, Holding
<1>3. ASSUME NEW t \in Tid, Routine(t), process' # process
      PROVE  UNCHANGED <<opt, threadVars, spaceVars>>
  BY <1>3, RoutineFrame DEF LoopInv
<1>4. CASE \E t \in Tid : Routine(t) /\ process' # process
  BY <1>3, <1>4 DEF threadVars, spaceVars, Holding
<1> QED BY <1>1, <1>2, <1>4 DEF Main

\* What a thread may do to the regions: map a free one, or unmap its own.
LEMMA OwnOthers ==
  ASSUME LoopInv, OwnInv, KeepsPointer, NEW t \in Tid, Routine(t),
         NEW u \in Tid \ {t}, Holding(u), p[u] \in Regions
  PROVE  owner'[p[u]] = u
<1>1. owner[p[u]] = u /\ TlbTypeOK /\ Nobody # u
  BY TidOfOptions DEF OwnInv, LoopInv, TlbTypeOK, Nobody
<1>2. CASE Map(t) \/ Remap(t)
  <2>1. \/ owner' = owner
        \/ \E r \in Regions : Mmap(t, r)
    BY <1>2 DEF Map, Remap, MmapFails, spaceVars
  <2> QED BY <1>1, <2>1 DEF Mmap, TlbTypeOK
<1>3. CASE Munmap(t)
  <2>1. p[t] \in Regions => owner[p[t]] = t
    BY <1>3 DEF Munmap, ThreadAt, OwnInv, Holding
  <2>2. p[t] # p[u]
    BY <1>1, <2>1
  <2> QED BY <1>1, <1>3, <2>2 DEF Munmap, TlbTypeOK
<1>4. CASE ~(Map(t) \/ Remap(t) \/ Munmap(t))
  <2>1. owner' = owner
    BY <1>4 DEF Routine, SetAffinity, SetAffinityFails, StartRound, FillPage,
       FillCrashes, FillDone, Madvise, MadviseFails, AdviseDone, MunmapFails,
       LeakDone, ThreadReturns, Ends, spaceVars
  <2> QED BY <1>1, <2>1
<1> QED BY <1>2, <1>3, <1>4

\* A thread that holds its region has held it before, or has just mapped it.
LEMMA HoldsStill ==
  ASSUME LoopInv, KeepsPointer, NEW t \in Tid, Routine(t), process' = process,
         Holding(t)'
  PROVE  \/ Map(t)
         \/ Holding(t) /\ UNCHANGED <<p, owner>>
<1>1. /\ LoopOk(t) /\ TlbTypeOK /\ opt' = opt /\ opt.loops \in Nat
      /\ round[t] \in 0 .. opt.loops
  BY TidOfOptions, RoutineFrame DEF LoopInv, TlbTypeOK
<1> USE DEF Holding, Goto, ThreadAt, mainFrame, spaceVars
<1>2. CASE Map(t) \/ SetAffinity(t) \/ ThreadReturns(t) \/ Munmap(t)
  BY <1>1, <1>2 DEF SetAffinity, ThreadReturns, Munmap, TlbTypeOK
<1>3. CASE StartRound(t)
  <2>1. /\ tpc[t] = "loop" /\ round[t] < opt.loops /\ UNCHANGED <<p, owner>>
    BY <1>3 DEF StartRound, LoopsLeft
  <2> QED BY <1>1, <2>1 DEF KeepsPointer
<1>4. CASE FillPage(t) \/ FillDone(t) \/ Madvise(t)
  BY <1>1, <1>4 DEF FillPage, FillDone, Madvise
<1>5. CASE MadviseFails(t) \/ AdviseDone(t)
  BY <1>1, <1>5 DEF MadviseFails, AdviseDone
<1>6. CASE Remap(t)
  <2>1. tpc[t] = "remap" /\ tpc'[t] = "leaked"
    BY <1>1, <1>6 DEF Remap, TlbTypeOK
  <2> QED BY <1>1, <2>1 DEF LoopOk
<1>7. CASE LeakDone(t)
  <2>1. /\ tpc[t] = "leaked" /\ tpc'[t] = "loop" /\ round'[t] = round[t] + 1
        /\ UNCHANGED <<p, owner>>
    BY <1>1, <1>7 DEF LeakDone, TlbTypeOK
  <2> QED BY <1>1, <2>1
<1>8. CASE SetAffinityFails(t) \/ FillCrashes(t) \/ MunmapFails(t)
  BY <1>8 DEF SetAffinityFails, FillCrashes, MunmapFails, Ends
<1> QED BY <1>2, <1>3, <1>4, <1>5, <1>6, <1>7, <1>8 DEF Routine

LEMMA OwnInductive == TlbSpec => []OwnInv
<1>1. TlbInit => OwnInv
  BY DEF TlbInit, OwnInv, Holding
<1>2. LoopInv /\ OwnInv /\ [TlbNext]_tlbVars => OwnInv'
  <2> SUFFICES ASSUME LoopInv, OwnInv, [TlbNext]_tlbVars PROVE OwnInv'
    OBVIOUS
  <2>1. CASE \/ Main
             \/ \E t \in Tid : Routine(t) /\ process' # process
             \/ UNCHANGED tlbVars
    BY <2>1, HoldersKept DEF OwnInv, KeepsPointer
  <2>2. ASSUME NEW t \in Tid, Routine(t), process' = process PROVE OwnInv'
    <3>1. /\ opt' = opt /\ KeepsPointer' = KeepsPointer
          /\ \A u \in Tid \ {t} : UNCHANGED <<tpc[u], round[u], p[u]>>
      BY <2>2, RoutineFrame DEF LoopInv, KeepsPointer
    <3>2. ASSUME KeepsPointer, NEW u \in Tid \ {t}, Holding(u)', p'[u] \in Regions
          PROVE  owner'[p'[u]] = u
      <4>1. Holding(u) /\ p'[u] = p[u]
        BY <3>1, <3>2 DEF Holding
      <4> QED BY <2>2, <3>2, <4>1, OwnOthers
    <3>3. ASSUME KeepsPointer, Holding(t)', p'[t] \in Regions
          PROVE  owner'[p'[t]] = t
      <4>1. CASE Map(t)
        <5>1. \/ \E r \in Regions : Mmap(t, r) /\ p' = [p EXCEPT ![t] = r]
              \/ p' = p /\ tpc[t] = "map"
          BY <4>1 DEF Map, ThreadAt
        <5>2. p[t] \notin Regions \/ tpc[t] # "map"
          BY RegionsAssumption DEF LoopInv, LoopOk, MAP_FAILED
        <5> QED BY <3>3, <5>1, <5>2 DEF Mmap, LoopInv, TlbTypeOK
      <4>2. CASE Holding(t) /\ UNCHANGED <<p, owner>>
        BY <3>3, <4>2 DEF OwnInv
      <4> QED BY <2>2, <3>3, <4>1, <4>2, HoldsStill
    <3> QED BY <3>1, <3>2, <3>3 DEF OwnInv
  <2> QED BY <2>1, <2>2 DEF TlbNext, ProcessOver
<1> QED BY <1>1, <1>2, LoopInductive, PTL DEF TlbSpec

\* A thread that keeps its pointer stores to memory, unless mmap gave it none.
KilledInv ==
  KeepsPointer /\ process = "killed" =>
    \E t \in Tid : tpc[t] = "fill" /\ p[t] = MAP_FAILED

LEMMA KilledInductive == TlbSpec => []KilledInv
<1>1. TlbInit => KilledInv
  BY DEF TlbInit, KilledInv
<1>2. LoopInv /\ OwnInv /\ KilledInv /\ [TlbNext]_tlbVars => KilledInv'
  <2> SUFFICES ASSUME LoopInv, OwnInv, KilledInv, [TlbNext]_tlbVars,
                      KeepsPointer', process' = "killed"
               PROVE  \E t \in Tid : tpc'[t] = "fill" /\ p'[t] = MAP_FAILED
    BY DEF KilledInv
  <2>1. CASE Main
    BY <2>1 DEF Main, Calloc, CallocFails, CreateThread, CreateFails, AllCreated,
       JoinThread, MainReturns, MainAt, Ends
  <2>2. ASSUME NEW t \in Tid, Routine(t)
        PROVE  \E u \in Tid : tpc'[u] = "fill" /\ p'[u] = MAP_FAILED
    <3>1. FillCrashes(t)
      BY <2>2 DEF Routine, SetAffinity, SetAffinityFails, Map, StartRound,
         FillPage, FillDone, Madvise, MadviseFails, AdviseDone, Munmap,
         MunmapFails, Remap, LeakDone, ThreadReturns, ThreadAt, Goto, mainFrame,
         Ends
    <3>2. /\ tpc[t] = "fill" /\ ~Mapped(t) /\ KeepsPointer
          /\ UNCHANGED <<tpc, p>>
      BY <3>1 DEF FillCrashes, ThreadAt, Ends, threadVars, KeepsPointer
    <3>3. p[t] \in Regions => owner[p[t]] = t
      BY <3>2 DEF OwnInv, Holding
    <3>4. t # Nobody
      BY TidOfOptions DEF LoopInv, TlbTypeOK, Nobody
    <3>5. p[t] = MAP_FAILED
      BY <3>2, <3>3, <3>4 DEF Mapped, LoopInv, TlbTypeOK
    <3> QED BY <3>2, <3>5
  <2>3. CASE UNCHANGED tlbVars
    BY <2>3 DEF tlbVars, threadVars, KilledInv, KeepsPointer
  <2> QED BY <2>1, <2>2, <2>3 DEF TlbNext, ProcessOver
<1> QED BY <1>1, <1>2, LoopInductive, OwnInductive, PTL DEF TlbSpec

\* With madvise, or with one loop of munmap, no thread fills, advises or unmaps
\* the region of another, and none crashes but one whose first mmap has failed
\* (tlb-shootdown-bench.c:74-101), for any number of threads and loops and
\* wherever mmap finds room.
THEOREM RegionsApart == TlbSpec => []OwnRegion
<1>1. OwnInv /\ KilledInv => OwnRegion
  BY DEF OwnInv, KilledInv, OwnRegion, Holding
<1> QED BY <1>1, OwnInductive, KilledInductive, PTL

-----------------------------------------------------------------------------
(***************************************************************************)
(* The memory of the regions.                                              *)
(***************************************************************************)
\* A page that gets memory is one of the thread's own region.
LEMMA BackedByOwner ==
  ASSUME LoopInv, OwnInv, KeepsPointer, NEW t \in Tid, Routine(t)
  PROVE  \/ resident' \subseteq resident
         \/ /\ FillPage(t) /\ resident' = resident \cup {<<p[t], index[t]>>}
            /\ p[t] \in Regions /\ owner[p[t]] = t
<1>1. CASE FillPage(t)
  <2>1. Holding(t) /\ p[t] \in Regions
    BY <1>1 DEF FillPage, ThreadAt, Mapped, Holding
  <2> QED BY <1>1, <2>1 DEF FillPage, OwnInv
<1>2. CASE ~FillPage(t)
  BY <1>2 DEF Routine, SetAffinity, SetAffinityFails, Map, Mmap, MmapFails,
     StartRound, FillCrashes, FillDone, Madvise, MadviseFails, AdviseDone,
     Munmap, MunmapFails, Remap, LeakDone, ThreadReturns, Ends, spaceVars
<1> QED BY <1>1, <1>2

\* So the pages of the others stay as they are.
LEMMA EmptyOthers ==
  ASSUME LoopInv, OwnInv, EmptyInv, KeepsPointer, NEW t \in Tid, Routine(t),
         NEW u \in Tid \ {t}, Holding(u), info[u].ret = 0,
         NEW i \in Unbacked(u)
  PROVE  <<p[u], i>> \notin resident'
<1>1. <<p[u], i>> \notin resident
  BY DEF EmptyInv
<1>2. p[u] \in Regions => owner[p[u]] = u
  BY DEF OwnInv
<1> QED BY <1>1, <1>2, BackedByOwner

\* A thread that has mapped its buffer finds no memory in it.
LEMMA EmptyMap ==
  ASSUME LoopInv, NEW t \in Tid, Map(t)
  PROVE  \A i \in Page : <<p'[t], i>> \notin resident'
<1>1. TlbTypeOK /\ tpc[t] = "map" /\ p[t] = MAP_FAILED /\ MAP_FAILED \notin Regions
  BY RegionsAssumption DEF LoopInv, LoopOk, Map, ThreadAt, MAP_FAILED
<1>2. \/ /\ resident' = resident /\ p'[t] = MAP_FAILED
      \/ /\ resident' = resident /\ p'[t] \in Regions /\ owner[p'[t]] = Nobody
  BY <1>1 DEF Map, Mmap, MmapFails, spaceVars, TlbTypeOK
<1> QED BY <1>1, <1>2 DEF TlbTypeOK

LEMMA EmptyOwn ==
  ASSUME LoopInv, OwnInv, EmptyInv, KeepsPointer, NEW t \in Tid, Routine(t),
         process' = process, Holding(t)', info'[t].ret = 0
  PROVE  \A i \in Unbacked(t)' : <<p'[t], i>> \notin resident'
<1>1. /\ TlbTypeOK /\ LoopOk(t) /\ opt' = opt /\ index[t] \in 0 .. Pages
      /\ Pages \in Nat /\ opt.loops \in Nat
      /\ info[t] \in [fill : Nat, leak : Nat, ret : {0, -1}]
  BY TidOfOptions, RoutineFrame, PagesAssumption DEF LoopInv, TlbTypeOK
<1>2. CASE Map(t)
  BY <1>2, EmptyMap DEF Unbacked, Map, Goto, Page
<1>3. CASE ~Map(t)
  <2>1. Holding(t) /\ UNCHANGED <<p, owner>>
    BY <1>3, HoldsStill
  <2>2. info[t].ret = 0 => \A i \in Unbacked(t) : <<p[t], i>> \notin resident
    BY <2>1 DEF EmptyInv
  <2> USE DEF Unbacked, Goto, ThreadAt, mainFrame, spaceVars, Page, Holding
  <2>3. CASE SetAffinity(t) \/ ThreadReturns(t) \/ Munmap(t) \/ Remap(t)
    <3>1. /\ tpc[t] \in {"bind", "loop", "unmap", "remap"}
          /\ tpc'[t] \in {"map", "ended", "remap", "leaked"}
      BY <1>1, <2>3 DEF SetAffinity, ThreadReturns, Munmap, Remap, TlbTypeOK
    <3>2. tpc[t] # "bind" /\ tpc[t] # "remap"
      BY <2>1
    <3>3. tpc'[t] \in {"ended", "remap"}
      BY <1>1, <2>3, <3>2 DEF SetAffinity, ThreadReturns, Munmap, Remap, TlbTypeOK
    <3> QED BY <3>3
  <2>4. CASE StartRound(t)
    <3>1. /\ tpc[t] = "loop" /\ tpc'[t] = "fill" /\ index'[t] = 0
          /\ UNCHANGED <<info, resident>>
      BY <1>1, <2>4 DEF StartRound, TlbTypeOK
    <3> QED BY <2>1, <2>2, <3>1
  <2>5. CASE FillPage(t)
    <3>1. /\ tpc[t] = "fill" /\ tpc' = tpc /\ index'[t] = index[t] + 1
          /\ resident' = resident \cup {<<p[t], index[t]>>} /\ info' = info
      BY <1>1, <2>5 DEF FillPage, NextIndex, TlbTypeOK
    <3>2. ASSUME NEW i \in Page, i >= index[t] + 1 PROVE i >= index[t] /\ i # index[t]
      BY <1>1, <3>2
    <3> QED BY <2>1, <2>2, <3>1, <3>2
  <2>6. CASE FillDone(t)
    <3>1. /\ tpc'[t] = "unmap" \/ (tpc'[t] = "advise" /\ index'[t] = 0)
      BY <1>1, <2>6 DEF FillDone, TlbTypeOK
    <3> QED BY <3>1
  <2>7. CASE Madvise(t)
    <3>1. /\ tpc[t] = "advise" /\ tpc' = tpc /\ index'[t] = index[t] + 1
          /\ resident' = resident \ {<<p[t], index[t]>>} /\ info' = info
      BY <1>1, <2>7 DEF Madvise, NextIndex, TlbTypeOK
    <3>2. ASSUME NEW i \in Page, i < index[t] + 1 PROVE i < index[t] \/ i = index[t]
      BY <1>1, <3>2
    <3> QED BY <2>1, <2>2, <3>1, <3>2
  <2>8. CASE MadviseFails(t)
    <3>1. info'[t].ret = -1
      BY <1>1, <2>8 DEF MadviseFails, TlbTypeOK
    <3> QED BY <3>1
  <2>9. CASE AdviseDone(t)
    <3>1. /\ tpc[t] = "advise" /\ tpc'[t] = "leaked" /\ index[t] >= Pages
          /\ UNCHANGED <<info, resident>>
      BY <1>1, <2>9 DEF AdviseDone, PagesLeft, TlbTypeOK
    <3>2. \A i \in Page : i < index[t]
      BY <1>1, <3>1
    <3> QED BY <2>1, <2>2, <3>1, <3>2
  <2>10. CASE LeakDone(t)
    <3>1. /\ tpc[t] = "leaked" /\ tpc'[t] = "loop" /\ resident' = resident
          /\ info'[t] = [info[t] EXCEPT !.leak = @ + 1]
      BY <1>1, <2>10 DEF LeakDone, TlbTypeOK
    <3>2. info'[t].ret = info[t].ret
      BY <1>1, <3>1
    <3> QED BY <2>1, <2>2, <3>1, <3>2
  <2>11. CASE SetAffinityFails(t) \/ FillCrashes(t) \/ MunmapFails(t)
    BY <2>11 DEF SetAffinityFails, FillCrashes, MunmapFails, Ends
  <2> QED BY <1>3, <2>3, <2>4, <2>5, <2>6, <2>7, <2>8, <2>9, <2>10, <2>11
          DEF Routine
<1> QED BY <1>2, <1>3

LEMMA EmptyInductive == TlbSpec => []EmptyInv
<1>1. TlbInit => EmptyInv
  BY DEF TlbInit, EmptyInv
<1>2. LoopInv /\ OwnInv /\ EmptyInv /\ [TlbNext]_tlbVars => EmptyInv'
  <2> SUFFICES ASSUME LoopInv, OwnInv, EmptyInv, [TlbNext]_tlbVars PROVE EmptyInv'
    OBVIOUS
  <2>1. CASE \/ Main
             \/ \E t \in Tid : Routine(t) /\ process' # process
             \/ UNCHANGED tlbVars
    <3>1. /\ UNCHANGED <<opt, p, owner, resident, index, info>>
          /\ \A t \in Tid : Holding(t)' =>
               /\ Holding(t) /\ UNCHANGED <<tpc[t], round[t]>>
      BY <2>1, HoldersKept
    <3>2. KeepsPointer' = KeepsPointer
      BY <3>1 DEF KeepsPointer
    <3> QED BY <3>1, <3>2 DEF EmptyInv, Unbacked
  <2>2. ASSUME NEW t \in Tid, Routine(t), process' = process PROVE EmptyInv'
    <3>1. /\ opt' = opt /\ KeepsPointer' = KeepsPointer
          /\ \A u \in Tid \ {t} :
               UNCHANGED <<tpc[u], round[u], index[u], p[u], info[u]>>
      BY <2>2, RoutineFrame DEF LoopInv, KeepsPointer
    <3>2. ASSUME KeepsPointer, NEW u \in Tid \ {t}, Holding(u)', info'[u].ret = 0
          PROVE  \A i \in Unbacked(u)' : <<p'[u], i>> \notin resident'
      <4>1. Holding(u) /\ p'[u] = p[u] /\ info[u].ret = 0
        BY <3>1, <3>2 DEF Holding
      <4>2. Unbacked(u)' = Unbacked(u)
        BY <3>1 DEF Unbacked
      <4> QED BY <2>2, <3>2, <4>1, <4>2, EmptyOthers
    <3>3. ASSUME KeepsPointer, Holding(t)', info'[t].ret = 0
          PROVE  \A i \in Unbacked(t)' : <<p'[t], i>> \notin resident'
      BY <2>2, <3>3, EmptyOwn
    <3> QED BY <3>1, <3>2, <3>3 DEF EmptyInv
  <2> QED BY <2>1, <2>2 DEF TlbNext, ProcessOver
<1> QED BY <1>1, <1>2, LoopInductive, OwnInductive, PTL DEF TlbSpec

\* Every store that is timed finds a page without memory, in every loop and
\* whatever the other threads do, as long as no madvise of the thread failed
\* (tlb-shootdown-bench.c:74-101).
THEOREM FillMeansFault == TlbSpec => []FillFaults
<1>1. LoopInv /\ EmptyInv => FillFaults
  <2> SUFFICES ASSUME LoopInv, EmptyInv, KeepsPointer, NEW t \in Tid,
                      tpc[t] = "fill", index[t] < Pages, info[t].ret = 0
               PROVE  <<p[t], index[t]>> \notin resident
    BY DEF FillFaults
  <2>1. index[t] \in 0 .. Pages
    BY DEF LoopInv, TlbTypeOK
  <2>2. index[t] \in Unbacked(t)
    BY <2>1, PagesAssumption DEF Unbacked, Page
  <2> QED BY <2>2 DEF EmptyInv, Holding
<1> QED BY <1>1, LoopInductive, EmptyInductive, PTL
=============================================================================
