--------------------------- MODULE IpiBenchProofs ---------------------------
(***************************************************************************)
(* Theorems about IpiBench, for every machine, every set of parameters and *)
(* every set of faults.                                                    *)
(***************************************************************************)
EXTENDS IpiBench, FiniteSetTheorems, TLAPS

USE NumCpusAssumption, NodeOfAssumption, ParamsAssumption, FaultsAssumption

\* A function keeps its type when one of its values is replaced.
LEMMA ExceptType ==
  ASSUME NEW S, NEW T, NEW f \in [S -> T], NEW x, NEW v \in T
  PROVE  [f EXCEPT ![x] = v] \in [S -> T]
  OBVIOUS

LEMMA CaseIsInt == Case \subseteq Int
  BY DEF Case, SelfIpi, SingleIpi, MeshIpi, AllIpi

\* The count of a case is an integer, and all thread slots are Thread members.
LEMMA CountIsInt ==
  ASSUME param \in ParamType, NEW c \in Case
  PROVE  Count(c) \in Int
  BY DEF Count, ParamType, Case, SelfIpi, SingleIpi, MeshIpi, AllIpi

\* The cases are taken in the order of their flags, one out of todo.
LEMMA NextCaseTaken ==
  ASSUME TypeOK, NextCase
  PROVE  cur' \in todo
<1>1. todo # {} /\ todo \subseteq Int /\ todo \subseteq Case
  BY CaseIsInt DEF NextCase, TypeOK
<1>2. \E c \in todo : \A d \in todo : c <= d
  <2>1. CASE SelfIpi \in todo
    BY <1>1, <2>1 DEF Case, SelfIpi, SingleIpi, MeshIpi, AllIpi
  <2>2. CASE SelfIpi \notin todo /\ SingleIpi \in todo
    BY <1>1, <2>2 DEF Case, SelfIpi, SingleIpi, MeshIpi, AllIpi
  <2>3. CASE SelfIpi \notin todo /\ SingleIpi \notin todo /\ MeshIpi \in todo
    BY <1>1, <2>3 DEF Case, SelfIpi, SingleIpi, MeshIpi, AllIpi
  <2>4. CASE SelfIpi \notin todo /\ SingleIpi \notin todo /\ MeshIpi \notin todo
    <3>1. todo = {AllIpi}
      BY <1>1, <2>4 DEF Case
    <3> QED BY <3>1 DEF AllIpi
  <2> QED BY <2>1, <2>2, <2>3, <2>4
<1> QED BY <1>2 DEF NextCase

-----------------------------------------------------------------------------
LEMMA TypeLoad == TypeOK /\ Load => TypeOK'
<1> SUFFICES ASSUME TypeOK, Load PROVE TypeOK'
  OBVIOUS
<1> USE DEF TypeOK, DriverPc, driverVars, countVars, placeVars, workVars
<1>1. CASE RejectParams
  BY <1>1 DEF RejectParams
<1>2. CASE InitParams
  <2>1. PICK s \in SrcChoices(param) : \E d \in DstChoices(param, s) :
          param' = [param EXCEPT
                      !.srccpu = s, !.dstcpu = d,
                      !.pairs = IF @ = -1 THEN NumCpus \div 2 ELSE @,
                      !.broadcasts = IF @ = -1 THEN 1 ELSE @]
    BY <1>2 DEF InitParams
  <2>2. PICK d \in DstChoices(param, s) :
          param' = [param EXCEPT
                      !.srccpu = s, !.dstcpu = d,
                      !.pairs = IF @ = -1 THEN NumCpus \div 2 ELSE @,
                      !.broadcasts = IF @ = -1 THEN 1 ELSE @]
    BY <2>1
  <2>3. s \in Int /\ d \in Int
    BY DEF SrcChoices, DstChoices, ParamType, Cpu
  <2>4. NumCpus \div 2 \in Int
    OBVIOUS
  <2>5. (IF param.pairs = -1 THEN NumCpus \div 2 ELSE param.pairs) \in Int
    BY <2>4 DEF ParamType
  <2>6. (IF param.broadcasts = -1 THEN 1 ELSE param.broadcasts) \in Int
    BY DEF ParamType
  <2>7. param' = [param EXCEPT
                    !.srccpu = s, !.dstcpu = d,
                    !.pairs = IF param.pairs = -1 THEN NumCpus \div 2
                                                  ELSE param.pairs,
                    !.broadcasts = IF param.broadcasts = -1 THEN 1
                                   ELSE param.broadcasts]
    BY <2>2 DEF ParamType
  <2>8. param' \in ParamType
    BY <2>3, <2>5, <2>6, <2>7 DEF ParamType
  <2>9. todo' \subseteq Case
    BY <1>2 DEF InitParams, ParamType
  <2> QED BY <1>2, <2>8, <2>9 DEF InitParams
<1>3. CASE NextCase
  BY <1>3, NextCaseTaken DEF NextCase
<1>4. CASE Unload
  BY <1>4 DEF Unload
<1> QED BY <1>1, <1>2, <1>3, <1>4 DEF Load

LEMMA TypePrepare == TypeOK /\ Prepare => TypeOK'
<1> SUFFICES ASSUME TypeOK, Prepare PROVE TypeOK'
  OBVIOUS
<1> USE DEF TypeOK, DriverPc, driverVars, countVars, placeVars, workVars
<1>1. CASE NoMemory
  BY <1>1 DEF NoMemory
<1>2. CASE Alloc
  <2>1. should_run' \in Nat
    BY <1>2, CountIsInt DEF Alloc, Allocatable, ShouldRun
  <2>2. src' \in [Thread -> Int] /\ dst' \in [Thread -> Int]
    <3>1. param.srccpu \in Int /\ param.dstcpu \in Int
      BY DEF ParamType
    <3> QED BY <3>1, <1>2 DEF Alloc
  <2> QED BY <1>2, <2>1, <2>2 DEF Alloc
<1>3. CASE BuildPair
  <2>1. PICK s \in UnusedCpu(mask, -1) :
          \E d \in UnusedCpu(mask \cup {s}, WantedNode(s)) :
            /\ src' = [src EXCEPT ![<<cur, idx>>] = s]
            /\ dst' = [dst EXCEPT ![<<cur, idx>>] = d]
            /\ mask' = mask \cup {s, d}
    BY <1>3 DEF BuildPair
  <2>2. PICK d \in UnusedCpu(mask \cup {s}, WantedNode(s)) :
            /\ src' = [src EXCEPT ![<<cur, idx>>] = s]
            /\ dst' = [dst EXCEPT ![<<cur, idx>>] = d]
            /\ mask' = mask \cup {s, d}
    BY <2>1
  <2>3. s \in Cpu /\ d \in Cpu /\ s \in Int /\ d \in Int
    BY DEF UnusedCpu, Cpu
  <2>4. src' \in [Thread -> Int] /\ dst' \in [Thread -> Int]
    BY <2>2, <2>3, ExceptType
  <2>5. mask' \subseteq Cpu
    BY <2>2, <2>3
  <2> QED BY <1>3, <2>4, <2>5 DEF BuildPair
<1>4. CASE BuildBroadcaster
  <2>1. PICK s \in UnusedCpu(mask, -1) :
          src' = [src EXCEPT ![<<cur, idx>>] = s] /\ mask' = mask \cup {s}
    BY <1>4 DEF BuildBroadcaster
  <2>2. s \in Cpu /\ s \in Int
    BY DEF UnusedCpu, Cpu
  <2>3. src' \in [Thread -> Int] /\ mask' \subseteq Cpu
    BY <2>1, <2>2, ExceptType
  <2> QED BY <1>4, <2>3 DEF BuildBroadcaster
<1>5. CASE BuildFails \/ BuildOops
  BY <1>5 DEF BuildFails, BuildOops
<1>6. CASE BuildDone
  BY <1>6 DEF BuildDone
<1>7. CASE Spawn
  <2>1. pc' \in [Thread -> WorkerPc]
    BY <1>7, ExceptType DEF Spawn, WorkerPc
  <2> QED BY <1>7, <2>1 DEF Spawn
<1>8. CASE SpawnFails
  BY <1>8 DEF SpawnFails
<1>9. CASE SpawnDone
  BY <1>9 DEF SpawnDone
<1> QED BY <1>1, <1>2, <1>3, <1>4, <1>5, <1>6, <1>7, <1>8, <1>9 DEF Prepare

LEMMA TypeWaitAll == TypeOK /\ WaitAll => TypeOK'
  BY DEF TypeOK, DriverPc, driverVars, countVars, placeVars, workVars,
         WaitAll, WaitOver, MustWait, PrepareToWait, GoToSleep, WokenUp,
         Timeout, Signal, StartReport, waitFrame

LEMMA TypeReport == TypeOK /\ Report => TypeOK'
<1> SUFFICES ASSUME TypeOK, Report PROVE TypeOK'
  OBVIOUS
<1> USE DEF TypeOK, DriverPc, driverVars, countVars, placeVars, workVars
<1>1. CASE ReportStart
  BY <1>1 DEF ReportStart
<1>2. CASE ReportRest
  <2>1. PICK v \in {"nothing", "toomany", "exact", "skewed"} :
          printed' = [printed EXCEPT ![<<cur, idx>>] = v]
    BY <1>2 DEF ReportRest
  <2>2. printed' \in [Thread -> {"nothing", "toomany", "exact", "skewed"}]
    BY <2>1, ExceptType
  <2> QED BY <1>2, <2>2 DEF ReportRest
<1>3. CASE Free
  BY <1>3 DEF Free
<1> QED BY <1>1, <1>2, <1>3 DEF Report

LEMMA TypeWorker == ASSUME TypeOK, NEW t \in Thread, Worker(t) PROVE TypeOK'
<1> USE DEF TypeOK, driverVars, placeVars, Moves, Writes, WorkerPc, Stamp
<1>1. CASE Barrier(t)
  BY <1>1 DEF Barrier, Forked, Arrive, LeaveSpin, CheckPasses, CheckFails,
              ExitOnBug
<1>2. CASE Measure(t)
  BY <1>2 DEF Measure, Start, Bench, BenchFails, Finish
<1>3. CASE Notify(t)
  BY <1>3 DEF Notify, RecordRunDelay, Complete, WakeUp, Return
<1>4. CASE GoWild(t)
  BY <1>4 DEF GoWild, countVars
<1> QED BY <1>1, <1>2, <1>3, <1>4 DEF Worker

\* Type correctness, whatever the parameters and the faults.
THEOREM TypeCorrect == Spec => []TypeOK
<1>1. Init => TypeOK
  <2> SUFFICES ASSUME Init PROVE TypeOK
    OBVIOUS
  <2>1. asked \in ParamType /\ param \in ParamType
    BY DEF Init
  <2>2. cur \in Case
    BY DEF Init, Case
  <2>3. /\ mem \in [Case -> {"none", "live", "freed"}]
        /\ src \in [Thread -> Int] /\ dst \in [Thread -> Int]
        /\ ba \in [Thread -> SUBSET Stamp]
        /\ pc \in [Thread -> WorkerPc]
        /\ printed \in [Thread -> {"nothing", "toomany", "exact", "skewed"}]
    BY DEF Init, WorkerPc
  <2> QED BY <2>1, <2>2, <2>3 DEF Init, TypeOK, DriverPc
<1>2. TypeOK /\ [Next]_vars => TypeOK'
  <2> SUFFICES ASSUME TypeOK, [Next]_vars PROVE TypeOK'
    OBVIOUS
  <2>1. CASE Driver
    BY <2>1, TypeLoad, TypePrepare, TypeWaitAll, TypeReport DEF Driver
  <2>2. CASE \E t \in Thread : Worker(t)
    BY <2>2, TypeWorker
  <2>3. CASE UNCHANGED vars
    BY <2>3 DEF TypeOK, vars
  <2> QED BY <2>1, <2>2, <2>3 DEF Next, Terminated
<1> QED BY <1>1, <1>2, PTL DEF Spec
-----------------------------------------------------------------------------
(***************************************************************************)
(* No wake-up is lost.  NoLostWakeup is inductive: the driver goes to      *)
(* sleep only when the condition is false, the worker that makes it true   *)
(* has its wake_up still to do, and only the unload can stop it.           *)
(***************************************************************************)
\* The driver's own steps enter "asleep" only by the test of the condition.
LEMMA DriverSleepsOnTest ==
  ASSUME TypeOK, Driver, dpc' = "asleep"
  PROVE  GoToSleep
<1>1. ~Load
  BY DEF Load, RejectParams, InitParams, NextCase, Unload
<1>2. ~Prepare
  BY DEF Prepare, NoMemory, Alloc, BuildPair, BuildBroadcaster, BuildFails,
         BuildOops, BuildDone, Spawn, SpawnFails, SpawnDone
<1>3. ~Report
  BY DEF Report, ReportStart, ReportRest, Free
<1>4. WaitAll => GoToSleep
  BY DEF WaitAll, WaitOver, MustWait, PrepareToWait, WokenUp, Timeout, Signal,
         StartReport
<1> QED BY <1>1, <1>2, <1>3, <1>4 DEF Driver

\* What every step of a worker leaves alone, and how it moves.
LEMMA WorkerFrame ==
  ASSUME TypeOK, NEW t \in Thread, Worker(t)
  PROVE  /\ UNCHANGED <<asked, param, dpc, todo, cur, idx, mask, seen,
                        should_run, mem, src, dst, printed>>
         /\ \A u \in Thread \ {t} : pc'[u] = pc[u]
         /\ \/ wild' = wild
            \/ GoWild(t)
<1> USE DEF TypeOK, driverVars, placeVars, Moves
<1>1. CASE Barrier(t)
  BY <1>1 DEF Barrier, Forked, Arrive, LeaveSpin, CheckPasses, CheckFails,
              ExitOnBug
<1>2. CASE Measure(t)
  BY <1>2 DEF Measure, Start, Bench, BenchFails, Finish
<1>3. CASE Notify(t)
  BY <1>3 DEF Notify, RecordRunDelay, Complete, WakeUp, Return
<1>4. CASE GoWild(t)
  BY <1>4 DEF GoWild, countVars
<1> QED BY <1>1, <1>2, <1>3, <1>4 DEF Worker

LEMMA WorkerKeepsWakeup ==
  ASSUME TypeOK, NoLostWakeup, NEW t \in Thread, Worker(t)
  PROVE  NoLostWakeup'
<1> SUFFICES ASSUME dpc' = "asleep", tstate' = "sleeping", AllComplete'
             PROVE  \E u \in Thread : pc'[u] = "wake" /\ u \notin wild'
  BY DEF NoLostWakeup
<1>1. dpc = "asleep" /\ should_run' = should_run
  BY WorkerFrame
<1>2. CASE Complete(t)
  BY <1>2 DEF Complete, Moves, TypeOK, WorkerPc
<1>3. CASE ~Complete(t)
  <2>1. complete_run' = complete_run
    BY <1>3 DEF Worker, Barrier, Measure, Notify, Forked, Arrive, LeaveSpin,
                CheckPasses, CheckFails, ExitOnBug, Start, Bench, BenchFails,
                Finish, RecordRunDelay, WakeUp, Return, GoWild, countVars
  <2>2. ~WakeUp(t)
    BY DEF WakeUp
  <2>3. tstate = "sleeping"
    BY <1>3, <2>2 DEF Worker, Barrier, Measure, Notify, Forked, Arrive,
                LeaveSpin, CheckPasses, CheckFails, ExitOnBug, Start, Bench,
                BenchFails, Finish, RecordRunDelay, Complete, Return, GoWild
  <2>4. PICK u \in Thread : pc[u] = "wake" /\ u \notin wild
    BY <1>1, <2>1, <2>3 DEF NoLostWakeup, AllComplete
  <2>5. u # t
    BY <1>1, <1>3, <2>2, <2>4
       DEF Worker, Barrier, Measure, Notify, Forked, Arrive, LeaveSpin,
           CheckPasses, CheckFails, ExitOnBug, Start, Bench, BenchFails,
           Finish, RecordRunDelay, Complete, Return, GoWild, Moves, InFreed,
           UsesArgs
  <2>6. pc'[u] = "wake" /\ u \notin wild'
    BY <2>4, <2>5, WorkerFrame DEF GoWild
  <2> QED BY <2>6
<1> QED BY <1>2, <1>3

LEMMA DriverKeepsWakeup ==
  ASSUME TypeOK, NoLostWakeup, Driver
  PROVE  NoLostWakeup'
<1> SUFFICES ASSUME dpc' = "asleep", AllComplete'
             PROVE  FALSE
  BY DEF NoLostWakeup
<1>1. GoToSleep
  BY DriverSleepsOnTest
<1> QED BY <1>1 DEF GoToSleep, waitFrame, countVars, AllComplete

\* wait_complete loses no wake-up (ipi_bench.c:142-143, 243-245), whatever
\* the parameters, the faults and the number of CPUs.
THEOREM WakeupsKept == Spec => []NoLostWakeup
<1>1. Init => NoLostWakeup
  BY DEF Init, NoLostWakeup
<1>2. TypeOK /\ NoLostWakeup /\ [Next]_vars => NoLostWakeup'
  <2> SUFFICES ASSUME TypeOK, NoLostWakeup, [Next]_vars PROVE NoLostWakeup'
    OBVIOUS
  <2>1. CASE Driver
    BY <2>1, DriverKeepsWakeup
  <2>2. CASE \E t \in Thread : Worker(t)
    BY <2>2, WorkerKeepsWakeup
  <2>3. CASE UNCHANGED vars
    BY <2>3 DEF vars, NoLostWakeup, AllComplete
  <2> QED BY <2>1, <2>2, <2>3 DEF Next, Terminated
<1> QED BY <1>1, <1>2, TypeCorrect, PTL DEF Spec
-----------------------------------------------------------------------------
(***************************************************************************)
(* The barrier.  When insmod is given at most one options flag, BarrierInv *)
(* is inductive: ready_to_run counts arrived workers of one case only, so  *)
(* it reaches should_run exactly when the last of them arrives.            *)
(***************************************************************************)
LEMMA SlotsArePlain == Slot \subseteq Int
  BY DEF Slot

LEMMA ThreadPair ==
  /\ \A t \in Thread : t = <<t[1], t[2]>> /\ t[1] \in Case /\ t[2] \in Slot
  /\ \A c \in Case, i \in Slot : <<c, i>> \in Thread
  BY DEF Thread

\* The arrived workers fit in 1 .. should_run, and fill it when they are as
\* many.
LEMMA ArrivedBound ==
  ASSUME TypeOK, OnlyCurRuns, ready_to_run = Cardinality(ArrivedSlots)
  PROVE  /\ IsFiniteSet(ArrivedSlots)
         /\ ready_to_run <= should_run
         /\ ready_to_run = should_run => ArrivedSlots = 1 .. should_run
<1>1. ArrivedSlots \subseteq 1 .. should_run
  <2> SUFFICES ASSUME NEW i \in ArrivedSlots PROVE i \in 1 .. should_run
    OBVIOUS
  <2>1. i \in Slot /\ <<cur, i>> \in Thread /\ pc[<<cur, i>>] # "none"
    BY DEF ArrivedSlots, Arrived, BeforeBarrier
  <2>2. i <= should_run
    BY <2>1 DEF OnlyCurRuns
  <2> QED BY <2>1, <2>2 DEF Slot, TypeOK
<1>2. IsFiniteSet(1 .. should_run) /\ Cardinality(1 .. should_run) = should_run
  <2>1. should_run \in Nat /\ should_run \in Int
    BY DEF TypeOK
  <2>2. /\ IsFiniteSet(1 .. should_run)
        /\ Cardinality(1 .. should_run)
             = IF 1 > should_run THEN 0 ELSE should_run - 1 + 1
    BY <2>1, FS_Interval
  <2> QED BY <2>1, <2>2
<1> QED BY <1>1, <1>2, FS_Subset

\* Nobody runs yet: the counting is trivial, and stays so when pc stays.
LEMMA QuietStep ==
  ASSUME BarrierInv, \A t \in Thread : pc[t] = "none",
         pc' = pc, ready_to_run' = ready_to_run
  PROVE  /\ OnlyCurRuns'
         /\ ready_to_run' = Cardinality(ArrivedSlots')
         /\ PastMeansAll'
<1>1. ArrivedSlots = {} /\ ArrivedSlots' = {}
  BY DEF ArrivedSlots, Arrived, BeforeBarrier
<1>2. ready_to_run' = Cardinality(ArrivedSlots')
  BY <1>1 DEF BarrierInv
<1>3. \A t \in Thread : pc'[t] = "none"
  OBVIOUS
<1>4. OnlyCurRuns'
  BY <1>3 DEF OnlyCurRuns
<1>5. PastMeansAll'
  BY <1>3 DEF PastMeansAll, BeforeBarrier
<1> QED BY <1>2, <1>4, <1>5

\* Workers may run, but neither they nor what they are compared with change.
LEMMA SteadyStep ==
  ASSUME TypeOK, BarrierInv,
         UNCHANGED <<param, todo, cur, should_run, ready_to_run, pc>>,
         dpc' \notin {"init", "alloc", "build"},
         dpc' = "spawn" => dpc = "spawn" /\ idx' = idx + 1
  PROVE  /\ OnlyCurRuns'
         /\ ready_to_run' = Cardinality(ArrivedSlots')
         /\ PastMeansAll'
<1>1. Count(cur)' = Count(cur)
  BY DEF Count
<1>2. ArrivedSlots' = ArrivedSlots
  BY DEF ArrivedSlots, Arrived
<1>3. OnlyCurRuns'
  <2> SUFFICES ASSUME NEW t \in Thread, pc[t] # "none"
               PROVE  /\ dpc' \notin {"init", "alloc", "build"}
                      /\ todo' = {}
                      /\ should_run' = Count(cur)'
                      /\ t[1] = cur' /\ t[2] <= should_run'
                      /\ dpc' = "spawn" => t[2] < idx'
    BY DEF OnlyCurRuns
  <2>1. dpc' = "spawn" => t[2] < idx'
    <3>1. t[2] \in Int /\ idx \in Int
      BY ThreadPair, SlotsArePlain DEF TypeOK
    <3> QED BY <3>1 DEF BarrierInv, OnlyCurRuns
  <2> QED BY <1>1, <2>1 DEF BarrierInv, OnlyCurRuns
<1> QED BY <1>2, <1>3 DEF BarrierInv, PastMeansAll

LEMMA BarrierInit == Init => BarrierInv
<1> SUFFICES ASSUME Init PROVE BarrierInv
  OBVIOUS
<1>1. \A t \in Thread : pc[t] = "none"
  BY DEF Init
<1>2. ArrivedSlots = {}
  BY <1>1 DEF ArrivedSlots, Arrived, BeforeBarrier
<1>3. ready_to_run = Cardinality(ArrivedSlots)
  BY <1>2, FS_EmptySet DEF Init
<1>4. OnlyCurRuns
  BY <1>1 DEF OnlyCurRuns
<1>5. PastMeansAll
  BY <1>1 DEF PastMeansAll, BeforeBarrier
<1> QED BY <1>3, <1>4, <1>5 DEF Init, BarrierInv

LEMMA BarrierLoad ==
  ASSUME OneCaseOnly, TypeOK, BarrierInv, Load
  PROVE  BarrierInv'
<1> USE DEF driverVars, countVars, placeVars, workVars
<1>1. CASE RejectParams
  <2>1. \A t \in Thread : pc[t] = "none"
    BY <1>1 DEF RejectParams, BarrierInv, OnlyCurRuns
  <2>2. OnlyCurRuns' /\ ready_to_run' = Cardinality(ArrivedSlots') /\ PastMeansAll'
    BY <1>1, <2>1, QuietStep DEF RejectParams
  <2> QED BY <1>1, <2>2 DEF RejectParams, BarrierInv
<1>2. CASE InitParams
  <2>1. \A t \in Thread : pc[t] = "none"
    BY <1>2 DEF InitParams, BarrierInv, OnlyCurRuns
  <2>2. OnlyCurRuns' /\ ready_to_run' = Cardinality(ArrivedSlots') /\ PastMeansAll'
    BY <1>2, <2>1, QuietStep DEF InitParams
  <2>3. param'.options = param.options /\ asked' = asked /\ todo' = param.options
    BY <1>2 DEF InitParams, TypeOK, ParamType
  <2> QED BY <1>2, <2>2, <2>3 DEF InitParams, BarrierInv
<1>3. CASE NextCase
  <2>1. \A t \in Thread : pc[t] = "none"
    BY <1>3 DEF NextCase, BarrierInv, OnlyCurRuns
  <2>2. OnlyCurRuns' /\ ready_to_run' = Cardinality(ArrivedSlots') /\ PastMeansAll'
    BY <1>3, <2>1, QuietStep DEF NextCase
  <2>3. \A c, d \in todo : c = d
    BY DEF BarrierInv, OneCaseOnly
  <2>4. todo' = {}
    BY <1>3, <2>3, NextCaseTaken DEF NextCase
  <2> QED BY <1>3, <2>2, <2>4 DEF NextCase, BarrierInv
<1>4. CASE Unload
  <2>1. OnlyCurRuns' /\ ready_to_run' = Cardinality(ArrivedSlots') /\ PastMeansAll'
    BY <1>4, SteadyStep DEF Unload
  <2> QED BY <1>4, <2>1 DEF Unload, BarrierInv
<1> QED BY <1>1, <1>2, <1>3, <1>4 DEF Load

LEMMA BarrierPrepare ==
  ASSUME TypeOK, BarrierInv, Prepare
  PROVE  BarrierInv'
<1> USE DEF driverVars, countVars, placeVars, workVars
<1>1. CASE NoMemory
  <2>1. \A t \in Thread : pc[t] = "none"
    BY <1>1 DEF NoMemory, BarrierInv, OnlyCurRuns
  <2>2. OnlyCurRuns' /\ ready_to_run' = Cardinality(ArrivedSlots') /\ PastMeansAll'
    BY <1>1, <2>1, QuietStep DEF NoMemory
  <2>3. Count(cur)' = Count(cur)
    BY <1>1 DEF NoMemory, Count
  <2> QED BY <1>1, <2>2, <2>3 DEF NoMemory, BarrierInv
<1>2. CASE Alloc
  <2>1. \A t \in Thread : pc[t] = "none"
    BY <1>2 DEF Alloc, BarrierInv, OnlyCurRuns
  <2>2. OnlyCurRuns' /\ ready_to_run' = Cardinality(ArrivedSlots') /\ PastMeansAll'
    BY <1>2, <2>1, QuietStep DEF Alloc
  <2>3. Count(cur)' = Count(cur)
    BY <1>2 DEF Alloc, Count
  <2> QED BY <1>2, <2>2, <2>3 DEF Alloc, BarrierInv, ShouldRun
<1>3. CASE BuildPair
  <2>1. \A t \in Thread : pc[t] = "none"
    BY <1>3 DEF BuildPair, BarrierInv, OnlyCurRuns
  <2>2. OnlyCurRuns' /\ ready_to_run' = Cardinality(ArrivedSlots') /\ PastMeansAll'
    BY <1>3, <2>1, QuietStep DEF BuildPair
  <2>3. Count(cur)' = Count(cur)
    BY <1>3 DEF BuildPair, Count
  <2> QED BY <1>3, <2>2, <2>3 DEF BuildPair, BarrierInv
<1>4. CASE BuildBroadcaster
  <2>1. \A t \in Thread : pc[t] = "none"
    BY <1>4 DEF BuildBroadcaster, BarrierInv, OnlyCurRuns
  <2>2. OnlyCurRuns' /\ ready_to_run' = Cardinality(ArrivedSlots') /\ PastMeansAll'
    BY <1>4, <2>1, QuietStep DEF BuildBroadcaster
  <2>3. Count(cur)' = Count(cur)
    BY <1>4 DEF BuildBroadcaster, Count
  <2> QED BY <1>4, <2>2, <2>3 DEF BuildBroadcaster, BarrierInv
<1>5. CASE BuildFails \/ BuildOops
  <2>1. \A t \in Thread : pc[t] = "none"
    BY <1>5 DEF BuildFails, BuildOops, BarrierInv, OnlyCurRuns
  <2>2. OnlyCurRuns' /\ ready_to_run' = Cardinality(ArrivedSlots') /\ PastMeansAll'
    BY <1>5, <2>1, QuietStep DEF BuildFails, BuildOops
  <2>3. Count(cur)' = Count(cur)
    BY <1>5 DEF BuildFails, BuildOops, Count
  <2> QED BY <1>5, <2>2, <2>3 DEF BuildFails, BuildOops, BarrierInv
<1>6. CASE BuildDone
  <2>1. \A t \in Thread : pc[t] = "none"
    BY <1>6 DEF BuildDone, BarrierInv, OnlyCurRuns
  <2>2. OnlyCurRuns' /\ ready_to_run' = Cardinality(ArrivedSlots') /\ PastMeansAll'
    BY <1>6, <2>1, QuietStep DEF BuildDone
  <2>3. Count(cur)' = Count(cur)
    BY <1>6 DEF BuildDone, Count
  <2> QED BY <1>6, <2>2, <2>3 DEF BuildDone, BarrierInv
<1>7. CASE Spawn
  <2> DEFINE new == <<cur, idx>>
  <2>1. /\ dpc = "spawn" /\ dpc' = "spawn" /\ idx <= Count(cur) /\ idx' = idx + 1
        /\ pc' = [pc EXCEPT ![new] = "forked"]
        /\ UNCHANGED <<asked, param, todo, cur, should_run, ready_to_run>>
    BY <1>7 DEF Spawn
  <2>2. new \in Thread => pc[new] = "none"
    <3> SUFFICES ASSUME new \in Thread, pc[new] # "none" PROVE FALSE
      OBVIOUS
    <3>1. new[2] < idx
      BY <2>1 DEF BarrierInv, OnlyCurRuns
    <3> QED BY <3>1 DEF TypeOK
  <2>3. \A t \in Thread : pc'[t] = IF t = new THEN "forked" ELSE pc[t]
    BY <2>1 DEF TypeOK
  <2>4. Arrived' = Arrived
    BY <2>2, <2>3 DEF Arrived, BeforeBarrier
  <2>5. ArrivedSlots' = ArrivedSlots
    BY <2>1, <2>4 DEF ArrivedSlots
  <2>6. should_run = Count(cur) /\ Count(cur)' = Count(cur) /\ todo' = {}
    BY <2>1 DEF BarrierInv, Count
  <2>7. OnlyCurRuns'
    <3> SUFFICES ASSUME NEW t \in Thread, pc'[t] # "none"
                 PROVE  t[1] = cur /\ t[2] <= should_run /\ t[2] < idx + 1
      BY <2>1, <2>6 DEF OnlyCurRuns
    <3>1. t[2] \in Int /\ idx \in Int
      BY ThreadPair, SlotsArePlain DEF TypeOK
    <3>2. CASE t = new
      BY <2>1, <2>6, <3>1, <3>2
    <3>3. CASE t # new
      BY <2>1, <2>3, <3>1, <3>3 DEF BarrierInv, OnlyCurRuns
    <3> QED BY <3>2, <3>3
  <2>8. PastMeansAll'
    BY <2>1, <2>3 DEF BarrierInv, PastMeansAll, BeforeBarrier
  <2> QED BY <2>1, <2>5, <2>6, <2>7, <2>8 DEF BarrierInv
<1>8. CASE SpawnFails
  <2>1. OnlyCurRuns' /\ ready_to_run' = Cardinality(ArrivedSlots') /\ PastMeansAll'
    BY <1>8, SteadyStep DEF SpawnFails
  <2>2. Count(cur)' = Count(cur)
    BY <1>8 DEF SpawnFails, Count
  <2> QED BY <1>8, <2>1, <2>2 DEF SpawnFails, BarrierInv
<1>9. CASE SpawnDone
  <2>1. OnlyCurRuns' /\ ready_to_run' = Cardinality(ArrivedSlots') /\ PastMeansAll'
    BY <1>9, SteadyStep DEF SpawnDone
  <2>2. Count(cur)' = Count(cur)
    BY <1>9 DEF SpawnDone, Count
  <2> QED BY <1>9, <2>1, <2>2 DEF SpawnDone, BarrierInv
<1> QED BY <1>1, <1>2, <1>3, <1>4, <1>5, <1>6, <1>7, <1>8, <1>9 DEF Prepare

\* Waiting and reporting change nothing that BarrierInv speaks of but dpc.
LEMMA BarrierWaitReport ==
  ASSUME TypeOK, BarrierInv, WaitAll \/ Report
  PROVE  BarrierInv'
<1>1. /\ UNCHANGED <<asked, param, todo, cur, should_run, ready_to_run, pc>>
      /\ dpc \notin {"init", "next", "alloc", "build", "spawn"}
      /\ dpc' \notin {"init", "alloc", "build", "spawn"}
  BY DEF driverVars, countVars, workVars, placeVars, waitFrame, StartReport,
         WaitAll, WaitOver, MustWait, PrepareToWait, GoToSleep, WokenUp,
         Timeout, Signal, Report, ReportStart, ReportRest, Free
<1>2. OnlyCurRuns' /\ ready_to_run' = Cardinality(ArrivedSlots') /\ PastMeansAll'
  BY <1>1, SteadyStep
<1> QED BY <1>1, <1>2 DEF BarrierInv

\* A worker's step: only Arrive changes who has arrived.
LEMMA BarrierWorker ==
  ASSUME TypeOK, BarrierInv, NEW t \in Thread, Worker(t)
  PROVE  BarrierInv'
<1>1. /\ UNCHANGED <<asked, param, dpc, todo, cur, idx, should_run>>
      /\ \A u \in Thread \ {t} : pc'[u] = pc[u]
      /\ pc' \in [Thread -> WorkerPc]
  BY WorkerFrame, TypeWorker DEF TypeOK
<1>2. GoWild(t) => pc'[t] = pc[t] /\ ready_to_run' = ready_to_run
  BY DEF GoWild, countVars
<1>3. pc[t] # "none"
  BY DEF Worker, Barrier, Measure, Notify, Forked, Arrive, LeaveSpin,
         CheckPasses, CheckFails, ExitOnBug, Start, Bench, BenchFails, Finish,
         RecordRunDelay, Complete, WakeUp, Return, GoWild, Moves, Alive
<1>4. Count(cur)' = Count(cur)
  BY <1>1 DEF Count
<1>5. OnlyCurRuns'
  <2> SUFFICES ASSUME NEW u \in Thread, pc'[u] # "none"
               PROVE  /\ dpc \notin {"init", "alloc", "build"}
                      /\ todo = {}
                      /\ should_run = Count(cur)
                      /\ u[1] = cur /\ u[2] <= should_run
                      /\ dpc = "spawn" => u[2] < idx
    BY <1>1, <1>4 DEF OnlyCurRuns
  <2>1. pc[u] # "none"
    BY <1>1, <1>3
  <2> QED BY <2>1 DEF BarrierInv, OnlyCurRuns
<1>6. t[1] = cur /\ t[2] \in Slot /\ t[2] <= should_run /\ t = <<cur, t[2]>>
  BY <1>3, ThreadPair DEF BarrierInv, OnlyCurRuns
<1>7. ASSUME ready_to_run' = ready_to_run,
             pc[t] \in BeforeBarrier <=> pc'[t] \in BeforeBarrier
      PROVE  ready_to_run' = Cardinality(ArrivedSlots')
  <2>1. Arrived' = Arrived
    BY <1>1, <1>7 DEF Arrived
  <2> QED BY <1>1, <1>7, <2>1 DEF ArrivedSlots, BarrierInv
<1>8. CASE Arrive(t)
  <2>1. /\ pc[t] = "arrive" /\ pc'[t] = "spin"
        /\ ready_to_run' = ready_to_run + 1
    BY <1>8 DEF Arrive, Moves, TypeOK
  <2>2. t[2] \notin ArrivedSlots /\ ArrivedSlots' = ArrivedSlots \cup {t[2]}
    <3>1. Arrived' = Arrived \cup {t} /\ t \notin Arrived
      BY <1>1, <2>1 DEF Arrived, BeforeBarrier
    <3>2. \A i \in Slot : <<cur, i>> = t <=> i = t[2]
      BY <1>6
    <3> QED BY <1>1, <1>6, <3>1, <3>2 DEF ArrivedSlots
  <2>3. /\ IsFiniteSet(ArrivedSlots)
        /\ ready_to_run = should_run => ArrivedSlots = 1 .. should_run
    BY ArrivedBound DEF BarrierInv
  <2>4. ready_to_run' = Cardinality(ArrivedSlots')
    BY <2>1, <2>2, <2>3, FS_AddElement DEF BarrierInv
  <2>5. ready_to_run # should_run
    <3>1. t[2] \in 1 .. should_run
      BY <1>6 DEF Slot, TypeOK
    <3> QED BY <2>2, <2>3, <3>1
  <2>6. PastMeansAll'
    BY <1>1, <2>1, <2>5 DEF BarrierInv, PastMeansAll, BeforeBarrier
  <2> QED BY <1>1, <1>4, <1>5, <2>4, <2>6 DEF BarrierInv
<1>9. CASE LeaveSpin(t)
  <2>1. /\ pc[t] = "spin" /\ pc'[t] = "check"
        /\ ready_to_run' = ready_to_run /\ ready_to_run >= should_run
    BY <1>9 DEF LeaveSpin, SpinOver, Moves, TypeOK
  <2>2. ready_to_run = should_run
    BY <2>1, ArrivedBound DEF BarrierInv, TypeOK
  <2>3. PastMeansAll'
    BY <1>1, <2>1, <2>2 DEF BarrierInv, PastMeansAll, BeforeBarrier
  <2> QED BY <1>1, <1>4, <1>5, <1>7, <2>1, <2>3 DEF BarrierInv, BeforeBarrier
<1>10. CASE Forked(t)
  <2>1. pc[t] = "forked" /\ pc'[t] = "arrive" /\ ready_to_run' = ready_to_run
    BY <1>10 DEF Forked, Moves, TypeOK
  <2>2. PastMeansAll'
    BY <1>1, <2>1 DEF BarrierInv, PastMeansAll, BeforeBarrier
  <2> QED BY <1>1, <1>4, <1>5, <1>7, <2>1, <2>2 DEF BarrierInv, BeforeBarrier
<1>11. CASE GoWild(t)
  <2>1. PastMeansAll'
    BY <1>1, <1>2, <1>11 DEF BarrierInv, PastMeansAll
  <2> QED BY <1>1, <1>2, <1>4, <1>5, <1>7, <1>11, <2>1 DEF BarrierInv
<1>12. CASE ~Arrive(t) /\ ~LeaveSpin(t) /\ ~Forked(t) /\ ~GoWild(t)
  <2>1. /\ pc[t] \in WorkerPc \ (BeforeBarrier \cup {"spin"})
        /\ ready_to_run' = ready_to_run
    BY <1>12 DEF Worker, Barrier, Measure, Notify, CheckPasses, CheckFails,
         ExitOnBug, Start, Bench, BenchFails, Finish, RecordRunDelay, Complete,
         WakeUp, Return, Moves, WorkerPc, BeforeBarrier
  <2>2. ready_to_run = should_run /\ pc[t] # "bug"
    BY <2>1 DEF BarrierInv, PastMeansAll
  <2>3. pc'[t] \notin BeforeBarrier \cup {"spin", "bug", "bugged"}
    BY <1>12, <2>2 DEF Worker, Barrier, Measure, Notify, CheckPasses,
         CheckFails, ExitOnBug, Start, Bench, BenchFails, Finish,
         RecordRunDelay, Complete, WakeUp, Return, Moves, BeforeBarrier, TypeOK
  <2>4. PastMeansAll'
    BY <1>1, <2>1, <2>2, <2>3 DEF BarrierInv, PastMeansAll
  <2> QED BY <1>1, <1>4, <1>5, <1>7, <2>1, <2>3, <2>4 DEF BarrierInv
<1> QED BY <1>8, <1>9, <1>10, <1>11, <1>12

\* BarrierInv is an invariant when insmod runs at most one case.
THEOREM BarrierInductive ==
  ASSUME OneCaseOnly
  PROVE  Spec => []BarrierInv
<1>1. TypeOK /\ BarrierInv /\ [Next]_vars => BarrierInv'
  <2> SUFFICES ASSUME TypeOK, BarrierInv, [Next]_vars PROVE BarrierInv'
    OBVIOUS
  <2>1. CASE Driver
    BY <2>1, BarrierLoad, BarrierPrepare, BarrierWaitReport DEF Driver
  <2>2. CASE \E t \in Thread : Worker(t)
    BY <2>2, BarrierWorker
  <2>3. CASE UNCHANGED vars
    <3>1. ArrivedSlots' = ArrivedSlots /\ Count(cur)' = Count(cur)
      BY <2>3 DEF vars, ArrivedSlots, Arrived, Count
    <3> QED BY <2>3, <3>1 DEF vars, BarrierInv, OnlyCurRuns, PastMeansAll
  <2> QED BY <2>1, <2>2, <2>3 DEF Next, Terminated
<1> QED BY <1>1, BarrierInit, TypeCorrect, PTL DEF Spec

\* "let all threads run at the same time" (ipi_bench.c:128-134): with one
\* options flag, whatever the machine and the faults, no worker passes the
\* barrier before all have come.
THEOREM BarrierSafe ==
  ASSUME OneCaseOnly
  PROVE  Spec => []BarrierHolds
<1>1. TypeOK /\ BarrierInv => BarrierHolds
  <2> SUFFICES ASSUME TypeOK, BarrierInv, NEW t \in Thread, Past(t),
                      NEW i \in 1 .. Count(t[1])
               PROVE  <<t[1], i>> \in Arrived
    BY DEF BarrierHolds
  <2>1. pc[t] \notin BeforeBarrier \cup {"spin"} /\ pc[t] # "none"
    BY DEF Past, AtBarrier, BeforeBarrier
  <2>2. ready_to_run = should_run /\ should_run = Count(cur) /\ t[1] = cur
    BY <2>1 DEF BarrierInv, PastMeansAll, OnlyCurRuns
  <2>3. ArrivedSlots = 1 .. Count(cur)
    BY <2>2, ArrivedBound DEF BarrierInv
  <2> QED BY <2>2, <2>3 DEF ArrivedSlots
<1> QED BY <1>1, BarrierInductive, TypeCorrect, PTL

\* "BUG, exit benchmark" (ipi_bench.c:131-134) is never found by any worker,
\* on the same terms.
THEOREM BugNeverFound ==
  ASSUME OneCaseOnly
  PROVE  Spec => []NoBugExit
<1>1. BarrierInv => NoBugExit
  BY DEF BarrierInv, PastMeansAll, NoBugExit, BeforeBarrier
<1> QED BY <1>1, BarrierInductive, PTL
=============================================================================
