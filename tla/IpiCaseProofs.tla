---------------------------- MODULE IpiCaseProofs ----------------------------
(***************************************************************************)
(* Theorems about the life of one case of ipi-bench: what insmod finds     *)
(* when its wait ends, when the arguments may be freed, what is reported,  *)
(* and on which CPUs the workers run.                                      *)
(***************************************************************************)
EXTENDS IpiBenchProofs

\* No timer and no signal ends the wait for the workers early.
Patient == Faults \cap {"timeout", "signal"} = {}

Done      == {"wake", "ret", "ended"}
Reporting == {"report", "report_rest"}
Working   == {"spawn", "check", "prepare", "recheck", "asleep"} \cup Reporting

Completed == {i \in Slot : pc[<<cur, i>>] \in Done}

(***************************************************************************)
(* What the wait is worth: complete_run counts the workers of the case     *)
(* that have nothing left but to wake insmod and to return, and when the   *)
(* report begins these are all there are.                                  *)
(***************************************************************************)
AllDone == \A t \in Thread : pc[t] \in Done \cup {"none"}

CountedInv ==
  /\ complete_run = Cardinality(Completed)
  /\ dpc \in Working => should_run = Count(cur)
  /\ dpc \in Reporting => Completed = 1 .. Count(cur)
  /\ dpc \in Reporting \cup {"next", "gone"} => AllDone

\* Only the case that runs has arguments, and they are freed at its end.
FreedInv ==
  /\ dpc = "init" \/ todo # {} => \A c \in Case : mem[c] = "none"
  /\ \A c \in Case : mem[c] # "none" => c = cur
  /\ dpc = "alloc" => mem[cur] = "none"
  /\ mem[cur] = "freed" => dpc \in {"next", "gone"}

WildInv == \A t \in wild : pc[t] \in {"wake", "ret"}

-----------------------------------------------------------------------------
\* A step of insmod moves no worker, but creates one.
LEMMA DriverFrame ==
  ASSUME Driver
  PROVE  /\ UNCHANGED <<asked, ready_to_run, complete_run, ba, wild>>
         /\ Spawn \/ pc' = pc
         /\ NextCase \/ cur' = cur
         /\ InitParams \/ param' = param
         /\ Alloc \/ should_run' = should_run
<1> USE DEF driverVars, countVars, placeVars, workVars
<1>1. CASE Load
  BY <1>1 DEF Load, RejectParams, InitParams, NextCase, Unload
<1>2. CASE Prepare
  BY <1>2 DEF Prepare, NoMemory, Alloc, BuildPair, BuildBroadcaster,
     BuildFails, BuildOops, BuildDone, Spawn, SpawnFails,
     SpawnDone
<1>3. CASE WaitAll
  BY <1>3 DEF WaitAll, WaitOver, MustWait, PrepareToWait, GoToSleep, WokenUp,
     Timeout, Signal, waitFrame
<1>4. CASE Report
  BY <1>4 DEF Report, ReportStart, ReportRest, Free
<1> QED BY <1>1, <1>2, <1>3, <1>4 DEF Driver

\* The worker that Spawn creates did not exist.
LEMMA SpawnedIsNew ==
  ASSUME TypeOK, BarrierInv, Spawn
  PROVE  /\ \A t \in Thread :
              pc'[t] = IF t = <<cur, idx>> THEN "forked" ELSE pc[t]
         /\ <<cur, idx>> \in Thread => pc[<<cur, idx>>] = "none"
<1> DEFINE new == <<cur, idx>>
<1>1. dpc = "spawn" /\ pc' = [pc EXCEPT ![new] = "forked"]
  BY DEF Spawn
<1>2. ASSUME new \in Thread, pc[new] # "none" PROVE FALSE
  <2>1. new[2] < idx
    BY <1>1, <1>2 DEF BarrierInv, OnlyCurRuns
  <2> QED BY <2>1 DEF TypeOK
<1> QED BY <1>1, <1>2 DEF TypeOK

\* Nobody runs while insmod is not yet ready to create the workers.
LEMMA NobodyYet ==
  ASSUME BarrierInv, dpc \in {"init", "alloc", "build"} \/ todo # {}
  PROVE  \A t \in Thread : pc[t] = "none"
  BY DEF BarrierInv, OnlyCurRuns

\* Only a worker that has been created takes a step.
LEMMA MoverExists ==
  ASSUME NEW t \in Thread, Worker(t)
  PROVE  pc[t] # "none"
  BY DEF Worker, Barrier, Measure, Notify, Forked, Arrive, LeaveSpin,
     CheckPasses, CheckFails, ExitOnBug, Start, Bench, BenchFails, Finish,
     RecordRunDelay, Complete, WakeUp, Return, GoWild, Moves, Alive

\* The completed workers fit in 1 .. should_run.
LEMMA CompletedBound ==
  ASSUME TypeOK, BarrierInv
  PROVE  /\ IsFiniteSet(Completed)
         /\ Completed \subseteq 1 .. should_run
         /\ Cardinality(Completed) = should_run => Completed = 1 .. should_run
<1>1. Completed \subseteq 1 .. should_run
  <2> SUFFICES ASSUME NEW i \in Completed PROVE i \in 1 .. should_run
    OBVIOUS
  <2>1. i \in Slot /\ <<cur, i>> \in Thread /\ pc[<<cur, i>>] # "none"
    BY ThreadPair DEF Completed, Done, TypeOK
  <2>2. i <= should_run
    BY <2>1 DEF BarrierInv, OnlyCurRuns
  <2> QED BY <2>1, <2>2 DEF Slot, TypeOK
<1>2. IsFiniteSet(1 .. should_run) /\ Cardinality(1 .. should_run) = should_run
  <2>1. should_run \in Nat /\ should_run \in Int
    BY DEF TypeOK
  <2>2. /\ IsFiniteSet(1 .. should_run)
        /\ Cardinality(1 .. should_run)
             = IF 1 > should_run THEN 0 ELSE should_run - 1 + 1
    BY <2>1, FS_Interval
  <2> QED BY <2>1, <2>2
<1> QED BY <1>1, <1>2, FS_Subset

\* When all have completed, no worker has anything else to do.
LEMMA AllCompletedDone ==
  ASSUME TypeOK, BarrierInv, Completed = 1 .. should_run
  PROVE  AllDone
<1> SUFFICES ASSUME NEW t \in Thread, pc[t] # "none" PROVE pc[t] \in Done
  BY DEF AllDone
<1>1. t = <<cur, t[2]>> /\ t[2] \in Slot /\ t[2] <= should_run
  BY ThreadPair DEF BarrierInv, OnlyCurRuns
<1>2. t[2] \in 1 .. should_run
  BY <1>1 DEF Slot, TypeOK
<1> QED BY <1>1, <1>2 DEF Completed

LEMMA CompletedSteady ==
  ASSUME TypeOK, BarrierInv, Driver
  PROVE  Completed' = Completed
<1>1. CASE NextCase
  <2>1. \A t \in Thread : pc[t] = "none" /\ pc'[t] = "none"
    BY <1>1, NobodyYet DEF NextCase, workVars
  <2>2. cur \in Case /\ cur' \in Case
    BY <1>1, TypeLoad DEF TypeOK, Load
  <2> QED BY <2>1, <2>2, ThreadPair DEF Completed, Done
<1>2. CASE Spawn
  <2>1. cur' = cur /\ cur \in Case
    BY <1>2 DEF Spawn, driverVars, TypeOK
  <2> QED BY <1>2, <2>1, SpawnedIsNew, ThreadPair DEF Completed, Done
<1>3. CASE ~NextCase /\ ~Spawn
  BY <1>3, DriverFrame DEF Completed
<1> QED BY <1>1, <1>2, <1>3

\* The worker's step that counts, and those that do not.
LEMMA CompletedWorker ==
  ASSUME TypeOK, BarrierInv, NEW t \in Thread, Worker(t)
  PROVE  \/ /\ Complete(t) /\ complete_run' = complete_run + 1
            /\ pc[t] = "complete" /\ pc'[t] = "wake"
            /\ t[2] \in Slot \ Completed /\ Completed' = Completed \cup {t[2]}
         \/ /\ ~Complete(t) /\ complete_run' = complete_run
            /\ pc[t] \in Done <=> pc'[t] \in Done
            /\ Completed' = Completed
<1>1. /\ cur' = cur /\ \A u \in Thread \ {t} : pc'[u] = pc[u]
  BY WorkerFrame
<1>2. pc[t] # "none"
  BY MoverExists
<1>3. t = <<cur, t[2]>> /\ t[2] \in Slot /\ cur \in Case
  BY <1>2, ThreadPair DEF BarrierInv, OnlyCurRuns, TypeOK
<1>4. \A i \in Slot : <<cur, i>> = t <=> i = t[2]
  BY <1>3
<1>5. \A i \in Slot : <<cur, i>> \in Thread
  BY <1>3, ThreadPair
<1>6. CASE Complete(t)
  <2>1. /\ pc[t] = "complete" /\ pc'[t] = "wake"
        /\ complete_run' = complete_run + 1
    BY <1>6 DEF Complete, Moves, TypeOK
  <2> QED BY <1>1, <1>3, <1>4, <1>5, <1>6, <2>1 DEF Completed, Done
<1>7. CASE ~Complete(t)
  <2>1. /\ complete_run' = complete_run
        /\ pc[t] \in Done <=> pc'[t] \in Done
    BY <1>7 DEF Worker, Barrier, Measure, Notify, Forked, Arrive, LeaveSpin,
         CheckPasses, CheckFails, ExitOnBug, Start, Bench, BenchFails, Finish,
         RecordRunDelay, WakeUp, Return, GoWild, Moves, countVars, Done, TypeOK
  <2> QED BY <1>1, <1>4, <1>5, <1>7, <2>1 DEF Completed
<1> QED BY <1>6, <1>7

-----------------------------------------------------------------------------
\* The wait ends in no other way than by its condition.
LEMMA ReportAfterAll ==
  ASSUME Patient, TypeOK, BarrierInv, CountedInv, WaitAll, dpc' \in Reporting
  PROVE  Completed = 1 .. Count(cur) /\ should_run = Count(cur)
<1>1. WaitOver
  BY DEF Patient, WaitAll, WaitOver, MustWait, PrepareToWait, GoToSleep,
     WokenUp, Timeout, Signal, Reporting
<1>2. complete_run = should_run /\ should_run = Count(cur)
  BY <1>1 DEF WaitOver, AllComplete, CountedInv, Working
<1> QED BY <1>2, CompletedBound DEF CountedInv

LEMMA CountedDriver ==
  ASSUME Patient, TypeOK, BarrierInv, CountedInv, Driver
  PROVE  CountedInv'
<1>1. complete_run' = Cardinality(Completed')
  BY DriverFrame, CompletedSteady DEF CountedInv
<1>2. ASSUME pc' = pc, AllDone PROVE AllDone'
  BY <1>2 DEF AllDone
<1>3. ASSUME \A t \in Thread : pc[t] = "none" PROVE AllDone
  BY <1>3 DEF AllDone
<1>4. CASE Load
  <2>1. /\ dpc' \in {"next", "alloc", "gone"} /\ pc' = pc
        /\ dpc = "init" \/ dpc = "next"
    BY <1>4 DEF Load, RejectParams, InitParams, NextCase, Unload, workVars
  <2>2. AllDone'
    BY <1>2, <1>3, <2>1, NobodyYet DEF CountedInv
  <2> QED BY <1>1, <2>1, <2>2 DEF CountedInv, Working, Reporting
<1>5. CASE Prepare
  <2>1. /\ UNCHANGED <<cur, param>> /\ dpc \in {"alloc", "build", "spawn"}
        /\ dpc' \in {"next", "build", "spawn", "check", "oops"}
    BY <1>5 DEF Prepare, NoMemory, Alloc, BuildPair, BuildBroadcaster,
       BuildFails, BuildOops, BuildDone, Spawn, SpawnFails,
       SpawnDone, driverVars
  <2>2. Count(cur)' = Count(cur)
    BY <2>1 DEF Count
  <2>3. dpc' = "next" => pc' = pc /\ dpc \in {"alloc", "build"}
    BY <1>5, <2>1 DEF Prepare, NoMemory, Alloc, BuildPair, BuildBroadcaster,
       BuildFails, BuildOops, BuildDone, Spawn, SpawnFails,
       SpawnDone, workVars
  <2>4. dpc' = "next" => AllDone'
    BY <1>2, <1>3, <2>3, NobodyYet
  <2>5. dpc' \in Working => should_run' = Count(cur)'
    <3>1. CASE Alloc
      BY <3>1, <2>2 DEF Alloc, ShouldRun
    <3>2. CASE ~Alloc
      <4>1. should_run' = should_run
        BY <3>2, DriverFrame
      <4>2. dpc' \in Working => dpc \in {"build", "spawn"}
        BY <1>5, <3>2 DEF Prepare, NoMemory, BuildPair, BuildBroadcaster,
           BuildFails, BuildOops, BuildDone, Spawn, SpawnFails,
       SpawnDone, Working,
           Reporting
      <4> QED BY <2>2, <4>1, <4>2 DEF BarrierInv
    <3> QED BY <3>1, <3>2
  <2> QED BY <1>1, <2>1, <2>4, <2>5 DEF CountedInv, Working, Reporting
<1>6. CASE WaitAll
  <2>1. /\ UNCHANGED <<cur, param, should_run, pc>> /\ dpc \in Working
        /\ dpc' \in Working
    BY <1>6 DEF WaitAll, WaitOver, MustWait, PrepareToWait, GoToSleep, WokenUp,
       Timeout, Signal, StartReport, waitFrame, driverVars, countVars, workVars,
       Working, Reporting
  <2>2. Count(cur)' = Count(cur)
    BY <2>1 DEF Count
  <2>3. dpc' \in Reporting => Completed' = 1 .. Count(cur)' /\ AllDone'
    BY <1>2, <1>6, <2>1, <2>2, CompletedSteady, ReportAfterAll, AllCompletedDone
  <2> QED BY <1>1, <2>1, <2>2, <2>3 DEF CountedInv, Working, Reporting
<1>7. CASE Report
  <2>1. /\ UNCHANGED <<cur, param, should_run, pc>> /\ dpc \in Reporting
        /\ dpc' \in Reporting \cup {"next"}
    BY <1>7 DEF Report, ReportStart, ReportRest, Free, driverVars, countVars,
       workVars, Reporting
  <2>2. Count(cur)' = Count(cur)
    BY <2>1 DEF Count
  <2> QED BY <1>1, <1>2, <2>1, <2>2, CompletedSteady
          DEF CountedInv, Working, Reporting
<1> QED BY <1>4, <1>5, <1>6, <1>7 DEF Driver

LEMMA CountedWorker ==
  ASSUME TypeOK, BarrierInv, CountedInv, NEW t \in Thread, Worker(t)
  PROVE  CountedInv'
<1>1. /\ UNCHANGED <<dpc, cur, param, should_run>>
      /\ \A u \in Thread \ {t} : pc'[u] = pc[u]
  BY WorkerFrame
<1>2. Count(cur)' = Count(cur)
  BY <1>1 DEF Count
<1>3. IsFiniteSet(Completed)
  BY CompletedBound
<1>4. CASE Complete(t)
  <2>1. /\ complete_run' = complete_run + 1 /\ pc[t] = "complete"
        /\ t[2] \notin Completed /\ Completed' = Completed \cup {t[2]}
    BY <1>4, CompletedWorker
  <2>2. ~AllDone
    BY <2>1 DEF AllDone, Done
  <2>3. complete_run' = Cardinality(Completed')
    BY <1>3, <2>1, FS_AddElement DEF CountedInv
  <2> QED BY <1>1, <1>2, <2>2, <2>3 DEF CountedInv
<1>5. CASE ~Complete(t)
  <2>1. /\ complete_run' = complete_run /\ Completed' = Completed
        /\ pc[t] \in Done <=> pc'[t] \in Done
    BY <1>5, CompletedWorker
  <2>2. pc[t] # "none"
    BY MoverExists
  <2>3. AllDone => AllDone'
    BY <1>1, <2>1, <2>2 DEF AllDone
  <2> QED BY <1>1, <1>2, <2>1, <2>3 DEF CountedInv
<1> QED BY <1>4, <1>5

LEMMA CountedInductive ==
  ASSUME OneCaseOnly, Patient
  PROVE  Spec => []CountedInv
<1>1. Init => CountedInv
  <2> SUFFICES ASSUME Init PROVE CountedInv
    OBVIOUS
  <2>1. \A t \in Thread : pc[t] = "none"
    BY DEF Init
  <2>2. SelfIpi \in Case
    BY DEF Case
  <2>3. Completed = {}
    BY <2>1, <2>2, ThreadPair DEF Completed, Done, Init
  <2> QED BY <2>3, FS_EmptySet DEF Init, CountedInv, Working, Reporting
<1>2. TypeOK /\ BarrierInv /\ CountedInv /\ [Next]_vars => CountedInv'
  <2> SUFFICES ASSUME TypeOK, BarrierInv, CountedInv, [Next]_vars
               PROVE  CountedInv'
    OBVIOUS
  <2>1. CASE UNCHANGED vars
    <3>1. Completed' = Completed /\ Count(cur)' = Count(cur) /\ AllDone' = AllDone
      BY <2>1 DEF vars, Completed, Count, AllDone
    <3> QED BY <2>1, <3>1 DEF vars, CountedInv
  <2> QED BY <2>1, CountedDriver, CountedWorker DEF Next, Terminated
<1> QED BY <1>1, <1>2, TypeCorrect, BarrierInductive, PTL DEF Spec

-----------------------------------------------------------------------------
(***************************************************************************)
(* The life of the arguments.                                              *)
(***************************************************************************)
LEMMA FreedDriver ==
  ASSUME TypeOK, BarrierInv, FreedInv, Driver
  PROVE  FreedInv'
<1>1. TypeOK'
  BY TypeLoad, TypePrepare, TypeWaitAll, TypeReport DEF Driver
<1>2. CASE RejectParams \/ InitParams
  BY <1>2 DEF RejectParams, InitParams, FreedInv, driverVars, TypeOK
<1>3. CASE NextCase
  <2>1. /\ \A c \in Case : mem[c] = "none" /\ mem'[c] = "none"
        /\ dpc' = "alloc"
    BY <1>3 DEF NextCase, FreedInv
  <2> QED BY <1>1, <2>1 DEF FreedInv, TypeOK
<1>4. CASE Unload
  BY <1>4 DEF Unload, FreedInv, driverVars
<1>5. CASE Alloc
  <2>1. /\ todo' = {} /\ cur' = cur /\ cur \in Case
        /\ mem' = [mem EXCEPT ![cur] = "live"]
        /\ dpc' \in {"build", "spawn"}
    BY <1>5 DEF Alloc, BarrierInv, TypeOK
  <2>2. mem'[cur] = "live" /\ \A c \in Case \ {cur} : mem'[c] = mem[c]
    BY <2>1 DEF TypeOK
  <2> QED BY <2>1, <2>2 DEF FreedInv
<1>6. CASE BuildFails \/ Free
  <2>1. /\ todo' = {} /\ cur' = cur /\ cur \in Case
        /\ mem' = [mem EXCEPT ![cur] = "freed"]
        /\ dpc' = "next"
    BY <1>6 DEF BuildFails, Free, BarrierInv, driverVars, TypeOK
  <2>2. \A c \in Case \ {cur} : mem'[c] = mem[c]
    BY <2>1 DEF TypeOK
  <2> QED BY <2>1, <2>2 DEF FreedInv
<1>7. CASE \/ Prepare /\ ~Alloc /\ ~BuildFails
           \/ WaitAll
           \/ Report /\ ~Free
  <2>1. /\ UNCHANGED <<mem, cur, todo>> /\ dpc \notin {"init", "next", "gone"}
        /\ dpc' \notin {"init", "alloc"}
    BY <1>7 DEF Prepare, NoMemory, BuildPair, BuildBroadcaster, BuildOops, BuildDone,
       Spawn, SpawnFails, SpawnDone, WaitAll, WaitOver, MustWait, PrepareToWait,
       GoToSleep, WokenUp, Timeout, Signal, StartReport, waitFrame, Report,
       ReportStart, ReportRest, driverVars
  <2>2. todo = {} /\ mem[cur] # "freed"
    BY <2>1 DEF BarrierInv, FreedInv
  <2> QED BY <2>1, <2>2 DEF FreedInv
<1> QED BY <1>2, <1>3, <1>4, <1>5, <1>6, <1>7 DEF Driver, Load

LEMMA FreedInductive ==
  ASSUME OneCaseOnly
  PROVE  Spec => []FreedInv
<1>1. Init => FreedInv
  BY DEF Init, FreedInv, Case
<1>2. TypeOK /\ BarrierInv /\ FreedInv /\ [Next]_vars => FreedInv'
  <2> SUFFICES ASSUME TypeOK, BarrierInv, FreedInv, [Next]_vars
               PROVE  FreedInv'
    OBVIOUS
  <2>1. CASE Driver
    BY <2>1, FreedDriver
  <2>2. CASE \E t \in Thread : Worker(t)
    <3>1. UNCHANGED <<dpc, cur, todo, mem>>
      BY <2>2, WorkerFrame
    <3> QED BY <3>1 DEF FreedInv
  <2>3. CASE UNCHANGED vars
    BY <2>3 DEF vars, FreedInv
  <2> QED BY <2>1, <2>2, <2>3 DEF Next, Terminated
<1> QED BY <1>1, <1>2, TypeCorrect, BarrierInductive, PTL DEF Spec

\* Whoever finds its memory gone has only to wake insmod or to return.
LEMMA WildInductive ==
  ASSUME OneCaseOnly, Patient
  PROVE  Spec => []WildInv
<1>1. Init => WildInv
  BY DEF Init, WildInv
<1>2. TypeOK /\ BarrierInv /\ CountedInv /\ FreedInv /\ WildInv /\ [Next]_vars
        => WildInv'
  <2> SUFFICES ASSUME TypeOK, BarrierInv, CountedInv, FreedInv, WildInv,
                      [Next]_vars
               PROVE  WildInv'
    OBVIOUS
  <2>1. CASE Spawn
    BY <2>1, SpawnedIsNew DEF Spawn, WildInv, TypeOK
  <2>2. CASE Driver /\ ~Spawn
    BY <2>2, DriverFrame DEF WildInv
  <2>3. ASSUME NEW t \in Thread, Worker(t) PROVE WildInv'
    <3>1. \A u \in Thread \ {t} : pc'[u] = pc[u]
      BY <2>3, WorkerFrame
    <3>2. CASE GoWild(t)
      <4>1. /\ wild' = wild \cup {t} /\ pc' = pc
            /\ pc[t] \notin {"none", "ended"} /\ InFreed(t)
        BY <3>2 DEF GoWild, Alive
      <4>2. AllDone
        <5>1. CASE dpc = "gone"
          BY <5>1 DEF CountedInv
        <5>2. CASE mem[t[1]] = "freed"
          <6>1. t[1] = cur
            BY <5>2, ThreadPair DEF FreedInv
          <6> QED BY <5>2, <6>1 DEF FreedInv, CountedInv
        <5> QED BY <4>1, <5>1, <5>2 DEF InFreed
      <4>3. pc[t] \in {"wake", "ret"}
        BY <4>1, <4>2 DEF AllDone, Done
      <4> QED BY <4>1, <4>3 DEF WildInv
    <3>3. CASE ~GoWild(t)
      <4>1. wild' = wild
        BY <2>3, <3>3, WorkerFrame
      <4>2. t \notin wild
        BY <2>3, <3>3 DEF Worker, Barrier, Measure, Notify, Forked, Arrive,
           LeaveSpin, CheckPasses, CheckFails, ExitOnBug, Start, Bench,
           BenchFails, Finish, RecordRunDelay, Complete, WakeUp, Return, Moves
      <4> QED BY <3>1, <4>1, <4>2 DEF WildInv, TypeOK
    <3> QED BY <3>2, <3>3
  <2>4. CASE UNCHANGED vars
    BY <2>4 DEF vars, WildInv
  <2> QED BY <2>1, <2>2, <2>3, <2>4 DEF Next, Terminated
<1> QED BY <1>1, <1>2, TypeCorrect, BarrierInductive, CountedInductive,
           FreedInductive, PTL DEF Spec

\* The kfree at the end of a case (ipi_bench.c:320, 343, 423, 476) takes its
\* arguments from no worker that has still to use them, as long as neither
\* the timer nor a signal ends the wait (243-245).
THEOREM ArgsSafe ==
  ASSUME OneCaseOnly, Patient
  PROVE  Spec => []ArgsOutliveWorker
<1>1. WildInv => ArgsOutliveWorker
  BY DEF WildInv, ArgsOutliveWorker, UsesArgs
<1> QED BY <1>1, WildInductive, PTL

\* When ipi_bench_init has returned -1 and the module is unloaded
\* (ipi_bench.c:558), workers that still live have only to wake insmod and
\* to return (142-145), whatever kthread or allocation has failed.
THEOREM LateWorkers ==
  ASSUME OneCaseOnly, Patient
  PROVE  Spec => []LateWorkersOnlyWake
<1>1. CountedInv => LateWorkersOnlyWake
  BY DEF CountedInv, AllDone, Done, LateWorkersOnlyWake, Alive
<1> QED BY <1>1, CountedInductive, PTL

-----------------------------------------------------------------------------
(***************************************************************************)
(* The report.  A worker that is done has written every figure of its      *)
(* bench_args when no smp_call_function_single fails.                      *)
(***************************************************************************)
IpisSucceed == "ipi" \notin Faults

Written(t) ==
  /\ pc[t] \in {"bench", "finish", "delay", "complete"} \cup Done
       => "start" \in ba[t]
  /\ pc[t] \in {"finish", "delay", "complete"} \cup Done /\ t[1] # AllIpi
       => "ipitime" \in ba[t]
  /\ pc[t] \in {"delay", "complete"} \cup Done => "finish" \in ba[t]
  /\ pc[t] \in {"complete"} \cup Done => "run_delay" \in ba[t]

WrittenInv == \A t \in Thread : Written(t)

Shown == {i \in Slot : printed[<<cur, i>>] = "exact"}

\* What has been printed: nothing before the report, and in the report the
\* exact figures of the workers before idx.
ShownInv ==
  /\ ReportExact
  /\ dpc \notin Reporting \cup {"next", "gone"} \/ todo # {} =>
       \A t \in Thread : printed[t] = "nothing"
  /\ dpc \in Reporting => idx \in 1 .. Count(cur) + 1 /\ Shown = 1 .. idx - 1
  /\ dpc = "report_rest" => seen /\ idx <= Count(cur)

LEMMA WrittenWorker ==
  ASSUME IpisSucceed, TypeOK, WrittenInv, NEW t \in Thread, Worker(t)
  PROVE  WrittenInv'
<1>1. \A u \in Thread \ {t} : pc'[u] = pc[u]
  BY WorkerFrame
<1>2. \A u \in Thread \ {t} : ba'[u] = ba[u]
  BY DEF Worker, Barrier, Measure, Notify, Forked, Arrive, LeaveSpin,
     CheckPasses, CheckFails, ExitOnBug, Start, Bench, BenchFails, Finish,
     RecordRunDelay, Complete, WakeUp, Return, GoWild, Writes, TypeOK
<1>3. ASSUME Written(t)' PROVE WrittenInv'
  BY <1>1, <1>2, <1>3 DEF WrittenInv, Written
<1>4. Written(t)
  BY DEF WrittenInv
<1> USE DEF Written, Moves, Writes, Done, TypeOK
<1>5. CASE Barrier(t)
  BY <1>3, <1>4, <1>5 DEF Barrier, Forked, Arrive, LeaveSpin, CheckPasses,
     CheckFails, ExitOnBug
<1>6. CASE Start(t)
  BY <1>3, <1>4, <1>6 DEF Start
<1>7. CASE Bench(t)
  BY <1>3, <1>4, <1>7 DEF Bench
<1>8. CASE BenchFails(t)
  BY <1>8 DEF BenchFails, IpisSucceed
<1>9. CASE Finish(t)
  BY <1>3, <1>4, <1>9 DEF Finish
<1>10. CASE RecordRunDelay(t)
  BY <1>3, <1>4, <1>10 DEF RecordRunDelay
<1>11. CASE Complete(t) \/ WakeUp(t) \/ Return(t)
  BY <1>3, <1>4, <1>11 DEF Complete, WakeUp, Return
<1>12. CASE GoWild(t)
  BY <1>3, <1>4, <1>12 DEF GoWild
<1> QED BY <1>5, <1>6, <1>7, <1>8, <1>9, <1>10, <1>11, <1>12
        DEF Worker, Measure, Notify

LEMMA WrittenInductive ==
  ASSUME IpisSucceed
  PROVE  Spec => []WrittenInv
<1>1. Init => WrittenInv
  BY DEF Init, WrittenInv, Written, Done
<1>2. TypeOK /\ WrittenInv /\ [Next]_vars => WrittenInv'
  <2> SUFFICES ASSUME TypeOK, WrittenInv, [Next]_vars PROVE WrittenInv'
    OBVIOUS
  <2>1. CASE Spawn
    <3>1. \A t \in Thread : pc'[t] = pc[t] \/ pc'[t] = "forked"
      BY <2>1 DEF Spawn, TypeOK
    <3> QED BY <2>1, <3>1 DEF Spawn, WrittenInv, Written, Done
  <2>2. CASE Driver /\ ~Spawn
    BY <2>2, DriverFrame DEF WrittenInv, Written
  <2>3. CASE UNCHANGED vars
    BY <2>3 DEF vars, WrittenInv, Written
  <2> QED BY <2>1, <2>2, <2>3, WrittenWorker DEF Next, Terminated
<1> QED BY <1>1, <1>2, TypeCorrect, PTL DEF Spec

\* What the report finds in the slots it has still to read.
LEMMA FiguresThere ==
  ASSUME TypeOK, CountedInv, WrittenInv, ShownInv, dpc \in Reporting,
         idx <= Count(cur)
  PROVE  /\ idx \in Slot /\ <<cur, idx>> \in Thread
         /\ Figures(cur) \subseteq ba[<<cur, idx>>]
<1>1. cur \in Case /\ Count(cur) \in Int
  BY CountIsInt DEF TypeOK
<1>2. idx \in Completed
  BY <1>1 DEF CountedInv, ShownInv, TypeOK
<1>3. idx \in Slot /\ <<cur, idx>> \in Thread /\ pc[<<cur, idx>>] \in Done
  BY <1>1, <1>2, ThreadPair DEF Completed
<1>4. Written(<<cur, idx>>)
  BY <1>3 DEF WrittenInv
<1> QED BY <1>3, <1>4 DEF Written, Figures

\* The line of one worker gives its exact figures.
LEMMA LineExact ==
  ASSUME TypeOK, CountedInv, WrittenInv, ShownInv, ReportRest
  PROVE  /\ idx \in Slot /\ idx <= Count(cur) /\ Shown' = Shown \cup {idx}
         /\ \A t \in Thread :
              printed'[t] = IF t = <<cur, idx>> THEN "exact" ELSE printed[t]
<1> DEFINE new == <<cur, idx>>
<1>1. /\ idx \in Slot /\ idx <= Count(cur) /\ new \in Thread /\ seen
      /\ Figures(cur) \subseteq ba[new]
  BY FiguresThere DEF ReportRest, ShownInv, Reporting
<1>2. cur' = cur /\ printed' = [printed EXCEPT ![new] = "exact"]
  BY <1>1 DEF ReportRest, Figures, driverVars
<1>3. \A t \in Thread : printed'[t] = IF t = new THEN "exact" ELSE printed[t]
  BY <1>2 DEF TypeOK
<1>4. \A i \in Slot : <<cur, i>> \in Thread /\ (<<cur, i>> = new <=> i = idx)
  BY ThreadPair DEF TypeOK
<1> QED BY <1>1, <1>2, <1>3, <1>4 DEF Shown

LEMMA ShownReport ==
  ASSUME TypeOK, BarrierInv, CountedInv, WrittenInv, ShownInv, Report
  PROVE  ShownInv'
<1>1. cur' = cur /\ Count(cur)' = Count(cur)
  BY DEF Report, ReportStart, ReportRest, Free, driverVars, Count
<1>2. CASE ReportStart
  <2>1. /\ dpc = "report" /\ idx <= Count(cur) /\ dpc' = "report_rest"
        /\ seen' = ("start" \in ba[<<cur, idx>>])
        /\ UNCHANGED <<printed, idx, todo>>
    BY <1>2 DEF ReportStart, driverVars
  <2>2. seen'
    BY <2>1, FiguresThere DEF Reporting, Figures
  <2>3. Shown' = Shown
    BY <1>1, <2>1 DEF Shown
  <2>4. todo' # {} => \A t \in Thread : printed'[t] = "nothing"
    BY <2>1 DEF ShownInv
  <2> QED BY <1>1, <2>1, <2>2, <2>3, <2>4 DEF ShownInv, Reporting, ReportExact
<1>3. CASE ReportRest
  <2>1. dpc = "report_rest" /\ dpc' = "report" /\ idx' = idx + 1 /\ todo' = todo
    BY <1>3 DEF ReportRest, driverVars
  <2>2. todo = {}
    BY <2>1 DEF BarrierInv
  <2>3. idx \in Int /\ Count(cur) \in Int
    BY CountIsInt DEF TypeOK
  <2>4. idx' \in 1 .. Count(cur) + 1 /\ Shown' = 1 .. idx' - 1
    <3>1. idx >= 1 /\ Shown = 1 .. idx - 1
      BY <2>1 DEF ShownInv, Reporting
    <3>2. idx <= Count(cur) /\ Shown' = Shown \cup {idx}
      BY <1>3, LineExact
    <3>3. idx' \in 1 .. Count(cur) + 1
      BY <2>1, <2>3, <3>1, <3>2
    <3>4. Shown' = 1 .. idx' - 1
      BY <2>1, <2>3, <3>1, <3>2
    <3> QED BY <3>3, <3>4
  <2>5. ReportExact'
    BY <1>3, LineExact DEF ShownInv, ReportExact
  <2> QED BY <1>1, <2>1, <2>2, <2>4, <2>5 DEF ShownInv, Reporting
<1>4. CASE Free
  <2>1. dpc' = "next" /\ UNCHANGED <<printed, todo>>
    BY <1>4 DEF Free, driverVars
  <2> QED BY <2>1 DEF ShownInv, Reporting, ReportExact
<1> QED BY <1>2, <1>3, <1>4 DEF Report

LEMMA ShownDriver ==
  ASSUME TypeOK, BarrierInv, CountedInv, WrittenInv, ShownInv, Driver
  PROVE  ShownInv'
<1>1. CASE Report
  BY <1>1, ShownReport
<1>2. CASE WaitAll
  <2>1. /\ UNCHANGED <<cur, printed, todo>>
        /\ dpc \notin Reporting \cup {"next", "gone"}
        /\ \/ dpc' \notin Reporting \cup {"next", "gone"}
           \/ dpc' = "report" /\ idx' = 1
    BY <1>2 DEF WaitAll, WaitOver, MustWait, PrepareToWait, GoToSleep, WokenUp,
       Timeout, Signal, StartReport, waitFrame, driverVars, Reporting
  <2>2. \A t \in Thread : printed'[t] = "nothing"
    BY <2>1 DEF ShownInv
  <2>3. Shown' = {}
    BY <2>1, <2>2, ThreadPair DEF Shown, TypeOK
  <2>4. dpc' = "report" => 1 \in 1 .. Count(cur)' + 1
    <3>1. Count(cur)' = Count(cur) /\ dpc \in Working
      BY <1>2 DEF StartReport, Reporting, WaitAll, WaitOver, MustWait, PrepareToWait, GoToSleep,
         WokenUp, Timeout, Signal, waitFrame, driverVars, Working, Count
    <3>2. Count(cur) \in Nat
      BY <3>1 DEF CountedInv, TypeOK
    <3> QED BY <3>1, <3>2
  <2> QED BY <2>1, <2>2, <2>3, <2>4 DEF ShownInv, ReportExact, Reporting
<1>3. CASE Load \/ Prepare
  <2>1. /\ printed' = printed
        /\ dpc' \notin Reporting
        /\ \/ dpc \notin Reporting \cup {"next", "gone"}
           \/ dpc = "next" /\ dpc' = "alloc" /\ todo # {}
           \/ dpc = "next" /\ dpc' = "gone" /\ todo' = {}
    BY <1>3 DEF Load, RejectParams, InitParams, NextCase, Unload, Prepare,
       NoMemory, Alloc, BuildPair, BuildBroadcaster, BuildFails, BuildOops,
       BuildDone, Spawn, SpawnFails, SpawnDone, driverVars, Reporting
  <2>2. \/ \A t \in Thread : printed'[t] = "nothing"
        \/ dpc' = "gone" /\ todo' = {}
    BY <2>1 DEF ShownInv
  <2> QED BY <2>1, <2>2 DEF ShownInv, ReportExact, Reporting
<1> QED BY <1>1, <1>2, <1>3 DEF Driver

LEMMA ShownInductive ==
  ASSUME OneCaseOnly, Patient, IpisSucceed
  PROVE  Spec => []ShownInv
<1>1. Init => ShownInv
  BY DEF Init, ShownInv, ReportExact, Reporting
<1>2. /\ TypeOK /\ BarrierInv /\ CountedInv /\ WrittenInv /\ ShownInv
      /\ [Next]_vars
      => ShownInv'
  <2> SUFFICES ASSUME TypeOK, BarrierInv, CountedInv, WrittenInv, ShownInv,
                      [Next]_vars
               PROVE  ShownInv'
    OBVIOUS
  <2>1. CASE \/ \E t \in Thread : Worker(t)
             \/ UNCHANGED vars
    <3>1. UNCHANGED <<dpc, cur, param, todo, idx, seen, printed>>
      BY <2>1, WorkerFrame DEF vars
    <3>2. Count(cur)' = Count(cur) /\ Shown' = Shown
      BY <3>1 DEF Count, Shown
    <3> QED BY <3>1, <3>2 DEF ShownInv, ReportExact
  <2> QED BY <2>1, ShownDriver DEF Next, Terminated
<1> QED BY <1>1, <1>2, TypeCorrect, BarrierInductive, CountedInductive,
           WrittenInductive, PTL DEF Spec

\* The report gives every worker's final figures, and calls none "toomany"
\* (ipi_bench.c:248-300), when the wait is neither cut short nor an IPI
\* refused.
THEOREM ReportsExact ==
  ASSUME OneCaseOnly, Patient, IpisSucceed
  PROVE  Spec => []ReportExact
<1>1. ShownInv => ReportExact
  BY DEF ShownInv
<1> QED BY <1>1, ShownInductive, PTL

-----------------------------------------------------------------------------
(***************************************************************************)
(* The CPUs asked for.  This needs no assumption: the retry loops leave a  *)
(* CPU alone that was given and differs from the other, and a case of one  *)
(* worker copies the parameters into its arguments before it creates it.   *)
(***************************************************************************)
AskedPlace(t) ==
  /\ t[1] \in {SelfIpi, SingleIpi} => src[t] = param.srccpu
  /\ t[1] = SingleIpi => dst[t] = param.dstcpu

AskedParams ==
  /\ param.srccpu # param.dstcpu
  /\ asked.srccpu \notin {-1, asked.dstcpu} => param.srccpu = asked.srccpu
  /\ asked.dstcpu >= 0 => param.dstcpu = asked.dstcpu

AskedInv ==
  /\ dpc = "init" => param = asked /\ \A t \in Thread : pc[t] = "none"
  /\ dpc = "build" => cur \in {MeshIpi, AllIpi}
  /\ AskedParams \/ (dpc \in {"init", "gone"} /\ \A t \in Thread : pc[t] = "none")
  /\ \A t \in Thread :
       pc[t] # "none" \/ (dpc = "spawn" /\ t = <<cur, 1>>) => AskedPlace(t)

LEMMA CasesDiffer ==
  /\ SelfIpi # SingleIpi /\ SelfIpi # MeshIpi /\ SelfIpi # AllIpi
  /\ SingleIpi # MeshIpi /\ SingleIpi # AllIpi /\ MeshIpi # AllIpi
  BY DEF SelfIpi, SingleIpi, MeshIpi, AllIpi

LEMMA AskedInitParams ==
  ASSUME TypeOK, AskedInv, InitParams
  PROVE  AskedInv'
<1>1. dpc = "init" /\ dpc' = "next" /\ UNCHANGED <<asked, pc>>
  BY DEF InitParams, workVars
<1>2. param = asked /\ \A t \in Thread : pc[t] = "none"
  BY <1>1 DEF AskedInv
<1>3. PICK s \in SrcChoices(param) : \E d \in DstChoices(param, s) :
         param'.srccpu = s /\ param'.dstcpu = d
  BY DEF InitParams, TypeOK, ParamType
<1>4. PICK d \in DstChoices(param, s) :
         param'.srccpu = s /\ param'.dstcpu = d
  BY <1>3
<1>5. AskedParams'
  <2>1. s # d
    BY <1>2, <1>3, <1>4 DEF SrcChoices, DstChoices
  <2>2. asked.srccpu \notin {-1, asked.dstcpu} => s = asked.srccpu
    BY <1>2 DEF SrcChoices
  <2>3. asked.dstcpu >= 0 => asked.dstcpu \notin {-1, s}
    BY <1>2 DEF SrcChoices, TypeOK, ParamType
  <2>4. asked.dstcpu >= 0 => d = asked.dstcpu
    BY <1>2, <2>3 DEF DstChoices
  <2> QED BY <1>1, <1>4, <2>1, <2>2, <2>4 DEF AskedParams
<1> QED BY <1>1, <1>2, <1>5 DEF AskedInv

LEMMA AskedPrepare ==
  ASSUME TypeOK, AskedInv, Prepare
  PROVE  AskedInv'
<1> USE DEF driverVars, countVars, workVars, placeVars
<1>1. CASE Alloc
  <2> DEFINE first == <<cur, 1>>
  <2>1. /\ UNCHANGED <<asked, param, cur, pc>> /\ dpc = "alloc"
        /\ IF cur \in {MeshIpi, AllIpi}
             THEN dpc' = "build" /\ UNCHANGED <<src, dst>>
             ELSE /\ dpc' = "spawn"
                  /\ src' = [src EXCEPT ![first] = param.srccpu]
                  /\ dst' = [dst EXCEPT ![first] =
                       IF cur = SelfIpi THEN param.srccpu ELSE param.dstcpu]
    BY <1>1 DEF Alloc
  <2>2. ASSUME NEW t \in Thread,
               pc'[t] # "none" \/ (dpc' = "spawn" /\ t = <<cur', 1>>)
        PROVE  AskedPlace(t)'
    <3>1. CASE t = first /\ dpc' = "spawn"
      BY <2>1, <3>1, CasesDiffer DEF AskedPlace, TypeOK
    <3>2. CASE ~(t = first /\ dpc' = "spawn")
      <4>1. src'[t] = src[t] /\ dst'[t] = dst[t] /\ pc[t] # "none"
        BY <2>1, <2>2, <3>2 DEF TypeOK
      <4> QED BY <2>1, <4>1 DEF AskedInv, AskedPlace
    <3> QED BY <3>1, <3>2
  <2> QED BY <2>1, <2>2 DEF AskedInv, AskedParams
<1>2. CASE BuildPair \/ BuildBroadcaster
  <2>1. /\ UNCHANGED <<asked, param, cur, pc>> /\ dpc = "build" /\ dpc' = "build"
        /\ cur \in {MeshIpi, AllIpi}
        /\ \A t \in Thread : t[1] # cur => src'[t] = src[t] /\ dst'[t] = dst[t]
    <3>1. \A t \in Thread : t[1] # cur => t # <<cur, idx>>
      OBVIOUS
    <3>2. CASE BuildPair
      <4>1. PICK s, d : /\ src' = [src EXCEPT ![<<cur, idx>>] = s]
                        /\ dst' = [dst EXCEPT ![<<cur, idx>>] = d]
        BY <3>2 DEF BuildPair
      <4> QED BY <3>1, <3>2, <4>1 DEF BuildPair, TypeOK
    <3>3. CASE BuildBroadcaster
      <4>1. PICK s : src' = [src EXCEPT ![<<cur, idx>>] = s]
        BY <3>3 DEF BuildBroadcaster
      <4> QED BY <3>1, <3>3, <4>1 DEF BuildBroadcaster, TypeOK
    <3> QED BY <1>2, <3>2, <3>3
  <2>2. ASSUME NEW t \in Thread, pc'[t] # "none" PROVE AskedPlace(t)'
    BY <2>1, <2>2, CasesDiffer DEF AskedInv, AskedPlace
  <2> QED BY <2>1, <2>2 DEF AskedInv, AskedParams
<1>3. CASE BuildDone
  <2>1. /\ UNCHANGED <<asked, param, cur, pc, src, dst>>
        /\ dpc = "build" /\ dpc' = "spawn" /\ cur \in {MeshIpi, AllIpi}
    BY <1>3 DEF BuildDone, AskedInv
  <2>2. ASSUME NEW t \in Thread,
               pc'[t] # "none" \/ (dpc' = "spawn" /\ t = <<cur', 1>>)
        PROVE  AskedPlace(t)'
    BY <2>1, <2>2, CasesDiffer DEF AskedInv, AskedPlace
  <2> QED BY <2>1, <2>2 DEF AskedInv, AskedParams
<1>4. CASE Spawn
  <2> DEFINE new == <<cur, idx>>
  <2>1. /\ UNCHANGED <<asked, param, cur, src, dst>> /\ dpc = "spawn"
        /\ dpc' = "spawn" /\ idx <= Count(cur)
        /\ pc' = [pc EXCEPT ![new] = "forked"]
    BY <1>4 DEF Spawn
  <2>2. ASSUME NEW t \in Thread,
               pc'[t] # "none" \/ (dpc' = "spawn" /\ t = <<cur', 1>>)
        PROVE  AskedPlace(t)'
    <3>1. CASE t = new /\ t[1] \in {SelfIpi, SingleIpi}
      <4>1. Count(cur) = 1
        BY <3>1, CasesDiffer DEF Count
      <4>2. idx \in Slot
        BY <3>1, ThreadPair
      <4>3. t = <<cur, 1>>
        BY <2>1, <3>1, <4>1, <4>2 DEF Slot
      <4> QED BY <2>1, <4>3 DEF AskedInv, AskedPlace
    <3>2. CASE t = new /\ t[1] \notin {SelfIpi, SingleIpi}
      BY <3>2 DEF AskedPlace
    <3>3. CASE t # new
      BY <2>1, <2>2, <3>3 DEF AskedInv, AskedPlace, TypeOK
    <3> QED BY <3>1, <3>2, <3>3
  <2> QED BY <2>1, <2>2 DEF AskedInv, AskedParams
<1>5. CASE NoMemory \/ BuildFails \/ BuildOops \/ SpawnFails \/ SpawnDone
  <2>1. /\ UNCHANGED <<asked, param, cur, pc, src, dst>>
        /\ dpc \notin {"init", "gone"} /\ dpc' \notin {"init", "build"}
        /\ dpc' = "spawn" => dpc = "spawn"
    BY <1>5 DEF NoMemory, BuildFails, BuildOops, SpawnFails, SpawnDone
  <2> QED BY <2>1 DEF AskedInv, AskedParams, AskedPlace
<1> QED BY <1>1, <1>2, <1>3, <1>4, <1>5 DEF Prepare

LEMMA AskedInductive == Spec => []AskedInv
<1>1. Init => AskedInv
  BY DEF Init, AskedInv
<1>2. TypeOK /\ AskedInv /\ [Next]_vars => AskedInv'
  <2> SUFFICES ASSUME TypeOK, AskedInv, [Next]_vars PROVE AskedInv'
    OBVIOUS
  <2>1. CASE InitParams
    BY <2>1, AskedInitParams
  <2>2. CASE Prepare
    BY <2>2, AskedPrepare
  <2>3. CASE \/ RejectParams \/ NextCase \/ Unload \/ WaitAll \/ Report
             \/ UNCHANGED vars
    <3>1. /\ UNCHANGED <<asked, param, src, dst, pc>>
          /\ \/ dpc' \notin {"init", "build", "spawn"}
             \/ UNCHANGED <<dpc, cur>>
          /\ dpc \in {"init", "gone"} => dpc' \in {dpc, "gone"}
      BY <2>3 DEF RejectParams, NextCase, Unload, WaitAll, WaitOver, MustWait,
         PrepareToWait, GoToSleep, WokenUp, Timeout, Signal, StartReport,
         waitFrame, Report, ReportStart, ReportRest, Free, driverVars,
         placeVars, workVars, vars
    <3> QED BY <3>1 DEF AskedInv, AskedParams, AskedPlace
  <2>4. ASSUME NEW t \in Thread, Worker(t) PROVE AskedInv'
    <3>1. /\ UNCHANGED <<asked, param, dpc, cur, src, dst>>
          /\ \A u \in Thread \ {t} : pc'[u] = pc[u]
      BY <2>4, WorkerFrame
    <3>2. pc[t] # "none"
      BY <2>4, MoverExists
    <3> QED BY <3>1, <3>2 DEF AskedInv, AskedParams, AskedPlace
  <2> QED BY <2>1, <2>2, <2>3, <2>4 DEF Next, Driver, Load, Terminated
<1> QED BY <1>1, <1>2, TypeCorrect, PTL DEF Spec

\* The CPUs given to self-ipi and single-ipi are those they use
\* (ipi_bench.c:59-60, 512-518), for every choice of cases and every fault; but
\* srccpu is not, if dstcpu names the same CPU.
THEOREM CpusObeyed == Spec => []CpusAsAsked
<1>1. TypeOK /\ AskedInv => CpusAsAsked
  BY CasesDiffer DEF TypeOK, AskedInv, AskedParams, AskedPlace, CpusAsAsked, Alive
<1> QED BY <1>1, AskedInductive, TypeCorrect, PTL

-----------------------------------------------------------------------------
(***************************************************************************)
(* The CPUs of the workers.  While a case is built, mask holds every CPU   *)
(* that the slots before idx have been given.                              *)
(***************************************************************************)
CpuOf(i) ==
  {src[<<cur, i>>]} \cup IF cur = MeshIpi THEN {dst[<<cur, i>>]} ELSE {}

PairOk(i) ==
  cur = MeshIpi =>
    /\ src[<<cur, i>>] # dst[<<cur, i>>]
    /\ param.acrossnuma \/ NodeOf[src[<<cur, i>>]] = NodeOf[dst[<<cur, i>>]]

Apart(n) ==
  \A i \in Slot : i <= n =>
    PairOk(i) /\ \A j \in Slot \ {i} : j <= n => CpuOf(i) \cap CpuOf(j) = {}

Building == dpc = "build"
HasWorkers == dpc \in Working \/ \E t \in Thread : pc[t] # "none"

PlacedInv ==
  /\ Building => /\ Apart(idx - 1)
                 /\ \A i \in Slot : i < idx => CpuOf(i) \subseteq mask
  /\ HasWorkers => Apart(Count(cur))

\* Steps that leave the places alone.
LEMMA PlacesKept ==
  ASSUME UNCHANGED <<cur, param, src, dst>>, NEW n
  PROVE  Apart(n)' <=> Apart(n)
  BY DEF Apart, PairOk, CpuOf

\* Slot k is built: its CPUs were not in mask, those of the earlier slots were.
LEMMA SlotBuilt ==
  ASSUME TypeOK, PlacedInv, Building, UNCHANGED <<cur, param>>,
         NEW k, k = idx, idx' = idx + 1, mask \subseteq mask',
         \A t \in Thread : t # <<cur, k>> => src'[t] = src[t] /\ dst'[t] = dst[t],
         k \in Slot => PairOk(k)' /\ CpuOf(k)' \subseteq mask' \ mask
  PROVE  /\ Apart(idx - 1)'
         /\ \A i \in Slot : i < idx' => CpuOf(i)' \subseteq mask'
<1>1. idx' - 1 = k /\ k \in Int /\ Slot \subseteq Int
  BY DEF TypeOK, Slot
<1>2. ASSUME NEW i \in Slot, i < k
      PROVE  CpuOf(i)' = CpuOf(i) /\ PairOk(i)' /\ CpuOf(i)' \subseteq mask
  <2>1. <<cur, i>> \in Thread /\ <<cur, i>> # <<cur, k>>
    BY <1>1, <1>2, ThreadPair DEF TypeOK
  <2>2. src'[<<cur, i>>] = src[<<cur, i>>] /\ dst'[<<cur, i>>] = dst[<<cur, i>>]
    BY <2>1
  <2>3. PairOk(i) /\ CpuOf(i) \subseteq mask
    BY <1>1, <1>2 DEF PlacedInv, Apart
  <2>4. CpuOf(i)' = CpuOf(i)
    BY <2>2 DEF CpuOf
  <2> QED BY <2>2, <2>3, <2>4 DEF PairOk
<1>3. ASSUME NEW i \in Slot, i <= k, NEW j \in Slot \ {i}, j <= k
      PROVE  CpuOf(i)' \cap CpuOf(j)' = {}
  <2>1. CASE i < k /\ j < k
    <3>1. CpuOf(i) \cap CpuOf(j) = {}
      BY <1>1, <1>3, <2>1 DEF PlacedInv, Apart
    <3> QED BY <1>2, <1>3, <2>1, <3>1
  <2>2. CASE i = k /\ j < k
    <3>1. CpuOf(i)' \subseteq mask' \ mask /\ CpuOf(j)' \subseteq mask
      BY <1>2, <1>3, <2>2
    <3> QED BY <3>1
  <2>3. CASE i < k /\ j = k
    <3>1. CpuOf(j)' \subseteq mask' \ mask /\ CpuOf(i)' \subseteq mask
      BY <1>2, <1>3, <2>3
    <3> QED BY <3>1
  <2> QED BY <1>1, <1>3, <2>1, <2>2, <2>3
<1>4. ASSUME NEW i \in Slot, i <= k PROVE PairOk(i)' /\ CpuOf(i)' \subseteq mask'
  <2>1. CASE i = k
    BY <1>4, <2>1
  <2>2. CASE i < k
    BY <1>2, <1>4, <2>2
  <2> QED BY <1>1, <1>4, <2>1, <2>2
<1>5. Apart(idx - 1)'
  BY <1>1, <1>3, <1>4 DEF Apart
<1> QED BY <1>1, <1>4, <1>5

LEMMA PlacedBuild ==
  ASSUME TypeOK, BarrierInv, PlacedInv, BuildPair \/ BuildBroadcaster
  PROVE  PlacedInv'
<1>1. /\ Building /\ Building' /\ UNCHANGED <<cur, param>> /\ idx' = idx + 1
      /\ ~HasWorkers'
  <2>1. \A t \in Thread : pc[t] = "none"
    BY NobodyYet DEF BuildPair, BuildBroadcaster
  <2> QED BY <2>1 DEF BuildPair, BuildBroadcaster, Building, Working, Reporting,
             HasWorkers, workVars
<1>2. CASE BuildPair
  <2>1. PICK s \in UnusedCpu(mask, -1) :
          \E d \in UnusedCpu(mask \cup {s}, WantedNode(s)) :
            /\ src' = [src EXCEPT ![<<cur, idx>>] = s]
            /\ dst' = [dst EXCEPT ![<<cur, idx>>] = d]
            /\ mask' = mask \cup {s, d}
    BY <1>2 DEF BuildPair
  <2>2. PICK d \in UnusedCpu(mask \cup {s}, WantedNode(s)) :
            /\ src' = [src EXCEPT ![<<cur, idx>>] = s]
            /\ dst' = [dst EXCEPT ![<<cur, idx>>] = d]
            /\ mask' = mask \cup {s, d}
    BY <2>1
  <2>3. s \in Cpu \ mask /\ d \in Cpu \ mask /\ d # s
    BY DEF UnusedCpu
  <2>4. param.acrossnuma \/ NodeOf[s] = NodeOf[d]
    <3>1. NodeOf[s] \in Nat
      BY <2>3, NodeOfAssumption
    <3> QED BY <3>1 DEF UnusedCpu, WantedNode
  <2>5. cur = MeshIpi
    BY <1>2 DEF BuildPair
  <2>6. PICK m : m = idx
    OBVIOUS
  <2>7. /\ \A t \in Thread : t # <<cur, m>> =>
                                src'[t] = src[t] /\ dst'[t] = dst[t]
        /\ <<cur, m>> \in Thread => src'[<<cur, m>>] = s /\ dst'[<<cur, m>>] = d
    BY <2>2, <2>6 DEF TypeOK
  <2>8. m \in Slot => PairOk(m)' /\ CpuOf(m)' \subseteq mask' \ mask
    <3> SUFFICES ASSUME m \in Slot
                 PROVE  PairOk(m)' /\ CpuOf(m)' \subseteq mask' \ mask
      OBVIOUS
    <3>1. src'[<<cur, m>>] = s /\ dst'[<<cur, m>>] = d
      BY <2>7, ThreadPair DEF TypeOK
    <3>2. CpuOf(m)' \subseteq mask' \ mask
      BY <1>1, <2>2, <2>3, <2>5, <3>1 DEF CpuOf
    <3>3. PairOk(m)'
      BY <1>1, <2>3, <2>4, <3>1 DEF PairOk
    <3> QED BY <3>2, <3>3
  <2>9. mask \subseteq mask'
    BY <2>2
  <2> QED BY <1>1, <2>6, <2>7, <2>8, <2>9, SlotBuilt DEF PlacedInv
<1>3. CASE BuildBroadcaster
  <2>1. PICK s \in UnusedCpu(mask, -1) :
          /\ src' = [src EXCEPT ![<<cur, idx>>] = s]
          /\ mask' = mask \cup {s}
    BY <1>3 DEF BuildBroadcaster
  <2>2. s \in Cpu \ mask /\ cur # MeshIpi /\ dst' = dst
    BY <1>3, CasesDiffer DEF UnusedCpu, BuildBroadcaster
  <2>3. PICK m : m = idx
    OBVIOUS
  <2>4. /\ \A t \in Thread : t # <<cur, m>> =>
                                src'[t] = src[t] /\ dst'[t] = dst[t]
        /\ <<cur, m>> \in Thread => src'[<<cur, m>>] = s
    BY <2>1, <2>2, <2>3 DEF TypeOK
  <2>5. m \in Slot => PairOk(m)' /\ CpuOf(m)' \subseteq mask' \ mask
    BY <1>1, <2>1, <2>2, <2>4, ThreadPair DEF CpuOf, PairOk, TypeOK
  <2> QED BY <1>1, <2>1, <2>3, <2>4, <2>5, SlotBuilt DEF PlacedInv
<1> QED BY <1>2, <1>3

LEMMA PlacedAlloc ==
  ASSUME TypeOK, BarrierInv, Alloc
  PROVE  PlacedInv'
<1>1. /\ UNCHANGED <<cur, param, pc>> /\ idx' = 1
      /\ \A t \in Thread : pc[t] = "none"
  BY NobodyYet DEF Alloc, workVars
<1>2. \A i \in Slot : i \in Int /\ i >= 1
  BY DEF Slot
<1>3. CASE cur \in {MeshIpi, AllIpi}
  <2>1. dpc' = "build" /\ ~HasWorkers'
    BY <1>1, <1>3 DEF Alloc, HasWorkers, Working, Reporting
  <2>2. Apart(0)'
    BY <1>2 DEF Apart
  <2>3. \A i \in Slot : i < idx' => CpuOf(i)' \subseteq mask'
    BY <1>1, <1>2
  <2>4. idx' - 1 = 0
    BY <1>1
  <2> QED BY <2>1, <2>2, <2>3, <2>4 DEF PlacedInv
<1>4. CASE cur \notin {MeshIpi, AllIpi}
  <2>1. dpc' = "spawn" /\ Count(cur)' = 1
    BY <1>1, <1>4 DEF Alloc, Count
  <2>2. Apart(1)'
    <3>1. \A i \in Slot : i <= 1 => i = 1
      BY <1>2
    <3> QED BY <1>1, <1>4, <3>1 DEF Apart, PairOk
  <2> QED BY <2>1, <2>2 DEF PlacedInv, Building
<1> QED BY <1>3, <1>4

LEMMA PlacedBuildDone ==
  ASSUME TypeOK, PlacedInv, BuildDone
  PROVE  PlacedInv'
<1>1. /\ dpc = "build" /\ dpc' = "spawn" /\ UNCHANGED <<cur, param, src, dst>>
      /\ idx > Count(cur)
  BY DEF BuildDone, driverVars, placeVars
<1>2. Apart(idx - 1)
  BY <1>1 DEF PlacedInv, Building
<1>3. Count(cur) \in Int /\ Slot \subseteq Int /\ idx \in Int
  BY CountIsInt DEF TypeOK, Slot
<1>4. Apart(Count(cur))
  BY <1>1, <1>2, <1>3 DEF Apart
<1>5. Count(cur)' = Count(cur)
  BY <1>1 DEF Count
<1>6. Apart(Count(cur))'
  <2> SUFFICES ASSUME NEW n, n = Count(cur) PROVE Apart(n)'
    BY <1>5
  <2> QED BY <1>1, <1>4, PlacesKept
<1> QED BY <1>1, <1>6 DEF PlacedInv, Building

\* Steps at which the places stand still.
LEMMA PlacedSteady ==
  ASSUME PlacedInv, UNCHANGED <<cur, param, src, dst>>,
         ~Building', HasWorkers' => HasWorkers
  PROVE  PlacedInv'
<1>1. Count(cur)' = Count(cur)
  BY DEF Count
<1>2. ASSUME NEW n, n = Count(cur), Apart(n) PROVE Apart(Count(cur))'
  BY <1>1, <1>2, PlacesKept
<1> QED BY <1>2 DEF PlacedInv

LEMMA PlacedDriver ==
  ASSUME TypeOK, BarrierInv, PlacedInv, Driver
  PROVE  PlacedInv'
<1> USE DEF driverVars, placeVars, workVars
<1>1. CASE BuildPair \/ BuildBroadcaster
  BY <1>1, PlacedBuild
<1>2. CASE Alloc
  BY <1>2, PlacedAlloc
<1>3. CASE BuildDone
  BY <1>3, PlacedBuildDone
<1>4. CASE RejectParams \/ InitParams \/ NextCase \/ NoMemory \/ BuildFails
           \/ BuildOops
  <2>1. /\ dpc \in {"init", "alloc", "build"} \/ todo # {}
        /\ pc' = pc /\ dpc' \in {"gone", "next", "alloc", "oops"}
    BY <1>4 DEF RejectParams, InitParams, NextCase, NoMemory, BuildFails, BuildOops
  <2>2. ~HasWorkers' /\ ~Building'
    BY <2>1, NobodyYet DEF HasWorkers, Building, Working, Reporting
  <2> QED BY <2>2 DEF PlacedInv
<1>5. CASE Unload
  <2>1. /\ UNCHANGED <<cur, param, src, dst, pc>> /\ dpc' = "gone"
    BY <1>5 DEF Unload
  <2> QED BY <2>1, PlacedSteady DEF HasWorkers, Building, Working, Reporting
<1>6. CASE Spawn \/ SpawnFails \/ SpawnDone \/ WaitAll \/ Report
  <2>1. /\ UNCHANGED <<cur, param, src, dst>> /\ dpc \in Working
        /\ dpc' # "build"
    BY <1>6 DEF Spawn, SpawnFails, SpawnDone, WaitAll, WaitOver, MustWait,
       PrepareToWait, GoToSleep, WokenUp, Timeout, Signal, StartReport,
       waitFrame, Report, ReportStart, ReportRest, Free, Working, Reporting
  <2> QED BY <2>1, PlacedSteady DEF HasWorkers, Building
<1> QED BY <1>1, <1>2, <1>3, <1>4, <1>5, <1>6 DEF Driver, Load, Prepare

LEMMA PlacedInductive ==
  ASSUME OneCaseOnly
  PROVE  Spec => []PlacedInv
<1>1. Init => PlacedInv
  BY DEF Init, PlacedInv, Building, HasWorkers, Working, Reporting
<1>2. TypeOK /\ BarrierInv /\ PlacedInv /\ [Next]_vars => PlacedInv'
  <2> SUFFICES ASSUME TypeOK, BarrierInv, PlacedInv, [Next]_vars
               PROVE  PlacedInv'
    OBVIOUS
  <2>1. ASSUME UNCHANGED <<dpc, idx, cur, param, src, dst, mask>>,
               HasWorkers' => HasWorkers
        PROVE  PlacedInv'
    <3>1. CASE Building
      <4>1. ASSUME NEW n, n = idx - 1, Apart(n) PROVE Apart(idx - 1)'
        BY <2>1, <4>1, PlacesKept
      <4>2. \A t \in Thread : pc[t] = "none"
        BY <3>1, NobodyYet DEF Building
      <4>3. ~HasWorkers'
        BY <2>1, <3>1, <4>2 DEF HasWorkers, Building, Working, Reporting
      <4>4. \A i \in Slot : CpuOf(i)' = CpuOf(i)
        BY <2>1 DEF CpuOf
      <4> QED BY <2>1, <3>1, <4>1, <4>3, <4>4 DEF PlacedInv, Building
    <3>2. CASE ~Building
      BY <2>1, <3>2, PlacedSteady DEF Building
    <3> QED BY <3>1, <3>2
  <2>2. CASE Driver
    BY <2>2, PlacedDriver
  <2>3. ASSUME NEW t \in Thread, Worker(t) PROVE PlacedInv'
    <3>1. pc[t] # "none"
      BY <2>3, MoverExists
    <3> QED BY <2>1, <2>3, <3>1, WorkerFrame DEF HasWorkers
  <2>4. CASE UNCHANGED vars
    BY <2>1, <2>4 DEF vars, HasWorkers
  <2> QED BY <2>2, <2>3, <2>4 DEF Next, Terminated
<1> QED BY <1>1, <1>2, TypeCorrect, BarrierInductive, PTL DEF Spec

\* No two workers are bound to one CPU, so that none spins at the barrier on
\* the CPU that another needs to arrive; in a mesh no CPU is used twice, and
\* pairs are of one node if acrossnuma=0 (ipi_bench.c:349-370, 389-402,
\* 446-454).
THEOREM CpusApart ==
  ASSUME OneCaseOnly
  PROVE  Spec => []OwnCpu
<1>1. TypeOK /\ BarrierInv /\ PlacedInv => OwnCpu
  <2> SUFFICES ASSUME TypeOK, BarrierInv, PlacedInv PROVE OwnCpu
    OBVIOUS
  <2>1. ASSUME NEW t \in Thread, Alive(t)
        PROVE  /\ t[1] = cur /\ t = <<cur, t[2]>> /\ HasWorkers
               /\ t[2] \in Slot /\ t[2] <= Count(cur)
    BY <2>1, ThreadPair DEF Alive, BarrierInv, OnlyCurRuns, HasWorkers
  <2>2. ASSUME NEW t \in Thread, Alive(t), NEW u \in Thread \ {t}, Alive(u)
        PROVE  CpuOf(t[2]) \cap CpuOf(u[2]) = {}
    <3>1. u[2] # t[2]
      BY <2>1, <2>2
    <3> QED BY <2>1, <2>2, <3>1 DEF PlacedInv, Apart
  <2>3. ASSUME NEW t \in Thread, Alive(t)
        PROVE  /\ PairOk(t[2])
               /\ CpuOf(t[2]) = {src[t]} \cup IF cur = MeshIpi THEN {dst[t]} ELSE {}
    BY <2>1, <2>3 DEF PlacedInv, Apart, CpuOf
  <2> SUFFICES ASSUME NEW t \in Thread, Alive(t)
               PROVE  /\ \A u \in Thread \ {t} : Alive(u) => src[t] # src[u]
                      /\ t[1] = MeshIpi =>
                           /\ src[t] # dst[t]
                           /\ \A u \in Thread \ {t} : Alive(u) =>
                                {src[t], dst[t]} \cap {src[u], dst[u]} = {}
                           /\ param.acrossnuma \/ NodeOf[src[t]] = NodeOf[dst[t]]
    BY DEF OwnCpu
  <2>4. \A u \in Thread \ {t} : Alive(u) => src[t] # src[u]
    BY <2>2, <2>3
  <2>5. ASSUME t[1] = MeshIpi, NEW u \in Thread \ {t}, Alive(u)
        PROVE  {src[t], dst[t]} \cap {src[u], dst[u]} = {}
    <3>1. cur = MeshIpi
      BY <2>1, <2>5
    <3> QED BY <2>2, <2>3, <2>5, <3>1
  <2>6. t[1] = MeshIpi => /\ src[t] # dst[t]
                          /\ param.acrossnuma \/ NodeOf[src[t]] = NodeOf[dst[t]]
    BY <2>1, <2>3 DEF PairOk
  <2> QED BY <2>4, <2>5, <2>6
<1> QED BY <1>1, TypeCorrect, BarrierInductive, PlacedInductive, PTL
=============================================================================
