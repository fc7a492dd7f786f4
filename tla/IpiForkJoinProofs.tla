-------------------------- MODULE IpiForkJoinProofs --------------------------
(***************************************************************************)
(* Every step of ipi_bench_init and of its workers is a step of ForkJoin,  *)
(* or none at all, under the refinement mapping of IpiForkJoin.            *)
(***************************************************************************)
EXTENDS IpiForkJoin, IpiCaseProofs

\* The values of the mapping.
Team  == IF HasTeam THEN 1 .. Count(cur) ELSE {}
Began == {i \in Slot : Past(<<cur, i>>)}
Over  == dpc \in {"gone", "oops"} \/ mem[cur] = "freed"

(***************************************************************************)
(* The team fits in bas[], and insmod gives a case up only before it has   *)
(* created any worker.                                                     *)
(***************************************************************************)
FitsInv ==
  /\ dpc \notin {"init", "gone"} => param.pairs <= NumCpus \div 2
  /\ dpc = "build" => idx <= Count(cur) + 1
  /\ dpc = "build" /\ cur = AllIpi => Cardinality(mask) = idx - 1
  /\ dpc \in Working => 1 .. Count(cur) \subseteq Slot

GivenUpInv ==
  dpc = "next" /\ mem[cur] # "freed" =>
    \A t \in Thread : pc[t] = "none" /\ printed[t] = "nothing"

-----------------------------------------------------------------------------
LEMMA MaskFinite ==
  ASSUME TypeOK
  PROVE  /\ IsFiniteSet(mask) /\ Cardinality(mask) \in Nat
         /\ Cardinality(mask) <= NumCpus
<1>1. NumCpus - 1 \in Int /\ 0 \in Int /\ NumCpus > 0
  BY NumCpusAssumption
<1>2. /\ IsFiniteSet(0 .. NumCpus - 1)
      /\ Cardinality(0 .. NumCpus - 1)
           = IF 0 > NumCpus - 1 THEN 0 ELSE (NumCpus - 1) - 0 + 1
  BY <1>1, FS_Interval
<1>3. Cardinality(Cpu) = NumCpus /\ IsFiniteSet(Cpu)
  BY <1>1, <1>2, NumCpusAssumption DEF Cpu
<1> QED BY <1>3, FS_Subset, FS_CardinalityType DEF TypeOK

LEMMA FitsPrepare ==
  ASSUME TypeOK, AskedInv, FitsInv, Prepare
  PROVE  FitsInv'
<1>1. /\ UNCHANGED <<cur, param>> /\ dpc \in {"alloc", "build", "spawn"}
      /\ Count(cur) \in Int /\ idx \in Int
  BY CountIsInt DEF Prepare, NoMemory, Alloc, BuildPair, BuildBroadcaster,
     BuildFails, BuildOops, BuildDone, Spawn, SpawnFails,
     SpawnDone, driverVars, TypeOK
<1>2. Count(cur)' = Count(cur) /\ param.pairs <= NumCpus \div 2
  BY <1>1 DEF Count, FitsInv
<1>3. CASE Alloc
  <2>1. Count(cur) >= 0 /\ idx' = 1 /\ mask' = {}
    BY <1>3 DEF Alloc, Allocatable
  <2>2. Cardinality({}) = 0
    BY FS_EmptySet
  <2>3. dpc' \in Working => 1 .. Count(cur) \subseteq Slot
    <3>1. ASSUME dpc' \in Working PROVE Count(cur) = 1
      BY <1>3, <3>1 DEF Alloc, Working, Reporting, Count
    <3> QED BY <3>1, NumCpusAssumption DEF Slot
  <2> QED BY <1>1, <1>2, <2>1, <2>2, <2>3 DEF FitsInv
<1>4. CASE BuildPair \/ BuildBroadcaster
  <2>1. /\ dpc = "build" /\ dpc' = "build" /\ idx <= Count(cur) /\ idx' = idx + 1
    BY <1>4 DEF BuildPair, BuildBroadcaster
  <2>2. ASSUME cur = AllIpi PROVE Cardinality(mask') = idx' - 1
    <3>1. BuildBroadcaster
      BY <1>4, <2>2, CasesDiffer DEF BuildPair
    <3>2. PICK s \in Cpu \ mask : mask' = mask \cup {s}
      BY <3>1 DEF BuildBroadcaster, UnusedCpu
    <3>3. Cardinality(mask') = Cardinality(mask) + 1
      BY <3>2, MaskFinite, FS_AddElement
    <3>4. Cardinality(mask) = idx - 1
      BY <2>1, <2>2 DEF FitsInv
    <3> QED BY <1>1, <2>1, <3>3, <3>4
  <2> QED BY <1>1, <1>2, <2>1, <2>2 DEF FitsInv, Working, Reporting
<1>5. CASE BuildDone
  <2>1. dpc = "build" /\ dpc' = "spawn" /\ idx > Count(cur)
    BY <1>5 DEF BuildDone
  <2>2. idx = Count(cur) + 1
    BY <1>1, <2>1 DEF FitsInv
  <2>3. Count(cur) <= NumCpus
    <3>1. CASE cur = MeshIpi
      <4>1. Count(cur) = param.pairs
        BY <3>1, CasesDiffer DEF Count
      <4> QED BY <1>1, <1>2, <4>1, NumCpusAssumption
    <3>2. CASE cur = AllIpi
      <4>1. Cardinality(mask) = Count(cur)
        BY <1>1, <2>1, <2>2, <3>2 DEF FitsInv
      <4> QED BY <4>1, MaskFinite
    <3> QED BY <2>1, <3>1, <3>2 DEF AskedInv
  <2>4. 1 .. Count(cur) \subseteq Slot
    BY <1>1, <2>3, NumCpusAssumption DEF Slot
  <2> QED BY <1>1, <1>2, <2>1, <2>4 DEF FitsInv
<1>6. CASE Spawn \/ SpawnFails \/ SpawnDone
  <2>1. dpc = "spawn" /\ dpc' \in {"spawn", "check"}
    BY <1>6 DEF Spawn, SpawnFails, SpawnDone
  <2> QED BY <1>1, <1>2, <2>1 DEF FitsInv, Working
<1>7. CASE NoMemory \/ BuildFails \/ BuildOops
  <2>1. dpc' \in {"next", "oops"}
    BY <1>7 DEF NoMemory, BuildFails, BuildOops
  <2> QED BY <1>1, <1>2, <2>1 DEF FitsInv, Working, Reporting
<1> QED BY <1>3, <1>4, <1>5, <1>6, <1>7 DEF Prepare

LEMMA FitsInductive == Spec => []FitsInv
<1>1. Init => FitsInv
  BY DEF Init, FitsInv, Working, Reporting
<1>2. TypeOK /\ AskedInv /\ FitsInv /\ [Next]_vars => FitsInv'
  <2> SUFFICES ASSUME TypeOK, AskedInv, FitsInv, [Next]_vars PROVE FitsInv'
    OBVIOUS
  <2>1. CASE RejectParams \/ Unload
    BY <2>1 DEF RejectParams, Unload, FitsInv, Working, Reporting
  <2>2. CASE InitParams
    <3>1. param.pairs \in Int /\ ~(param.pairs > NumCpus \div 2) /\ dpc' = "next"
      BY <2>2 DEF InitParams, Rejected, TypeOK, ParamType
    <3>2. param'.pairs = IF param.pairs = -1 THEN NumCpus \div 2 ELSE param.pairs
      BY <2>2 DEF InitParams, TypeOK, ParamType
    <3>3. NumCpus \div 2 \in Int
      BY NumCpusAssumption
    <3>4. param'.pairs <= NumCpus \div 2
      BY <3>1, <3>2, <3>3
    <3> QED BY <3>1, <3>4 DEF FitsInv, Working, Reporting
  <2>3. CASE NextCase
    BY <2>3 DEF NextCase, FitsInv, Working, Reporting
  <2>4. CASE Prepare
    BY <2>4, FitsPrepare
  <2>5. CASE WaitAll \/ Report
    <3>1. /\ UNCHANGED <<cur, param>> /\ dpc \in Working
          /\ dpc' \in Working \cup {"next"}
      BY <2>5 DEF WaitAll, WaitOver, MustWait, PrepareToWait, GoToSleep, WokenUp,
         Timeout, Signal, StartReport, waitFrame, Report, ReportStart,
         ReportRest, Free, driverVars, Working, Reporting
    <3>2. Count(cur)' = Count(cur)
      BY <3>1 DEF Count
    <3> QED BY <3>1, <3>2 DEF FitsInv, Working, Reporting
  <2>6. CASE \/ \E t \in Thread : Worker(t)
             \/ UNCHANGED vars
    <3>1. UNCHANGED <<dpc, cur, param, idx, mask>>
      BY <2>6, WorkerFrame DEF vars
    <3>2. Count(cur)' = Count(cur)
      BY <3>1 DEF Count
    <3> QED BY <3>1, <3>2 DEF FitsInv
  <2> QED BY <2>1, <2>2, <2>3, <2>4, <2>5, <2>6 DEF Next, Driver, Load,
             Terminated
<1> QED BY <1>1, <1>2, TypeCorrect, AskedInductive, PTL DEF Spec

LEMMA GivenUpInductive ==
  ASSUME OneCaseOnly, Patient, IpisSucceed
  PROVE  Spec => []GivenUpInv
<1>1. Init => GivenUpInv
  BY DEF Init, GivenUpInv
<1>2. TypeOK /\ BarrierInv /\ ShownInv /\ GivenUpInv /\ [Next]_vars
        => GivenUpInv'
  <2> SUFFICES ASSUME TypeOK, BarrierInv, ShownInv, GivenUpInv, [Next]_vars
               PROVE  GivenUpInv'
    OBVIOUS
  <2>1. CASE InitParams \/ NoMemory
    <3>1. /\ dpc \in {"init", "alloc"} /\ UNCHANGED <<pc, printed>>
      BY <2>1 DEF InitParams, NoMemory, workVars
    <3>2. \A t \in Thread : pc[t] = "none" /\ printed[t] = "nothing"
      BY <3>1, NobodyYet DEF ShownInv, Reporting
    <3> QED BY <3>1, <3>2 DEF GivenUpInv
  <2>2. CASE BuildFails \/ Free
    <3>1. mem'[cur'] = "freed"
      BY <2>2 DEF BuildFails, Free, driverVars, TypeOK
    <3> QED BY <3>1 DEF GivenUpInv
  <2>3. CASE Driver /\ ~(InitParams \/ NoMemory \/ BuildFails \/ Free)
    <3>1. dpc' # "next"
      BY <2>3 DEF Driver, Load, RejectParams, NextCase, Unload, Prepare, Alloc,
         BuildPair, BuildBroadcaster, BuildOops, BuildDone, Spawn, SpawnFails,
         SpawnDone, WaitAll, WaitOver, MustWait, PrepareToWait, GoToSleep, WokenUp, Timeout,
         Signal, StartReport, Report, ReportStart, ReportRest
    <3> QED BY <3>1 DEF GivenUpInv
  <2>4. ASSUME NEW t \in Thread, Worker(t) PROVE GivenUpInv'
    BY <2>4, WorkerFrame, MoverExists DEF GivenUpInv
  <2>5. CASE UNCHANGED vars
    BY <2>5 DEF vars, GivenUpInv
  <2> QED BY <2>1, <2>2, <2>3, <2>4, <2>5 DEF Next, Terminated
<1> QED BY <1>1, <1>2, TypeCorrect, BarrierInductive, ShownInductive, PTL
        DEF Spec
-----------------------------------------------------------------------------
(***************************************************************************)
(* The steps of ForkJoin in terms of the mapping.                          *)
(***************************************************************************)
LEMMA MapInit ==
  ASSUME Init
  PROVE  FJ!Init
<1>1. SelfIpi \in Case
  BY DEF Case
<1>2. /\ \A t \in Thread : pc[t] = "none" /\ printed[t] = "nothing"
      /\ mem[cur] = "none" /\ dpc = "init" /\ cur \in Case
  BY <1>1 DEF Init
<1>3. ~HasTeam
  BY <1>2, ThreadPair DEF HasTeam
<1>4. \A i \in Slot : pc[<<cur, i>>] = "none" /\ printed[<<cur, i>>] = "nothing"
                      /\ <<cur, i>> \notin Arrived
  BY <1>2, ThreadPair DEF Arrived, BeforeBarrier
<1> QED BY <1>2, <1>3, <1>4
        DEF FJ!Init, ArrivedSlots, Past, BeforeBarrier, Workers

LEMMA MapStutter ==
  ASSUME UNCHANGED <<Team, ArrivedSlots, Began, Completed, Shown, Over>>
  PROVE  UNCHANGED FJ!vars
  BY DEF FJ!vars, Team, Began, Completed, Done, Workers, Shown, Over

LEMMA MapForm ==
  ASSUME UNCHANGED <<ArrivedSlots, Began, Completed, Shown, Over>>,
         Team = {}, ~Over, Team' \subseteq Slot
  PROVE  FJ!Next
  BY DEF FJ!Next, FJ!Form, Team, Began, Completed, Done, Workers, Shown, Over

LEMMA MapEnd ==
  ASSUME UNCHANGED <<Team, ArrivedSlots, Began, Completed, Shown>>,
         Shown = Team, ~Over, Over'
  PROVE  FJ!Next
  BY DEF FJ!Next, FJ!End, Team, Began, Completed, Done, Workers, Shown, Over

LEMMA MapCome ==
  ASSUME UNCHANGED <<Team, Began, Completed, Shown, Over>>, NEW w \in Slot,
         w \in Team \ ArrivedSlots, ArrivedSlots' = ArrivedSlots \cup {w}
  PROVE  FJ!Next
  BY DEF FJ!Next, FJ!Come, Team, Began, Completed, Done, Workers, Shown, Over

LEMMA MapBegin ==
  ASSUME UNCHANGED <<Team, ArrivedSlots, Completed, Shown, Over>>,
         NEW w \in Slot, w \in Team \ Began, ArrivedSlots = Team,
         Began' = Began \cup {w}
  PROVE  FJ!Next
  BY DEF FJ!Next, FJ!Begin, Team, Began, Completed, Done, Workers, Shown, Over

LEMMA MapFinishOne ==
  ASSUME UNCHANGED <<Team, ArrivedSlots, Began, Shown, Over>>,
         NEW w \in Slot, w \in Began \ Completed,
         Completed' = Completed \cup {w}
  PROVE  FJ!Next
  BY DEF FJ!Next, FJ!FinishOne, Team, Began, Completed, Done, Workers, Shown,
         Over

LEMMA MapShowOne ==
  ASSUME UNCHANGED <<Team, ArrivedSlots, Began, Completed, Over>>,
         NEW w \in Slot, w \in Team \ Shown, Completed = Team,
         Shown' = Shown \cup {w}
  PROVE  FJ!Next
  BY DEF FJ!Next, FJ!ShowOne, Team, Began, Completed, Done, Workers, Shown,
         Over

-----------------------------------------------------------------------------
(***************************************************************************)
(* The steps of insmod.                                                    *)
(***************************************************************************)
CaseInv == /\ BarrierInv /\ CountedInv /\ FreedInv /\ ShownInv /\ FitsInv
           /\ GivenUpInv

\* The workers' sets stand still: insmod creates workers, and no more.
LEMMA SetsSteady ==
  ASSUME TypeOK, BarrierInv, Driver
  PROVE  UNCHANGED <<ArrivedSlots, Began, Completed>>
<1>1. Completed' = Completed
  BY CompletedSteady
<1>2. ASSUME UNCHANGED cur,
             \A t \in Thread : pc'[t] = pc[t] \/ (pc[t] = "none" /\ pc'[t] = "forked")
      PROVE  UNCHANGED <<ArrivedSlots, Began>>
  <2>1. \A i \in Slot : <<cur, i>> \in Thread
    BY ThreadPair DEF TypeOK
  <2>2. \A t \in Thread : (t \in Arrived <=> t \in Arrived') /\ (Past(t) <=> Past(t)')
    BY <1>2 DEF Arrived, Past, BeforeBarrier
  <2> QED BY <1>2, <2>1, <2>2 DEF ArrivedSlots, Began
<1>3. CASE NextCase
  <2>1. \A t \in Thread : pc[t] = "none" /\ pc'[t] = "none"
    BY <1>3, NobodyYet DEF NextCase, workVars
  <2>2. \A t \in Thread : /\ t \notin Arrived /\ t \notin Arrived'
                          /\ ~Past(t) /\ ~Past(t)'
    BY <2>1 DEF Arrived, Past, BeforeBarrier
  <2>3. \A i \in Slot : <<cur, i>> \in Thread /\ <<cur', i>> \in Thread
    BY <1>3, TypeLoad, ThreadPair DEF TypeOK, Load
  <2>4. ArrivedSlots = {} /\ ArrivedSlots' = {} /\ Began = {} /\ Began' = {}
    BY <2>2, <2>3 DEF ArrivedSlots, Began
  <2> QED BY <1>1, <2>4
<1>4. CASE Spawn
  BY <1>1, <1>2, <1>4, SpawnedIsNew DEF Spawn, driverVars
<1>5. CASE ~NextCase /\ ~Spawn
  BY <1>1, <1>2, <1>5, DriverFrame
<1> QED BY <1>3, <1>4, <1>5

\* Without a team there is no worker.
LEMMA NoTeam ==
  ASSUME TypeOK, \A t \in Thread : pc[t] = "none",
         dpc \in {"init", "next", "alloc", "build", "gone", "oops"}
  PROVE  ~HasTeam /\ Team = {}
  BY ThreadPair DEF HasTeam, Team, TypeOK

LEMMA NothingShown ==
  ASSUME TypeOK, \A t \in Thread : printed[t] = "nothing"
  PROVE  Shown = {}
  BY ThreadPair DEF Shown, TypeOK

LEMMA NoTeamNext ==
  ASSUME TypeOK', \A t \in Thread : pc'[t] = "none",
         dpc' \in {"init", "next", "alloc", "build", "gone", "oops"}
  PROVE  ~HasTeam' /\ Team' = {}
  BY ThreadPair DEF HasTeam, Team, TypeOK

LEMMA NothingShownNext ==
  ASSUME TypeOK', \A t \in Thread : printed'[t] = "nothing"
  PROVE  Shown' = {}
  BY ThreadPair DEF Shown, TypeOK

\* Before the first worker insmod may give the case up, which ends it, or go
\* on without showing anything of it.
LEMMA StepsBeforeTeam ==
  ASSUME TypeOK, TypeOK', CaseInv,
         \/ RejectParams \/ InitParams \/ NextCase \/ NoMemory \/ BuildFails
         \/ BuildOops \/ BuildPair \/ BuildBroadcaster
         \/ Alloc /\ dpc' = "build"
  PROVE  FJ!Next \/ UNCHANGED FJ!vars
<1>1. /\ Driver /\ pc' = pc /\ printed' = printed
      /\ \/ dpc \in {"init", "alloc", "build"}
         \/ dpc = "next" /\ todo # {}
      /\ dpc' \in {"gone", "next", "alloc", "build", "oops"}
  <2>1. CASE RejectParams \/ InitParams \/ NextCase
    BY <2>1 DEF Driver, Load, RejectParams, InitParams, NextCase, workVars
  <2>2. CASE \/ NoMemory \/ BuildFails \/ BuildOops \/ BuildPair \/ BuildBroadcaster
             \/ Alloc /\ dpc' = "build"
    BY <2>2 DEF Driver, Prepare, NoMemory, BuildFails, BuildOops, BuildPair,
       BuildBroadcaster, Alloc, workVars
  <2> QED BY <2>1, <2>2
<1>2. \A t \in Thread : pc[t] = "none" /\ printed[t] = "nothing"
  BY <1>1, NobodyYet DEF CaseInv, ShownInv, Reporting
<1>3. Team = {} /\ Team' = {}
  BY <1>1, <1>2, NoTeam, NoTeamNext
<1>4. Shown = {} /\ Shown' = {}
  BY <1>1, <1>2, NothingShown, NothingShownNext
<1>5. UNCHANGED <<ArrivedSlots, Began, Completed>>
  BY <1>1, SetsSteady DEF CaseInv
<1>6. ~Over
  BY <1>1 DEF CaseInv, FreedInv, Over, TypeOK
<1>7. CASE Over'
  BY <1>3, <1>4, <1>5, <1>6, <1>7, MapEnd
<1>8. CASE ~Over'
  BY <1>3, <1>4, <1>5, <1>6, <1>8, MapStutter DEF Over
<1> QED BY <1>7, <1>8

\* The team is formed when all arguments are in place.
LEMMA StepsFormTeam ==
  ASSUME TypeOK, TypeOK', CaseInv, FitsInv',
         \/ BuildDone
         \/ Alloc /\ dpc' = "spawn"
  PROVE  FJ!Next
<1>1. /\ Driver /\ UNCHANGED <<pc, printed, cur, param>>
      /\ dpc \in {"alloc", "build"} /\ dpc' = "spawn"
  BY DEF Driver, Prepare, BuildDone, Alloc, workVars, driverVars
<1>2. \A t \in Thread : pc[t] = "none"
  BY <1>1, NobodyYet DEF CaseInv
<1>3. Team = {}
  BY <1>1, <1>2, NoTeam
<1>4. Team' \subseteq Slot
  BY <1>1 DEF FitsInv, Working, Team
<1>5. UNCHANGED <<ArrivedSlots, Began, Completed>>
  BY <1>1, SetsSteady DEF CaseInv
<1>6. Shown' = Shown
  BY <1>1 DEF Shown
<1>7. ~Over
  BY <1>1 DEF CaseInv, FreedInv, Over
<1>8. mem'[cur'] # "freed"
  BY <1>7 DEF BuildDone, Alloc, driverVars, Over, TypeOK
<1>9. Over' = Over
  BY <1>1, <1>7, <1>8 DEF Over
<1> QED BY <1>3, <1>4, <1>5, <1>6, <1>7, <1>9, MapForm

\* While the team works, insmod leaves it as it is, and its memory too.
LEMMA StepsWithTeam ==
  ASSUME TypeOK, CaseInv,
         Spawn \/ SpawnFails \/ SpawnDone \/ WaitAll \/ ReportStart \/ ReportRest
  PROVE  /\ UNCHANGED <<Team, ArrivedSlots, Began, Completed, Over>>
         /\ Team = 1 .. Count(cur)
         /\ ReportRest \/ Shown' = Shown
<1>1. Driver /\ UNCHANGED <<cur, param, mem>> /\ dpc \in Working /\ dpc' \in Working
  <2>1. CASE Spawn \/ SpawnFails \/ SpawnDone
    BY <2>1 DEF Driver, Prepare, Spawn, SpawnFails, SpawnDone, driverVars,
       Working
  <2>2. CASE WaitAll
    BY <2>2 DEF Driver, WaitAll, WaitOver, MustWait, PrepareToWait, GoToSleep,
       WokenUp, Timeout, Signal, StartReport, waitFrame, driverVars, Working,
       Reporting
  <2>3. CASE ReportStart \/ ReportRest
    BY <2>3 DEF Driver, Report, ReportStart, ReportRest, driverVars, Working,
       Reporting
  <2> QED BY <2>1, <2>2, <2>3
<1>2. HasTeam /\ HasTeam'
  BY <1>1 DEF HasTeam, Working, Reporting
<1>3. Count(cur)' = Count(cur)
  BY <1>1 DEF Count
<1>4. ~Over /\ ~Over'
  BY <1>1 DEF Over, CaseInv, FreedInv, Working, Reporting
<1>5. ReportRest \/ printed' = printed
  BY DEF Spawn, SpawnFails, SpawnDone, WaitAll, WaitOver, MustWait,
     PrepareToWait, GoToSleep, WokenUp, Timeout, Signal, waitFrame, ReportStart
<1>6. ReportRest \/ Shown' = Shown
  BY <1>1, <1>5 DEF Shown
<1>7. Team = 1 .. Count(cur) /\ Team' = Team
  BY <1>2, <1>3 DEF Team
<1>8. Over' = Over
  BY <1>4 DEF Over
<1>9. UNCHANGED <<ArrivedSlots, Began, Completed>>
  BY <1>1, SetsSteady DEF CaseInv
<1> QED BY <1>6, <1>7, <1>8, <1>9

\* A line of the report shows one worker.
LEMMA StepsShow ==
  ASSUME TypeOK, CaseInv, WrittenInv, ReportRest
  PROVE  FJ!Next
<1>1. UNCHANGED <<Team, ArrivedSlots, Began, Completed, Over>> /\ Team = 1 .. Count(cur)
  BY StepsWithTeam
<1>2. /\ idx \in Slot /\ idx <= Count(cur) /\ Shown' = Shown \cup {idx}
  BY LineExact DEF CaseInv
<1>3. Completed = Team /\ Shown = 1 .. idx - 1
  BY <1>1 DEF ReportRest, CaseInv, CountedInv, ShownInv, Reporting
<1>4. idx \in Int /\ idx >= 1 /\ Count(cur) \in Int
  BY <1>2, CountIsInt DEF Slot, TypeOK
<1>5. idx \in Team \ Shown
  BY <1>1, <1>2, <1>3, <1>4
<1> QED BY <1>1, <1>2, <1>3, <1>5, MapShowOne

\* The kfree comes when all have been shown.
LEMMA StepsFree ==
  ASSUME TypeOK, CaseInv, FitsInv, Free
  PROVE  FJ!Next
<1>1. /\ Driver /\ UNCHANGED <<cur, param, pc, printed>> /\ dpc = "report"
      /\ dpc' = "next" /\ idx > Count(cur)
  BY DEF Driver, Report, Free, driverVars, workVars
<1>2. mem'[cur'] = "freed"
  BY DEF Free, driverVars, TypeOK
<1>3. ~Over /\ Over'
  BY <1>1, <1>2 DEF Over, CaseInv, FreedInv
<1>4. HasTeam /\ Team = 1 .. Count(cur) /\ Count(cur) \in Int
  BY <1>1, CountIsInt DEF HasTeam, Team, TypeOK
<1>5. Shown = 1 .. idx - 1 /\ idx - 1 = Count(cur)
  BY <1>1, <1>4 DEF CaseInv, ShownInv, Reporting, TypeOK
<1>6. Count(cur)' = Count(cur)
  BY <1>1 DEF Count
<1>7. Team' = Team
  <2>1. CASE 1 \in 1 .. Count(cur)
    <3>1. 1 \in Completed
      BY <1>1, <2>1 DEF CaseInv, CountedInv, Reporting
    <3>2. 1 \in Slot /\ pc'[<<cur', 1>>] # "none"
      BY <1>1, <3>1 DEF Completed, Done
    <3>3. HasTeam'
      BY <3>2 DEF HasTeam
    <3> QED BY <1>4, <1>6, <3>3 DEF Team
  <2>2. CASE 1 \notin 1 .. Count(cur)
    <3>1. 1 .. Count(cur) = {}
      BY <1>4, <2>2
    <3> QED BY <1>4, <1>6, <3>1 DEF Team
  <2> QED BY <2>1, <2>2
<1>8. UNCHANGED <<ArrivedSlots, Began, Completed>>
  BY <1>1, SetsSteady DEF CaseInv
<1>9. Shown' = Shown
  BY <1>1 DEF Shown
<1> QED BY <1>3, <1>4, <1>5, <1>7, <1>8, <1>9, MapEnd

\* The unload ends only what was given up; a case that was run is over.
LEMMA StepsUnload ==
  ASSUME TypeOK, TypeOK', CaseInv, Unload
  PROVE  FJ!Next \/ UNCHANGED FJ!vars
<1>1. /\ Driver /\ UNCHANGED <<cur, param, pc, printed, mem>> /\ dpc = "next"
      /\ dpc' = "gone"
  BY DEF Driver, Load, Unload, driverVars, workVars
<1>2. UNCHANGED <<ArrivedSlots, Began, Completed>>
  BY <1>1, SetsSteady DEF CaseInv
<1>3. Shown' = Shown
  BY <1>1 DEF Shown
<1>4. Team' = Team
  <2>1. HasTeam' <=> HasTeam
    BY <1>1 DEF HasTeam
  <2>2. Count(cur)' = Count(cur)
    BY <1>1 DEF Count
  <2> QED BY <2>1, <2>2 DEF Team
<1>5. CASE mem[cur] = "freed"
  <2>1. Over /\ Over'
    BY <1>1, <1>5 DEF Over
  <2> QED BY <1>2, <1>3, <1>4, <2>1, MapStutter
<1>6. CASE mem[cur] # "freed"
  <2>1. \A t \in Thread : pc[t] = "none" /\ printed[t] = "nothing"
    BY <1>1, <1>6 DEF CaseInv, GivenUpInv
  <2>2. Team = {} /\ Shown = {}
    BY <1>1, <2>1, NoTeam, NothingShown
  <2>3. ~Over /\ Over'
    BY <1>1, <1>6 DEF Over
  <2> QED BY <1>2, <1>3, <1>4, <2>2, <2>3, MapEnd
<1> QED BY <1>5, <1>6

-----------------------------------------------------------------------------
(***************************************************************************)
(* The steps of the workers.                                               *)
(***************************************************************************)
LEMMA WorkerInTeam ==
  ASSUME TypeOK, CaseInv, NEW t \in Thread, Worker(t)
  PROVE  /\ UNCHANGED <<Team, Shown, Over>>
         /\ t = <<cur, t[2]>> /\ t[2] \in Slot /\ t[2] \in Team
         /\ Team = 1 .. should_run
         /\ cur' = cur /\ \A i \in Slot \ {t[2]} : pc'[<<cur, i>>] = pc[<<cur, i>>]
<1>1. /\ UNCHANGED <<param, dpc, cur, should_run, mem, printed>>
      /\ \A u \in Thread \ {t} : pc'[u] = pc[u]
  BY WorkerFrame
<1>2. pc[t] # "none"
  BY MoverExists
<1>3. pc'[t] # "none"
  BY <1>2 DEF Worker, Barrier, Measure, Notify, Forked, Arrive, LeaveSpin,
     CheckPasses, CheckFails, ExitOnBug, Start, Bench, BenchFails, Finish,
     RecordRunDelay, Complete, WakeUp, Return, GoWild, Moves, TypeOK
<1>4. /\ t = <<cur, t[2]>> /\ t[2] \in Slot
      /\ t[2] <= should_run /\ should_run = Count(cur)
  BY <1>2, ThreadPair DEF CaseInv, BarrierInv, OnlyCurRuns
<1>5. HasTeam /\ HasTeam'
  <2>1. HasTeam
    BY <1>2, <1>4 DEF HasTeam
  <2>2. pc'[<<cur', t[2]>>] # "none"
    BY <1>1, <1>3, <1>4
  <2>3. HasTeam'
    BY <1>4, <2>2 DEF HasTeam
  <2> QED BY <2>1, <2>3
<1>6. Count(cur)' = Count(cur)
  BY <1>1 DEF Count
<1>7. Team = 1 .. should_run /\ Team' = Team
  BY <1>4, <1>5, <1>6 DEF Team
<1>8. t[2] \in Team
  BY <1>4, <1>7 DEF Slot, TypeOK
<1>9. Shown' = Shown /\ Over' = Over
  BY <1>1 DEF Shown, Over
<1>10. \A i \in Slot \ {t[2]} : pc'[<<cur, i>>] = pc[<<cur, i>>]
  <2>1. \A i \in Slot \ {t[2]} : <<cur, i>> \in Thread /\ <<cur, i>> # t
    BY <1>4, ThreadPair DEF TypeOK
  <2> QED BY <1>1, <2>1
<1> QED BY <1>1, <1>4, <1>7, <1>8, <1>9, <1>10

\* A set of slots that depends on where the workers are, after t has moved.
LEMMA SlotSets ==
  ASSUME TypeOK, TypeOK', NEW t \in Thread, t = <<cur, t[2]>>, t[2] \in Slot,
         cur' = cur,
         \A i \in Slot \ {t[2]} : pc'[<<cur, i>>] = pc[<<cur, i>>]
  PROVE  /\ (pc[t] \in BeforeBarrier <=> pc'[t] \in BeforeBarrier)
              => ArrivedSlots' = ArrivedSlots
         /\ (pc[t] \in BeforeBarrier /\ pc'[t] \notin BeforeBarrier)
              => ArrivedSlots' = ArrivedSlots \cup {t[2]} /\ t[2] \notin ArrivedSlots
         /\ (Past(t) <=> pc'[t] \notin BeforeBarrier \cup AtBarrier)
              => Began' = Began
         /\ (~Past(t) /\ pc'[t] \notin BeforeBarrier \cup AtBarrier)
              => Began' = Began \cup {t[2]} /\ t[2] \notin Began
<1>1. \A i \in Slot : <<cur, i>> \in Thread
  BY ThreadPair DEF TypeOK
<1>2. ArrivedSlots = {i \in Slot : pc[<<cur, i>>] \notin BeforeBarrier}
  BY <1>1 DEF ArrivedSlots, Arrived
<1>3. ArrivedSlots' = {i \in Slot : pc'[<<cur, i>>] \notin BeforeBarrier}
  BY <1>1 DEF ArrivedSlots, Arrived
<1>4. Began = {i \in Slot : pc[<<cur, i>>] \notin BeforeBarrier \cup AtBarrier}
  BY DEF Began, Past
<1>5. Began' = {i \in Slot : pc'[<<cur, i>>] \notin BeforeBarrier \cup AtBarrier}
  BY DEF Began, Past
<1>6. pc'[<<cur, t[2]>>] = pc'[t] /\ pc[<<cur, t[2]>>] = pc[t]
  OBVIOUS
<1>7. Past(t) <=> pc[t] \notin BeforeBarrier \cup AtBarrier
  BY DEF Past
<1>8. (pc[t] \in BeforeBarrier <=> pc'[t] \in BeforeBarrier)
        => ArrivedSlots' = ArrivedSlots
  BY <1>2, <1>3, <1>6
<1>9. (pc[t] \in BeforeBarrier /\ pc'[t] \notin BeforeBarrier)
        => ArrivedSlots' = ArrivedSlots \cup {t[2]} /\ t[2] \notin ArrivedSlots
  BY <1>2, <1>3, <1>6
<1>10. (Past(t) <=> pc'[t] \notin BeforeBarrier \cup AtBarrier) => Began' = Began
  BY <1>4, <1>5, <1>6, <1>7
<1>11. (~Past(t) /\ pc'[t] \notin BeforeBarrier \cup AtBarrier)
              => Began' = Began \cup {t[2]} /\ t[2] \notin Began
  BY <1>4, <1>5, <1>6, <1>7
<1> QED BY <1>8, <1>9, <1>10, <1>11

LEMMA StepsOfWorker ==
  ASSUME TypeOK, TypeOK', CaseInv, NEW t \in Thread, Worker(t)
  PROVE  FJ!Next \/ UNCHANGED FJ!vars
<1>1. /\ UNCHANGED <<Team, Shown, Over>>
      /\ t = <<cur, t[2]>> /\ t[2] \in Slot /\ t[2] \in Team
      /\ Team = 1 .. should_run
      /\ cur' = cur /\ \A i \in Slot \ {t[2]} : pc'[<<cur, i>>] = pc[<<cur, i>>]
  BY WorkerInTeam
<1> USE SlotSets DEF BeforeBarrier, AtBarrier, Past
<1>2. CASE Arrive(t)
  <2>1. pc[t] = "arrive" /\ pc'[t] = "spin"
    BY <1>2 DEF Arrive, Moves, TypeOK
  <2>2. /\ ArrivedSlots' = ArrivedSlots \cup {t[2]} /\ t[2] \notin ArrivedSlots
        /\ Began' = Began
    BY <1>1, <2>1
  <2>3. ~Complete(t)
    BY <2>1 DEF Complete, Moves
  <2>4. Completed' = Completed
    BY <2>3, CompletedWorker DEF CaseInv
  <2> QED BY <1>1, <2>2, <2>4, MapCome
<1>3. CASE CheckPasses(t)
  <2>1. pc[t] = "check" /\ pc'[t] = "start" /\ ready_to_run = should_run
    BY <1>3 DEF CheckPasses, Moves, TypeOK
  <2>2. ArrivedSlots' = ArrivedSlots /\ Began' = Began \cup {t[2]} /\ t[2] \notin Began
    BY <1>1, <2>1
  <2>3. ArrivedSlots = Team
    BY <1>1, <2>1, ArrivedBound DEF CaseInv, BarrierInv
  <2>4. ~Complete(t)
    BY <2>1 DEF Complete, Moves
  <2>5. Completed' = Completed
    BY <2>4, CompletedWorker DEF CaseInv
  <2> QED BY <1>1, <2>2, <2>3, <2>5, MapBegin
<1>4. CASE Complete(t)
  <2>1. pc[t] = "complete" /\ pc'[t] = "wake"
    BY <1>4 DEF Complete, Moves, TypeOK
  <2>2. ArrivedSlots' = ArrivedSlots /\ Began' = Began
    BY <1>1, <2>1
  <2>3. t[2] \in Slot \ Completed /\ Completed' = Completed \cup {t[2]}
    BY <1>4, CompletedWorker DEF CaseInv
  <2>4. t[2] \in Began
    BY <1>1, <2>1 DEF Began
  <2> QED BY <1>1, <2>2, <2>3, <2>4, MapFinishOne
<1>5. CASE CheckFails(t) \/ ExitOnBug(t)
  <2>1. \/ pc[t] = "check" /\ ready_to_run # should_run
        \/ pc[t] = "bug"
    BY <1>5 DEF CheckFails, ExitOnBug, Moves
  <2> QED BY <2>1 DEF CaseInv, BarrierInv, PastMeansAll
<1>6. CASE ~(\/ Arrive(t) \/ CheckPasses(t) \/ Complete(t)
             \/ CheckFails(t) \/ ExitOnBug(t))
  <2>1. /\ pc[t] \in BeforeBarrier <=> pc'[t] \in BeforeBarrier
        /\ Past(t) <=> pc'[t] \notin BeforeBarrier \cup AtBarrier
    BY <1>6 DEF Worker, Barrier, Measure, Notify, Forked, LeaveSpin, Start, Bench,
       BenchFails, Finish, RecordRunDelay, WakeUp, Return, GoWild, Moves, TypeOK
  <2>2. ArrivedSlots' = ArrivedSlots /\ Began' = Began
    BY <1>1, <2>1
  <2>3. Completed' = Completed
    BY <1>6, CompletedWorker DEF CaseInv
  <2> QED BY <1>1, <2>2, <2>3, MapStutter
<1> QED BY <1>2, <1>3, <1>4, <1>5, <1>6

-----------------------------------------------------------------------------
\* With one options flag, no wait that is cut short and no IPI that is
\* refused, what ipi_bench_init and its workers do (ipi_bench.c:120-559) is
\* what ForkJoin allows: no worker sends IPIs before all have come to the
\* barrier, no final figures are reported before all workers have completed,
\* and the case does not end before those of all have been reported.
THEOREM CaseIsForkJoin ==
  ASSUME OneCaseOnly, Patient, IpisSucceed
  PROVE  Spec => FJ!SafeSpec
<1>1. Init => FJ!Init
  BY MapInit
<1>2. /\ TypeOK /\ CaseInv /\ WrittenInv /\ FitsInv' /\ TypeOK' /\ [Next]_vars
      => [FJ!Next]_FJ!vars
  <2> SUFFICES ASSUME TypeOK, CaseInv, WrittenInv, FitsInv', TypeOK', [Next]_vars
               PROVE  FJ!Next \/ UNCHANGED FJ!vars
    OBVIOUS
  <2>1. CASE UNCHANGED vars
    <3>1. UNCHANGED <<dpc, cur, param, pc, mem, printed>>
      BY <2>1 DEF vars
    <3>2. HasTeam' <=> HasTeam
      BY <3>1 DEF HasTeam
    <3>3. Count(cur)' = Count(cur)
      BY <3>1 DEF Count
    <3>4. Team' = Team
      BY <3>2, <3>3 DEF Team
    <3>5. UNCHANGED <<ArrivedSlots, Began, Completed, Shown, Over>>
      BY <3>1 DEF ArrivedSlots, Arrived, Began, Past, Completed, Shown, Over
    <3> QED BY <3>4, <3>5, MapStutter
  <2>2. CASE Load
    BY <2>2, StepsBeforeTeam, StepsUnload DEF Load
  <2>3. CASE Prepare
    <3>1. Alloc => dpc' \in {"build", "spawn"}
      BY DEF Alloc
    <3>2. CASE Spawn \/ SpawnFails \/ SpawnDone
      <4>1. ~ReportRest
        BY <3>2 DEF Spawn, SpawnFails, SpawnDone, ReportRest
      <4> QED BY <3>2, <4>1, StepsWithTeam, MapStutter
    <3>3. CASE Prepare /\ ~(Spawn \/ SpawnFails \/ SpawnDone)
      BY <3>1, <3>3, StepsBeforeTeam, StepsFormTeam DEF Prepare
    <3> QED BY <2>3, <3>2, <3>3
  <2>4. CASE WaitAll \/ ReportStart
    <3>1. ~ReportRest
      BY <2>4 DEF WaitAll, WaitOver, MustWait, PrepareToWait, GoToSleep, WokenUp,
         Timeout, Signal, ReportStart, ReportRest
    <3> QED BY <2>4, <3>1, StepsWithTeam, MapStutter
  <2>5. CASE ReportRest
    BY <2>5, StepsShow
  <2>6. CASE Free
    BY <2>6, StepsFree DEF CaseInv
  <2>7. ASSUME NEW t \in Thread, Worker(t) PROVE FJ!Next \/ UNCHANGED FJ!vars
    BY <2>7, StepsOfWorker
  <2> QED BY <2>1, <2>2, <2>3, <2>4, <2>5, <2>6, <2>7
          DEF Next, Driver, Report, Terminated
<1>3. Spec => []CaseInv
  BY BarrierInductive, CountedInductive, FreedInductive, ShownInductive,
     FitsInductive, GivenUpInductive, PTL DEF CaseInv
<1> QED BY <1>1, <1>2, <1>3, TypeCorrect, WrittenInductive, FitsInductive, PTL
        DEF Spec, FJ!SafeSpec
=============================================================================
