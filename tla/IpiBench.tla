------------------------------ MODULE IpiBench ------------------------------
(***************************************************************************)
(* The ipi_bench kernel module: insmod runs ipi_bench_init, which runs the *)
(* benchmark cases its options flags select, one after the other.  A case  *)
(* allocates one struct bench_args per worker, binds a kthread per worker, *)
(* lets them meet at a counting barrier, waits for them on wait_complete,  *)
(* reports and frees the arguments.  ipi_bench_init always returns -1, so  *)
(* the module is unloaded as soon as the last case is over.                *)
(*                                                                         *)
(* The driver is the thread of insmod; a worker is named by its case and   *)
(* its slot in the bas[] array of that case.                               *)
(***************************************************************************)
EXTENDS Integers, FiniteSets

CONSTANTS
  NumCpus,   \* num_online_cpus(); the online CPUs are 0 .. NumCpus-1
  NodeOf,    \* cpu_to_node(), a function of the CPU
  Params,    \* the module parameters insmod may be given
  Faults     \* what the kernel may do to the run, a subset of FaultKind

SelfIpi   == 0
SingleIpi == 1
MeshIpi   == 2
AllIpi    == 3

Case   == {SelfIpi, SingleIpi, MeshIpi, AllIpi}
Cpu    == 0 .. NumCpus - 1
NoCpu  == -1
Slot   == 1 .. NumCpus
Thread == Case \X Slot

FaultKind == {"nomem", "nothread", "timeout", "signal", "ipi"}

ParamType == [options : SUBSET Case, srccpu : Int, dstcpu : Int,
              pairs : Int, acrossnuma : BOOLEAN, broadcasts : Int]

ASSUME NumCpusAssumption == NumCpus \in Nat \ {0}
ASSUME NodeOfAssumption  == NodeOf \in [Cpu -> Nat]
ASSUME ParamsAssumption  == Params \subseteq ParamType
ASSUME FaultsAssumption  == Faults \subseteq FaultKind

VARIABLES
  asked,         \* the parameters insmod was given
  param,         \* the parameters after ipi_bench_init_params
  dpc,           \* where the driver is
  todo,          \* the cases still to run
  cur,           \* the case that runs
  idx,           \* the driver's loop index i, counted from 1
  mask,          \* the cpumask of the CPUs already given to a worker
  tstate,        \* the driver's task state, for wait_complete
  seen,          \* the report has read a non-zero ba->start
  ready_to_run, should_run, complete_run,
  mem,           \* the allocation of each case's bench_args
  src, dst,      \* ba->src and ba->dst
  ba,            \* the fields of ba the worker has written
  pc,            \* where each worker is
  wild,          \* the workers that ran in freed memory
  printed        \* what the report said of each worker

driverVars == <<asked, param, todo, cur, mask>>
placeVars  == <<src, dst>>
countVars  == <<ready_to_run, should_run, complete_run>>
workVars   == <<ba, pc, wild>>
vars == <<asked, param, dpc, todo, cur, idx, mask, tstate, seen, ready_to_run,
          should_run, complete_run, mem, src, dst, ba, pc, wild, printed>>

DriverPc == {"init", "next", "alloc", "build", "spawn", "check", "prepare",
             "recheck", "asleep", "report", "report_rest", "gone", "oops"}
WorkerPc == {"none", "forked", "arrive", "spin", "check", "bug", "start",
             "bench", "finish", "delay", "complete", "wake", "ret", "ended",
             "bugged"}
Stamp    == {"forked", "start", "ipitime", "finish", "run_delay"}

Init ==
  /\ asked \in Params
  /\ param = asked
  /\ dpc = "init"
  /\ todo = {} /\ cur = SelfIpi /\ idx = 1 /\ mask = {}
  /\ tstate = "running" /\ seen = FALSE
  /\ ready_to_run = 0 /\ should_run = 0 /\ complete_run = 0
  /\ mem = [c \in Case |-> "none"]
  /\ src = [t \in Thread |-> 0] /\ dst = [t \in Thread |-> 0]
  /\ ba = [t \in Thread |-> {}]
  /\ pc = [t \in Thread |-> "none"]
  /\ wild = {}
  /\ printed = [t \in Thread |-> "nothing"]

-----------------------------------------------------------------------------
(***************************************************************************)
(* ipi_bench_init and ipi_bench_init_params.                               *)
(***************************************************************************)
Rejected(p) == \/ p.options = {}
               \/ NumCpus < 2
               \/ p.srccpu >= NumCpus \/ p.dstcpu >= NumCpus
               \/ p.pairs > NumCpus \div 2

\* Faulty variant of SrcChoices: the first loop only looks for -1.
SrcChoices_AnySrc(p) == IF p.srccpu = -1 THEN Cpu ELSE {p.srccpu}

\* The two retry loops end with some pair of CPUs that passes their tests.
SrcChoices(p)    == IF p.srccpu \in {-1, p.dstcpu} THEN Cpu \ {p.dstcpu}
                                                   ELSE {p.srccpu}
DstChoices(p, s) == IF p.dstcpu \in {-1, s} THEN Cpu \ {s} ELSE {p.dstcpu}

RejectParams ==
  /\ dpc = "init" /\ Rejected(param)
  /\ dpc' = "gone"
  /\ UNCHANGED <<driverVars, idx, tstate, seen, countVars, mem, placeVars,
                 workVars, printed>>

InitParams ==
  /\ dpc = "init" /\ ~Rejected(param)
  /\ \E s \in SrcChoices(param) : \E d \in DstChoices(param, s) :
       param' = [param EXCEPT
                   !.srccpu = s, !.dstcpu = d,
                   !.pairs = IF @ = -1 THEN NumCpus \div 2 ELSE @,
                   !.broadcasts = IF @ = -1 THEN 1 ELSE @]
  /\ todo' = param.options
  /\ dpc' = "next"
  /\ UNCHANGED <<asked, cur, idx, mask, tstate, seen, countVars, mem,
                 placeVars, workVars, printed>>

\* The if statements of ipi_bench_init test the flags in this order.
NextCase ==
  /\ dpc = "next" /\ todo # {}
  /\ cur' = CHOOSE c \in todo : \A d \in todo : c <= d
  /\ todo' = todo \ {cur'}
  /\ dpc' = "alloc"
  /\ UNCHANGED <<asked, param, idx, mask, tstate, seen, countVars, mem,
                 placeVars, workVars, printed>>

\* "return -1": the module's text, data and arguments are gone.
Unload ==
  /\ dpc = "next" /\ todo = {}
  /\ dpc' = "gone"
  /\ UNCHANGED <<driverVars, idx, tstate, seen, countVars, mem, placeVars,
                 workVars, printed>>

-----------------------------------------------------------------------------
(***************************************************************************)
(* ipi_bench_self, ipi_bench_single, ipi_bench_mesh and ipi_bench_all.     *)
(***************************************************************************)
Count(c) == CASE c = MeshIpi -> param.pairs
              [] c = AllIpi  -> param.broadcasts
              [] OTHER       -> 1

\* Faulty variant of Allocatable: any count is allocated.
Allocatable_Any(c) == TRUE

\* A negative count asks kzalloc for an impossible size.
Allocatable(c) == Count(c) >= 0

\* Faulty variant of ShouldRun: the value of the one-worker cases everywhere.
ShouldRun_One(c) == 1

ShouldRun(c) == Count(c)

NoMemory ==
  /\ dpc = "alloc"
  /\ "nomem" \in Faults \/ ~Allocatable(cur)
  /\ dpc' = "next"
  /\ UNCHANGED <<driverVars, idx, tstate, seen, countVars, mem, placeVars,
                 workVars, printed>>

Alloc ==
  /\ dpc = "alloc" /\ Allocatable(cur)
  /\ mem' = [mem EXCEPT ![cur] = "live"]
  /\ should_run' = ShouldRun(cur)
  /\ mask' = {} /\ idx' = 1
  /\ IF cur \in {MeshIpi, AllIpi}
       THEN dpc' = "build" /\ UNCHANGED placeVars
       ELSE /\ dpc' = "spawn"
            /\ src' = [src EXCEPT ![<<cur, 1>>] = param.srccpu]
            /\ dst' = [dst EXCEPT ![<<cur, 1>>] =
                         IF cur = SelfIpi THEN param.srccpu ELSE param.dstcpu]
  /\ UNCHANGED <<asked, param, todo, cur, tstate, seen, ready_to_run,
                 complete_run, workVars, printed>>

\* Faulty variant of UnusedCpu: the CPUs given away are not left out.
UnusedCpu_Reused(used, node) == {c \in Cpu : node < 0 \/ NodeOf[c] = node}

\* __random_unused_cpu_in_cpumask: a CPU outside used, on the node if one is
\* asked for; -1 when the retries run out, as they must if there is none.
UnusedCpu(used, node) ==
  {c \in Cpu \ used : node < 0 \/ NodeOf[c] = node}

WantedNode(s) == IF param.acrossnuma THEN -1 ELSE NodeOf[s]

BuildPair ==
  /\ dpc = "build" /\ cur = MeshIpi /\ idx <= Count(cur)
  /\ \E s \in UnusedCpu(mask, -1) :
       \E d \in UnusedCpu(mask \cup {s}, WantedNode(s)) :
         /\ src' = [src EXCEPT ![<<cur, idx>>] = s]
         /\ dst' = [dst EXCEPT ![<<cur, idx>>] = d]
         /\ mask' = mask \cup {s, d}
  /\ idx' = idx + 1
  /\ UNCHANGED <<asked, param, dpc, todo, cur, tstate, seen, countVars, mem,
                 workVars, printed>>

BuildBroadcaster ==
  /\ dpc = "build" /\ cur = AllIpi /\ idx <= Count(cur)
  /\ \E s \in UnusedCpu(mask, -1) :
         /\ src' = [src EXCEPT ![<<cur, idx>>] = s]
         /\ mask' = mask \cup {s}
  /\ idx' = idx + 1
  /\ UNCHANGED <<asked, param, dpc, todo, cur, tstate, seen, countVars, mem,
                 dst, workVars, printed>>

\* "init mesh failed", "init broadcast workers failed": goto out.
BuildFails ==
  /\ dpc = "build" /\ idx <= Count(cur)
  /\ mem' = [mem EXCEPT ![cur] = "freed"]
  /\ dpc' = "next"
  /\ UNCHANGED <<driverVars, idx, tstate, seen, countVars, placeVars,
                 workVars, printed>>

\* Without acrossnuma cpu_to_node is asked for the node of ba->src before the
\* test for -1: what lies before the array is read, which may kill insmod.
BuildOops ==
  /\ dpc = "build" /\ idx <= Count(cur)
  /\ cur = MeshIpi /\ ~param.acrossnuma
  /\ dpc' = "oops"
  /\ UNCHANGED <<driverVars, idx, tstate, seen, countVars, mem, placeVars,
                 workVars, printed>>

BuildDone ==
  /\ dpc = "build" /\ idx > Count(cur)
  /\ dpc' = "spawn" /\ idx' = 1
  /\ UNCHANGED <<driverVars, tstate, seen, countVars, mem, placeVars,
                 workVars, printed>>

\* ipi_bench_one_task, ipi_bench_all_task: create, bind and wake the kthread.
Spawn ==
  /\ dpc = "spawn" /\ idx <= Count(cur)
  /\ pc' = [pc EXCEPT ![<<cur, idx>>] = "forked"]
  /\ idx' = idx + 1
  /\ UNCHANGED <<driverVars, dpc, tstate, seen, countVars, mem, placeVars,
                 ba, wild, printed>>

\* kthread_create_on_node fails: the callers ignore the -1.
SpawnFails ==
  /\ dpc = "spawn" /\ idx <= Count(cur) /\ "nothread" \in Faults
  /\ idx' = idx + 1
  /\ UNCHANGED <<driverVars, dpc, tstate, seen, countVars, mem, placeVars,
                 workVars, printed>>

SpawnDone ==
  /\ dpc = "spawn" /\ idx > Count(cur)
  /\ dpc' = "check"
  /\ UNCHANGED <<driverVars, idx, tstate, seen, countVars, mem, placeVars,
                 workVars, printed>>

-----------------------------------------------------------------------------
(***************************************************************************)
(* ipi_bench_wait_all: wait_event_interruptible_timeout on wait_complete.  *)
(* The macro tests the condition, queues the task, tests it again and only *)
(* then sleeps; a wake-up, the timer or a signal sets the task running.    *)
(***************************************************************************)
\* Faulty variants of AllComplete: the first worker is enough; the barrier's
\* counter is tested instead of the completions.
AllComplete_First == complete_run > 0
AllComplete_Ready == ready_to_run = should_run

AllComplete == complete_run = should_run

waitFrame == <<driverVars, seen, countVars, mem, placeVars, workVars, printed>>

StartReport == dpc' = "report" /\ idx' = 1 /\ tstate' = "running"

WaitOver ==
  /\ dpc \in {"check", "recheck"} /\ AllComplete
  /\ StartReport
  /\ UNCHANGED waitFrame

MustWait ==
  /\ dpc = "check" /\ ~AllComplete
  /\ dpc' = "prepare"
  /\ UNCHANGED <<waitFrame, idx, tstate>>

PrepareToWait ==
  /\ dpc = "prepare"
  /\ tstate' = "sleeping" /\ dpc' = "recheck"
  /\ UNCHANGED <<waitFrame, idx>>

GoToSleep ==
  /\ dpc = "recheck" /\ ~AllComplete
  /\ dpc' = "asleep"
  /\ UNCHANGED <<waitFrame, idx, tstate>>

WokenUp ==
  /\ dpc = "asleep" /\ tstate = "running"
  /\ dpc' = "prepare"
  /\ UNCHANGED <<waitFrame, idx, tstate>>

\* Faulty variant of Timeout: the wait has no time limit.
Timeout_Never == FALSE /\ StartReport /\ UNCHANGED waitFrame

\* timeoutms have passed: the return value is not looked at.
Timeout ==
  /\ dpc = "asleep" /\ "timeout" \in Faults
  /\ StartReport
  /\ UNCHANGED waitFrame

\* -ERESTARTSYS, just as little looked at.
Signal ==
  /\ dpc \in {"prepare", "asleep"} /\ "signal" \in Faults
  /\ StartReport
  /\ UNCHANGED waitFrame

-----------------------------------------------------------------------------
(***************************************************************************)
(* ipi_bench_report_single, ipi_bench_report_all and the kfree.  ba->start *)
(* is read before the other figures, and a worker may run in between.      *)
(***************************************************************************)
Figures(c) == {"start", "finish", "run_delay"}
              \cup (IF c = AllIpi THEN {} ELSE {"ipitime"})

ReportStart ==
  /\ dpc = "report" /\ idx <= Count(cur)
  /\ seen' = ("start" \in ba[<<cur, idx>>])
  /\ dpc' = "report_rest"
  /\ UNCHANGED <<driverVars, idx, tstate, countVars, mem, placeVars, workVars,
                 printed>>

ReportRest ==
  /\ dpc = "report_rest"
  /\ LET t == <<cur, idx>>
     IN  printed' = [printed EXCEPT ![t] =
                       IF "finish" \notin ba[t] THEN "toomany"
                       ELSE IF seen /\ Figures(cur) \subseteq ba[t]
                              THEN "exact" ELSE "skewed"]
  /\ dpc' = "report" /\ idx' = idx + 1
  /\ UNCHANGED <<driverVars, tstate, seen, countVars, mem, placeVars,
                 workVars>>

Free ==
  /\ dpc = "report" /\ idx > Count(cur)
  /\ mem' = [mem EXCEPT ![cur] = "freed"]
  /\ dpc' = "next"
  /\ UNCHANGED <<driverVars, idx, tstate, seen, countVars, placeVars,
                 workVars, printed>>

-----------------------------------------------------------------------------
(***************************************************************************)
(* The workers: ipi_bench_single_task and ipi_bench_many_task.  A worker   *)
(* that is about to use its freed bench_args, or any of the module's text  *)
(* and data after the unload, goes wild: what it does then is undefined    *)
(* and is not followed further.                                            *)
(***************************************************************************)
UsesArgs == {"forked", "start", "bench", "finish", "delay"}
Alive(t) == pc[t] \notin {"none", "ended", "bugged"}
InFreed(t) == \/ dpc = "gone"
              \/ pc[t] \in UsesArgs /\ mem[t[1]] = "freed"

GoWild(t) ==
  /\ Alive(t) /\ t \notin wild /\ InFreed(t)
  /\ wild' = wild \cup {t}
  /\ UNCHANGED <<driverVars, dpc, idx, tstate, seen, countVars, mem,
                 placeVars, ba, pc, printed>>

\* t runs from one place to the next; its memory is still there.
Moves(t, from, to) ==
  /\ pc[t] = from /\ t \notin wild /\ ~InFreed(t)
  /\ pc' = [pc EXCEPT ![t] = to]
  /\ UNCHANGED <<driverVars, dpc, idx, seen, should_run, mem, placeVars, wild,
                 printed>>

Writes(t, stamp) == ba' = [ba EXCEPT ![t] = @ \cup {stamp}]

Forked(t) ==
  /\ Moves(t, "forked", "arrive") /\ Writes(t, "forked")
  /\ UNCHANGED <<tstate, ready_to_run, complete_run>>

Arrive(t) ==
  /\ Moves(t, "arrive", "spin")
  /\ ready_to_run' = ready_to_run + 1
  /\ UNCHANGED <<tstate, complete_run, ba>>

\* Faulty variants of SpinOver: one arrival too early, and one too late.
SpinOver_Early == ready_to_run >= should_run - 1
SpinOver_Late  == ready_to_run > should_run

\* while (ready_to_run < should_run);
SpinOver == ready_to_run >= should_run

LeaveSpin(t) ==
  /\ SpinOver
  /\ Moves(t, "spin", "check")
  /\ UNCHANGED <<tstate, ready_to_run, complete_run, ba>>

CheckPasses(t) ==
  /\ ready_to_run = should_run
  /\ Moves(t, "check", "start")
  /\ UNCHANGED <<tstate, ready_to_run, complete_run, ba>>

CheckFails(t) ==
  /\ ready_to_run # should_run
  /\ Moves(t, "check", "bug")
  /\ UNCHANGED <<tstate, ready_to_run, complete_run, ba>>

\* "BUG, exit benchmark": return -1, and nobody is told.
ExitOnBug(t) ==
  /\ Moves(t, "bug", "bugged")
  /\ UNCHANGED <<tstate, ready_to_run, complete_run, ba>>

Start(t) ==
  /\ Moves(t, "start", "bench") /\ Writes(t, "start")
  /\ UNCHANGED <<tstate, ready_to_run, complete_run>>

\* ipi_bench_many has no figure of its own to write.
Bench(t) ==
  /\ Moves(t, "bench", "finish")
  /\ IF t[1] = AllIpi THEN UNCHANGED ba ELSE Writes(t, "ipitime")
  /\ UNCHANGED <<tstate, ready_to_run, complete_run>>

\* smp_call_function_single fails: ipi_bench_one returns before it writes
\* ba->ipitime, and its caller ignores the error.
BenchFails(t) ==
  /\ "ipi" \in Faults /\ t[1] # AllIpi
  /\ Moves(t, "bench", "finish")
  /\ UNCHANGED <<tstate, ready_to_run, complete_run, ba>>

Finish(t) ==
  /\ Moves(t, "finish", "delay") /\ Writes(t, "finish")
  /\ UNCHANGED <<tstate, ready_to_run, complete_run>>

\* Faulty variant of RecordRunDelay: a build without CONFIG_SCHED_INFO.
RecordRunDelay_Absent(t) ==
  /\ Moves(t, "delay", "complete")
  /\ UNCHANGED <<tstate, ready_to_run, complete_run, ba>>

\* ipi_bench_record_run_delay
RecordRunDelay(t) ==
  /\ Moves(t, "delay", "complete") /\ Writes(t, "run_delay")
  /\ UNCHANGED <<tstate, ready_to_run, complete_run>>

Complete(t) ==
  /\ Moves(t, "complete", "wake")
  /\ complete_run' = complete_run + 1
  /\ UNCHANGED <<tstate, ready_to_run, ba>>

\* Faulty variant of WakeUp: the driver is not woken.
WakeUp_Missing(t) ==
  /\ Moves(t, "wake", "ret")
  /\ UNCHANGED <<tstate, ready_to_run, complete_run, ba>>

\* wake_up_interruptible(&wait_complete)
WakeUp(t) ==
  /\ Moves(t, "wake", "ret")
  /\ tstate' = "running"
  /\ UNCHANGED <<ready_to_run, complete_run, ba>>

Return(t) ==
  /\ Moves(t, "ret", "ended")
  /\ UNCHANGED <<tstate, ready_to_run, complete_run, ba>>

-----------------------------------------------------------------------------
Load    == RejectParams \/ InitParams \/ NextCase \/ Unload
Prepare == \/ NoMemory \/ Alloc \/ BuildPair \/ BuildBroadcaster
           \/ BuildFails \/ BuildOops \/ BuildDone \/ Spawn \/ SpawnFails \/ SpawnDone
WaitAll == \/ WaitOver \/ MustWait \/ PrepareToWait \/ GoToSleep \/ WokenUp
           \/ Timeout \/ Signal
Report  == ReportStart \/ ReportRest \/ Free

Driver == Load \/ Prepare \/ WaitAll \/ Report

Barrier(t) == \/ Forked(t) \/ Arrive(t) \/ LeaveSpin(t) \/ CheckPasses(t)
              \/ CheckFails(t) \/ ExitOnBug(t)
Measure(t) == Start(t) \/ Bench(t) \/ BenchFails(t) \/ Finish(t)
Notify(t)  == RecordRunDelay(t) \/ Complete(t) \/ WakeUp(t) \/ Return(t)

Worker(t) == Barrier(t) \/ Measure(t) \/ Notify(t) \/ GoWild(t)

\* The driver is over and no worker can move any more.
Terminated ==
  /\ dpc \in {"gone", "oops"} /\ \A t \in Thread : Alive(t) => t \in wild
  /\ UNCHANGED vars

Next == Driver \/ (\E t \in Thread : Worker(t)) \/ Terminated

Spec == Init /\ [][Next]_vars

(***************************************************************************)
(* The kernel keeps running insmod and every kthread that can run: each    *)
(* kthread is bound to a CPU of its own (OwnCpu), so that one that spins   *)
(* at the barrier keeps no other worker from its CPU.                      *)
(***************************************************************************)
FairSpec == Spec /\ WF_vars(Driver) /\ \A t \in Thread : WF_vars(Worker(t))

-----------------------------------------------------------------------------
\* The state variables keep their types: counters, the program counters of
\* insmod and of the kthreads, and the bench_args.
TypeOK ==
  /\ asked \in ParamType /\ param \in ParamType
  /\ dpc \in DriverPc /\ todo \subseteq Case /\ cur \in Case /\ idx \in Nat
  /\ mask \subseteq Cpu
  /\ tstate \in {"running", "sleeping"} /\ seen \in BOOLEAN
  /\ ready_to_run \in Nat /\ should_run \in Nat /\ complete_run \in Nat
  /\ mem \in [Case -> {"none", "live", "freed"}]
  /\ src \in [Thread -> Int] /\ dst \in [Thread -> Int]
  /\ ba \in [Thread -> SUBSET Stamp]
  /\ pc \in [Thread -> WorkerPc]
  /\ wild \subseteq Thread
  /\ printed \in [Thread -> {"nothing", "toomany", "exact", "skewed"}]

BeforeBarrier == {"none", "forked", "arrive"}
AtBarrier     == {"spin", "check", "bug", "bugged"}
Arrived == {t \in Thread : pc[t] \notin BeforeBarrier}
Past(t) == pc[t] \notin BeforeBarrier \cup AtBarrier

\* "let all threads run at the same time" (ipi_bench.c:128): a worker of a
\* case benchmarks only when every worker of that case, those that could not
\* be created included, has come to the barrier.
BarrierHolds ==
  \A t \in Thread : Past(t) =>
    \A i \in 1 .. Count(t[1]) : <<t[1], i>> \in Arrived

\* The check behind the barrier (ipi_bench.c:131), which reports
\* "BUG, exit benchmark", never fails.
NoBugExit == \A t \in Thread : pc[t] \notin {"bug", "bugged"}

(***************************************************************************)
(* Why the barrier works when insmod runs at most one case: ready_to_run   *)
(* counts the arrived workers of that case and of no other.                *)
(***************************************************************************)
OneCaseOnly == \A p \in Params : \A c, d \in p.options : c = d

ArrivedSlots == {i \in Slot : <<cur, i>> \in Arrived}

OnlyCurRuns ==
  \A t \in Thread : pc[t] # "none" =>
    /\ dpc \notin {"init", "alloc", "build"}
    /\ todo = {}
    /\ should_run = Count(cur)
    /\ t[1] = cur /\ t[2] <= should_run
    /\ dpc = "spawn" => t[2] < idx

PastMeansAll ==
  \A t \in Thread : pc[t] \notin BeforeBarrier \cup {"spin"} =>
    pc[t] \notin {"bug", "bugged"} /\ ready_to_run = should_run

\* The inductive invariant behind BarrierHolds and NoBugExit: at most one
\* case has workers, should_run is its count, ready_to_run the number of its
\* workers that have arrived, and these two are equal once a worker is past
\* the barrier.
BarrierInv ==
  /\ asked \in Params /\ param.options = asked.options
  /\ todo \subseteq param.options
  /\ dpc # "next" => todo = {}
  /\ dpc \in {"build", "spawn"} => should_run = Count(cur)
  /\ OnlyCurRuns
  /\ ready_to_run = Cardinality(ArrivedSlots)
  /\ PastMeansAll

\* No wake-up of wait_complete is lost: when insmod sleeps although every
\* worker is counted as complete, some worker has still to call
\* wake_up_interruptible.
NoLostWakeup ==
  dpc = "asleep" /\ tstate = "sleeping" /\ AllComplete =>
    \E t \in Thread : pc[t] = "wake" /\ t \notin wild

\* No worker uses its bench_args after the kfree at the end of its case.
ArgsOutliveWorker ==
  \A t \in wild : pc[t] \notin UsesArgs \/ mem[t[1]] # "freed"

\* The module is unloaded only when all that the workers have left to do is
\* to wake the driver and to return from the thread function.
LateWorkersOnlyWake ==
  dpc = "gone" => \A t \in Thread : Alive(t) => pc[t] \in {"wake", "ret"}

\* Live workers run on CPUs of their own: two kthreads that spin at the
\* barrier on one CPU would keep each other from arriving.  In a mesh no CPU
\* is used twice, and with acrossnuma=0 both CPUs of a pair are of one node.
OwnCpu ==
  \A t \in Thread : Alive(t) =>
    /\ \A u \in Thread \ {t} : Alive(u) => src[t] # src[u]
    /\ t[1] = MeshIpi =>
         /\ src[t] # dst[t]
         /\ \A u \in Thread \ {t} : Alive(u) => {src[t], dst[t]} \cap {src[u], dst[u]} = {}
         /\ param.acrossnuma \/ NodeOf[src[t]] = NodeOf[dst[t]]

\* A report line that gives figures gives the worker's final ones, and the
\* report is never too early for a worker that was waited for.
ReportExact == \A t \in Thread : printed[t] \in {"nothing", "exact"}

\* The CPUs asked for are used (ipi_bench.c:59-60, "if unspecified" in 492):
\* single-ipi sends to dstcpu, from another CPU; it and self-ipi run on srccpu,
\* but not if dstcpu names the same CPU, when srccpu is drawn anew (line 512).
\* mesh-ipi draws its CPUs, and so does all-ipi, which the HOWTO has send from
\* srccpu (ipi-bench/README:12).
CpusAsAsked ==
  \A t \in Thread : Alive(t) =>
    /\ t[1] = SingleIpi =>
         /\ src[t] # dst[t]
         /\ asked.dstcpu >= 0 => dst[t] = asked.dstcpu
    /\ t[1] \in {SelfIpi, SingleIpi} /\ asked.srccpu \notin {-1, asked.dstcpu} =>
         src[t] = asked.srccpu

\* insmod returns, whatever faults happen: kthreads that are missing, refused
\* IPIs and a barrier that never opens cost time, but no wait is for ever.  The
\* exception is BuildOops, which takes acrossnuma=0.
InsmodReturns == <>(dpc = "gone")

\* A worker of the case that runs, once it spins at the barrier
\* (ipi_bench.c:130), is let through and gets itself counted as complete.
BarrierOpens ==
  \A i \in Slot :
    pc[<<cur, i>>] = "spin" ~> pc[<<cur, i>>] \in {"wake", "ret", "ended"}
=============================================================================
