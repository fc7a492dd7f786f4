------------------------------- MODULE IpiCall -------------------------------
(***************************************************************************)
(* The IPI loops of ipi_bench, which IpiBench takes as one step: senders   *)
(* run ipi_bench_one or ipi_bench_many on CPUs of their own, and           *)
(* smp_call_function_single and _many have a callback run on other CPUs,   *)
(* in an interrupt that any CPU, that of a sender included, takes between  *)
(* two steps.  The callback works on a variable on the sender's stack: the *)
(* time stamp now, or the spinlock.                                        *)
(***************************************************************************)
EXTENDS Integers, Sequences, FiniteSets

CONSTANTS
  CallCpu,     \* the online CPUs, numbers
  CallCases,   \* what the workers of a case are to do, some of CallCaseType
  MaxClock,    \* bound of the clock
  IpiFails     \* whether smp_call_function_single may fail

\* self-ipi and single-ipi have one sender, mesh-ipi has disjoint pairs.
Pairs == {f \in UNION {[S -> CallCpu] : S \in SUBSET CallCpu \ {{}}} :
            \A s, t \in DOMAIN f : s # t => /\ {s, f[s]} \cap {t, f[t]} = {}
                                            /\ f[s] # s}

\* The senders with the CPUs they call; in all-ipi cpu_online_mask without the
\* sender's own.
OneTargets  == {[s \in DOMAIN f |-> {f[s]}] : f \in Pairs}
ManyTargets == {[s \in S |-> CallCpu \ {s}] : S \in SUBSET CallCpu \ {{}}}

CallCaseType == [func : {"gettime"}, loops : Nat, target : OneTargets]
                \cup [func : {"spinlock", "empty"}, loops : Nat, target : ManyTargets]

ASSUME CallCpuAssumption   == CallCpu \subseteq Nat /\ IsFiniteSet(CallCpu)
ASSUME CallCasesAssumption == CallCases \subseteq CallCaseType
ASSUME MaxClockAssumption  == MaxClock \in Nat
ASSUME IpiFailsAssumption  == IpiFails \in BOOLEAN

VARIABLES
  wait,      \* the module parameter
  func,      \* "gettime", or by the parameter lock "spinlock" or "empty"
  loops,     \* the module parameter
  target,    \* the CPUs each sender calls in every loop
  clock,     \* gettime()
  spc,       \* where each sender is
  loop,      \* its loop variable
  uncalled,  \* the CPUs still to be called in this loop
  csd,       \* the CPUs for which its call_single_data is locked
  now,       \* the variable on its stack
  holder,    \* the CPU that holds the spinlock on its stack
  ipitime,   \* the sum of its samples
  began,     \* ba->start
  queue,     \* the calls each CPU has still to take, by sender
  irq,       \* the call each CPU runs
  ran        \* history: the callbacks run for each sender

caseVars == <<wait, func, loops, target>>
sendVars == <<spc, loop, uncalled, ipitime, began>>
callVars == <<caseVars, sendVars, clock, csd, now, holder, queue, irq, ran>>

Sender == DOMAIN target
NoCpuHolds == -1
NoCall == [from |-> -1, at |-> "none"]
Over   == {"done", "failed"}

CallInit ==
  /\ wait \in BOOLEAN
  /\ \E case \in CallCases :
       func = case.func /\ loops = case.loops /\ target = case.target
  /\ clock = 0
  /\ spc = [s \in Sender |-> "start"]
  /\ loop = [s \in Sender |-> 0]
  /\ uncalled = [s \in Sender |-> {}]
  /\ csd = [s \in Sender |-> {}]
  /\ now = [s \in Sender |-> 0]
  /\ holder = [s \in Sender |-> NoCpuHolds]
  /\ ipitime = [s \in Sender |-> 0]
  /\ began = [s \in Sender |-> 0]
  /\ queue = [c \in CallCpu |-> <<>>]
  /\ irq = [c \in CallCpu |-> NoCall]
  /\ ran = [s \in Sender |-> 0]

\* Time passes; only ipi_bench_one and its callback look at the clock.
Tick ==
  /\ func = "gettime" /\ clock < MaxClock
  /\ clock' = clock + 1
  /\ UNCHANGED <<caseVars, sendVars, csd, now, holder, queue, irq, ran>>

-----------------------------------------------------------------------------
(***************************************************************************)
(* ipi_bench_one and ipi_bench_many.  A sender moves only while its CPU is *)
(* not in an interrupt.                                                    *)
(***************************************************************************)
Moves(s, from, to) ==
  /\ spc[s] = from /\ irq[s] = NoCall
  /\ spc' = [spc EXCEPT ![s] = to]
  /\ UNCHANGED <<caseVars, clock, holder, ran>>

StartLoops(s) ==
  /\ Moves(s, "start", "loop")
  /\ began' = [began EXCEPT ![s] = clock]
  /\ loop' = [loop EXCEPT ![s] = loops]
  /\ UNCHANGED <<uncalled, csd, now, ipitime, queue, irq>>

\* Faulty variant of MoreLoops: ">=" for ">".
MoreLoops_OneMore(s) == loop[s] >= 0

MoreLoops(s) == loop[s] > 0

NextLoop(s) ==
  /\ MoreLoops(s) /\ Moves(s, "loop", "call")
  /\ now' = IF func = "gettime" THEN [now EXCEPT ![s] = clock] ELSE now
  /\ uncalled' = [uncalled EXCEPT ![s] = target[s]]
  /\ UNCHANGED <<loop, csd, ipitime, began, queue, irq>>

\* Faulty variant of Sync: the calls are never waited for.
Sync_Never == FALSE

\* The last argument of smp_call_function_single and of _many.
Sync == wait

\* The next CPU gets the call as soon as the last one to it has given back
\* the sender's call_single_data; a call to oneself is run at once.
Call(s) ==
  /\ Moves(s, "call", "call")
  /\ \E d \in uncalled[s] \ csd[s] :
       /\ \A e \in uncalled[s] : d <= e
       /\ uncalled' = [uncalled EXCEPT ![s] = @ \ {d}]
       /\ IF d = s
            THEN /\ irq' = [irq EXCEPT ![s] = [from |-> s, at |-> "enter"]]
                 /\ UNCHANGED <<csd, queue>>
            ELSE /\ queue' = [queue EXCEPT ![d] = Append(@, s)]
                 /\ csd' = [csd EXCEPT ![s] = @ \cup {d}]
                 /\ UNCHANGED irq
  /\ UNCHANGED <<loop, now, ipitime, began>>

\* "if (ret < 0) return ret": ba->ipitime is not written.
CallFails(s) ==
  /\ IpiFails /\ func = "gettime" /\ uncalled[s] \notin {{}, {s}}
  /\ Moves(s, "call", "failed")
  /\ ipitime' = [ipitime EXCEPT ![s] = 0]
  /\ UNCHANGED <<loop, uncalled, csd, now, began, queue, irq>>

\* Faulty variant of Sample: the test of wait is forgotten.
Sample_Always(s) == IF func = "gettime" THEN now[s] ELSE 0

\* "if (wait) ipitime += now"
Sample(s) == IF func = "gettime" /\ wait THEN now[s] ELSE 0

Called(s) ==
  /\ uncalled[s] = {} /\ (Sync => csd[s] = {})
  /\ Moves(s, "call", "loop")
  /\ ipitime' = [ipitime EXCEPT ![s] = @ + Sample(s)]
  /\ loop' = [loop EXCEPT ![s] = @ - 1]
  /\ UNCHANGED <<uncalled, csd, now, began, queue, irq>>

\* The stack frame is gone, and with it now and the spinlock.
ReturnDone(s) ==
  /\ ~MoreLoops(s) /\ Moves(s, "loop", "done")
  /\ UNCHANGED <<loop, uncalled, csd, now, ipitime, began, queue, irq>>

-----------------------------------------------------------------------------
(***************************************************************************)
(* The interrupt on CPU c: calls are taken in the order they came.  The    *)
(* call_single_data is given back after the callback if the sender waits,  *)
(* else before it.                                                         *)
(***************************************************************************)
Take(c) ==
  /\ irq[c] = NoCall /\ queue[c] # <<>>
  /\ LET s == Head(queue[c])
     IN  /\ irq' = [irq EXCEPT ![c] = [from |-> s, at |-> "enter"]]
         /\ csd' = IF Sync THEN csd ELSE [csd EXCEPT ![s] = @ \ {c}]
  /\ queue' = [queue EXCEPT ![c] = Tail(@)]
  /\ UNCHANGED <<caseVars, sendVars, clock, now, holder, ran>>

\* The callback on c is at this place, and finds the sender's stack frame.
CallAt(c, place) ==
  /\ irq[c].at = place
  /\ func = "empty" \/ spc[irq[c].from] \notin Over
  /\ UNCHANGED <<caseVars, sendVars, clock, queue>>

CallReturns(c) ==
  LET s == irq[c].from
  IN  /\ irq' = [irq EXCEPT ![c] = NoCall]
      /\ csd' = IF Sync THEN [csd EXCEPT ![s] = @ \ {c}] ELSE csd
      /\ ran' = [ran EXCEPT ![s] = @ + 1]

\* ipi_bench_gettime.  Nobody else uses the variable while the sender waits,
\* and the sender does not use it if it has not waited.
Gettime(c) ==
  /\ func = "gettime" /\ CallAt(c, "enter") /\ CallReturns(c)
  /\ now' = [now EXCEPT ![irq[c].from] = IF clock > @ THEN clock - @ ELSE 0]
  /\ UNCHANGED holder

\* ipi_bench_empty
Empty(c) ==
  /\ func = "empty" /\ CallAt(c, "enter") /\ CallReturns(c)
  /\ UNCHANGED <<now, holder>>

\* ipi_bench_spinlock
SpinLock(c) ==
  LET s == irq[c].from
  IN  /\ func = "spinlock" /\ CallAt(c, "enter")
      /\ holder[s] = NoCpuHolds
      /\ holder' = [holder EXCEPT ![s] = c]
      /\ irq' = [irq EXCEPT ![c].at = "locked"]
      /\ UNCHANGED <<csd, now, ran>>

\* Faulty variant of SpinUnlock: the lock is kept.
SpinUnlock_Missing(c) ==
  CallAt(c, "locked") /\ CallReturns(c) /\ UNCHANGED <<now, holder>>

SpinUnlock(c) ==
  /\ CallAt(c, "locked") /\ CallReturns(c)
  /\ holder' = [holder EXCEPT ![irq[c].from] = NoCpuHolds]
  /\ UNCHANGED now

\* A callback that finds no stack frame any more does what is undefined, and
\* is not followed further.
CallAstray(c) ==
  /\ irq[c].at \in {"enter", "locked"} /\ func # "empty"
  /\ spc[irq[c].from] \in Over
  /\ irq' = [irq EXCEPT ![c].at = "astray"]
  /\ UNCHANGED <<caseVars, sendVars, clock, csd, now, holder, queue, ran>>

-----------------------------------------------------------------------------
Send(s) == \/ StartLoops(s) \/ NextLoop(s) \/ Call(s) \/ CallFails(s)
           \/ Called(s) \/ ReturnDone(s)
Interrupt(c) == \/ Take(c) \/ Gettime(c) \/ Empty(c) \/ SpinLock(c)
                \/ SpinUnlock(c) \/ CallAstray(c)

\* All senders are over, and all calls taken, or behind one gone astray.
CallsOver ==
  /\ \A c \in CallCpu : \/ irq[c].at = "astray"
                        \/ irq[c] = NoCall /\ queue[c] = <<>>
  /\ UNCHANGED callVars

CallNext == \/ Tick \/ CallsOver
            \/ \E s \in Sender : Send(s)
            \/ \E c \in CallCpu : Interrupt(c)

CallSpec == /\ CallInit /\ [][CallNext]_callVars
            /\ \A c \in CallCpu : /\ WF_callVars(c \in Sender /\ Send(c))
                                  /\ WF_callVars(Interrupt(c))

-----------------------------------------------------------------------------
\* The variables of the senders, the call queues and the interrupts keep their
\* types; a loop variable never falls below zero (ipi_bench.c:100, 185).
CallTypeOK ==
  /\ wait \in BOOLEAN /\ [func |-> func, loops |-> loops, target |-> target] \in CallCases
  /\ clock \in 0 .. MaxClock
  /\ spc \in [Sender -> {"start", "loop", "call"} \cup Over]
  /\ loop \in [Sender -> 0 .. loops]
  /\ uncalled \in [Sender -> SUBSET CallCpu] /\ csd \in [Sender -> SUBSET CallCpu]
  /\ now \in [Sender -> Nat] /\ ipitime \in [Sender -> Nat]
  /\ began \in [Sender -> Nat] /\ ran \in [Sender -> Nat]
  /\ holder \in [Sender -> CallCpu \cup {NoCpuHolds}]
  /\ \A c \in CallCpu : \A i \in 1 .. Len(queue[c]) : queue[c][i] \in Sender \ {c}
  /\ irq \in [CallCpu -> {NoCall} \cup [from : Sender, at : {"enter", "locked", "astray"}]]

\* The CPUs that a call of s is queued on, and those that run one.
QueuedOn(s)  == {c \in CallCpu : \E i \in 1 .. Len(queue[c]) : queue[c][i] = s}
RunningOn(s) == {c \in CallCpu : irq[c].from = s}

\* With wait=1 no callback is left over when a loop returns: none works on
\* now or on the spinlock of a stack frame that is gone (ipi_bench.c:102, 187).
FrameOutlivesCalls ==
  wait => \A s \in Sender : spc[s] \in Over => QueuedOn(s) \cup RunningOn(s) = {}

\* The samples of a sender are differences of two times within its own loop,
\* one after the other, so that "ipi time" (ipi_bench.c:106) never exceeds
\* the time elapsed, whatever wait is and whichever calls fail.
TimeWithinElapsed ==
  \A s \in Sender : spc[s] # "start" => ipitime[s] <= clock - began[s]

\* A loop that returns without an error has made exactly loops calls to each
\* CPU it was to call (ipi_bench.c:100, 185): those not yet run
\* are queued or running.
CallsExact ==
  \A s \in Sender : spc[s] = "done" =>
    ran[s] + Cardinality(QueuedOn(s)) + Cardinality(RunningOn(s))
      = loops * Cardinality(target[s])

\* The loops end: no two senders that wait for each other's CPU, or callbacks
\* that spin for a lock, block each other.  With wait=0 a lock that is gone
\* may hold up a CPU for ever.
LoopsEnd ==
  wait \/ func # "spinlock" => <>(\A s \in Sender : spc[s] \in Over)
=============================================================================
