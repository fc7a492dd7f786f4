----------------------------- MODULE ExitReason -----------------------------
(***************************************************************************)
(* The kvmexitreason kernel module: a kprobe on every handle_* function of *)
(* the VMX exit handler counts the VM exits, and about once a second the   *)
(* CPU that happens to take an exit prints the counters and clears them.   *)
(*                                                                         *)
(* A CPU runs one pre-handler at a time (kprobes do not nest), and every   *)
(* access to memory that the CPUs share is a step of its own: the ++ of    *)
(* record_reason is a load and a store, atomic_long_inc is one step,       *)
(* memset clears one counter after the other, and init_reasons fills       *)
(* reasons[] one string after the other.                                   *)
(***************************************************************************)
EXTENDS Integers, FiniteSets

CONSTANTS
  Cpu,         \* the CPUs that run guests
  REASON_NUM,  \* the length of the tables, 66 in the code
  Probed,      \* the reasons with a symbol_name in vmx_handle_exit_probe
  Named,       \* the reasons with a string in init_reasons
  Second,      \* the ticks of 1000*1000*1000 ns
  BusyGuests,  \* guests take exits while probe_init still runs
  MayFail,     \* register_kprobe may fail
  MaxExits,    \* bound: the exits counted in one life of the module
  MaxTime      \* bound: the ticks of ktime_get()

Reason == 0 .. REASON_NUM - 1

ASSUME ReasonAssumption ==
  REASON_NUM \in Nat \ {0} /\ Probed \subseteq Reason /\ Named \subseteq Reason
ASSUME SecondAssumption == Second \in Nat
ASSUME CpuAssumption    == IsFiniteSet(Cpu)
ASSUME BoundAssumption  ==
  MaxExits \in Nat /\ MaxTime \in Nat /\ BusyGuests \in BOOLEAN /\ MayFail \in BOOLEAN

VARIABLES
  mod,           \* where insmod or rmmod is
  probe,         \* the loop index idx of the (un)registration
  armed,         \* the reasons whose kprobe is registered
  grace,         \* the handlers unregister_kprobe has still to wait for
  clock,         \* ktime_get()
  ktime,         \* __ktime
  locked,        \* showing_lock
  total_exit,
  reasons_num,
  inited, names, \* the flag of init_reasons, and the r with reasons[r] # NULL
  pc,            \* where the pre-handler of each CPU is
  why, val, now, \* its reason, the count it has loaded, its time
  line,          \* its loop index in the report, or in memset
  exits, hits,   \* history: the exits since insmod, in all and by reason
  shown, told,   \* history: the sum of the totals and of the counts printed
  lost,          \* history: the exits counted between the two uses of the total
  unknown        \* history: the reasons printed as EXIT_REASON_UNKNOWN

moduleVars  == <<mod, probe, armed, grace>>
nameVars    == <<inited, names>>
sharedVars  == <<ktime, locked, total_exit, reasons_num>>
localVars   == <<why, val, now, line>>
historyVars == <<exits, hits, shown, told, lost, unknown>>
vars == <<mod, probe, armed, grace, clock, ktime, locked, total_exit,
          reasons_num, inited, names, pc, why, val, now, line, exits, hits,
          shown, told, lost, unknown>>

ModPc     == {"out", "register", "undo", "names", "setinited", "fill",
              "lockinit", "totalinit", "timeinit", "loaded", "exit"}
HandlerPc == {"idle", "load", "store", "total", "time", "test", "trylock",
              "header", "lines", "setinited", "fill", "clear_total", "clear",
              "settime", "unlock"}
Loading   == {"register", "names", "setinited", "fill", "lockinit",
              "totalinit", "timeinit"}
Reporting == {"header", "lines", "setinited", "fill", "clear_total", "clear",
              "settime", "unlock"}

Zero == [r \in Reason |-> 0]

Init ==
  /\ mod = "out" /\ probe = 0 /\ armed = {} /\ grace = {}
  /\ clock \in {0, Second}
  /\ ktime = 0 /\ locked = FALSE /\ total_exit = 0 /\ reasons_num = Zero
  /\ inited = FALSE /\ names = {}
  /\ pc = [c \in Cpu |-> "idle"]
  /\ why = [c \in Cpu |-> 0] /\ val = [c \in Cpu |-> 0]
  /\ now = [c \in Cpu |-> 0] /\ line = [c \in Cpu |-> 0]
  /\ exits = 0 /\ hits = Zero /\ shown = 0 /\ told = Zero /\ lost = 0
  /\ unknown = {}

Tick ==
  /\ clock < MaxTime
  /\ clock' = clock + 1
  /\ UNCHANGED <<moduleVars, nameVars, sharedVars, pc, localVars, historyVars>>

-----------------------------------------------------------------------------
(***************************************************************************)
(* probe_init and probe_exit.                                              *)
(***************************************************************************)
\* A new image of the module, with its static data.
Insmod ==
  /\ mod = "out"
  /\ mod' = "register" /\ probe' = 0
  /\ ktime' = 0 /\ locked' = FALSE /\ total_exit' = 0 /\ reasons_num' = Zero
  /\ inited' = FALSE /\ names' = {}
  /\ exits' = 0 /\ hits' = Zero /\ shown' = 0 /\ told' = Zero /\ lost' = 0
  /\ unknown' = {}
  /\ UNCHANGED <<armed, grace, clock, pc, localVars>>

initFrame == <<grace, clock, pc, localVars, historyVars>>

\* Faulty variant of Register: idx <= ARRAY_SIZE.
Register_PastEnd ==
  /\ mod = "register" /\ probe <= REASON_NUM
  /\ armed' = IF probe \in Probed THEN armed \cup {probe} ELSE armed
  /\ probe' = probe + 1
  /\ UNCHANGED <<initFrame, mod, sharedVars, nameVars>>

Register ==
  /\ mod = "register" /\ probe < REASON_NUM
  /\ armed' = IF probe \in Probed THEN armed \cup {probe} ELSE armed
  /\ probe' = probe + 1
  /\ UNCHANGED <<initFrame, mod, sharedVars, nameVars>>

RegisterFails ==
  /\ mod = "register" /\ probe \in Probed /\ MayFail
  /\ mod' = "undo" /\ probe' = 0
  /\ UNCHANGED <<initFrame, armed, sharedVars, nameVars>>

RegisterDone ==
  /\ mod = "register" /\ probe = REASON_NUM
  /\ mod' = "names"
  /\ UNCHANGED <<initFrame, probe, armed, sharedVars, nameVars>>

(***************************************************************************)
(* init_reasons, here as probe_init calls it: the flag is set before the   *)
(* strings are stored.  The table has holes: EXIT_REASON_VMFUNC is probed  *)
(* and has no string.  The strings are stored in any order, and a store of *)
(* one that is there already changes nothing, so who fills the table is    *)
(* done when no string is missing.                                         *)
(***************************************************************************)
TestInited ==
  /\ mod = "names"
  /\ mod' = IF inited THEN "lockinit" ELSE "setinited"
  /\ UNCHANGED <<initFrame, probe, armed, sharedVars, nameVars>>

SetInited ==
  /\ mod = "setinited"
  /\ mod' = "fill" /\ inited' = TRUE
  /\ UNCHANGED <<initFrame, probe, armed, sharedVars, names>>

StoreName == \E r \in Named \ names : names' = names \cup {r}

FillName ==
  /\ mod = "fill"
  /\ StoreName
  /\ UNCHANGED <<initFrame, mod, probe, armed, sharedVars, inited>>

\* Faulty variant of FillDone: the table lacks a line.
FillDone_Hole ==
  /\ mod = "fill"
  /\ mod' = "lockinit"
  /\ UNCHANGED <<initFrame, probe, armed, sharedVars, nameVars>>

FillDone ==
  /\ mod = "fill" /\ names = Named
  /\ mod' = "lockinit"
  /\ UNCHANGED <<initFrame, probe, armed, sharedVars, nameVars>>

SpinLockInit ==
  /\ mod = "lockinit"
  /\ mod' = "totalinit" /\ locked' = FALSE
  /\ UNCHANGED <<initFrame, probe, armed, ktime, total_exit, reasons_num,
                 nameVars>>

TotalInit ==
  /\ mod = "totalinit"
  /\ mod' = "timeinit" /\ total_exit' = 0
  /\ UNCHANGED <<initFrame, probe, armed, ktime, locked, reasons_num, nameVars>>

TimeInit ==
  /\ mod = "timeinit"
  /\ mod' = "loaded" /\ ktime' = clock
  /\ UNCHANGED <<initFrame, probe, armed, locked, total_exit, reasons_num,
                 nameVars>>

Rmmod ==
  /\ mod = "loaded"
  /\ mod' = "exit" /\ probe' = 0
  /\ UNCHANGED <<initFrame, armed, sharedVars, nameVars>>

unregisterFrame == <<clock, pc, localVars, historyVars, sharedVars, nameVars>>

\* Faulty variant of Unregister: unregister_kprobe does not wait.
Unregister_NoWait ==
  /\ mod \in {"undo", "exit"} /\ probe < REASON_NUM
  /\ armed' = armed \ {probe} /\ grace' = {}
  /\ probe' = probe + 1
  /\ UNCHANGED <<mod, unregisterFrame>>

\* unregister_kprobe disarms the probe and waits for the handlers that run,
\* also when the probe was never registered.
Unregister ==
  /\ mod \in {"undo", "exit"} /\ probe < REASON_NUM /\ grace = {}
  /\ IF probe \in Probed
       THEN /\ armed' = armed \ {probe}
            /\ grace' = {c \in Cpu : pc[c] # "idle"}
       ELSE UNCHANGED <<armed, grace>>
  /\ probe' = probe + 1
  /\ UNCHANGED <<mod, unregisterFrame>>

\* probe_init has returned -1, or probe_exit is over.
Removed ==
  /\ mod \in {"undo", "exit"} /\ probe = REASON_NUM /\ grace = {}
  /\ mod' = "out"
  /\ UNCHANGED <<probe, armed, grace, unregisterFrame>>

-----------------------------------------------------------------------------
(***************************************************************************)
(* The pre-handler: record_reason, atomic_long_inc and show_exitreason.    *)
(***************************************************************************)
Go(c, from, to) == pc[c] = from /\ pc' = [pc EXCEPT ![c] = to]

\* The handler goes on to the next place, or returns and is waited for no more.
Continue(c, from, to) == Go(c, from, to) /\ UNCHANGED grace
ReturnFrom(c, from)   == Go(c, from, "idle") /\ grace' = grace \ {c}

handlerFrame == <<mod, probe, armed, clock>>

Hit(c, r) ==
  /\ r \in armed /\ exits < MaxExits
  /\ BusyGuests \/ mod \notin Loading \cup {"undo"}
  /\ Continue(c, "idle", "load")
  /\ why' = [why EXCEPT ![c] = r]
  /\ exits' = exits + 1 /\ hits' = [hits EXCEPT ![r] = @ + 1]
  /\ UNCHANGED <<handlerFrame, sharedVars, nameVars, val, now, line, shown,
                 told, lost, unknown>>

\* reasons_num[r]++
LoadCount(c) ==
  /\ Continue(c, "load", "store")
  /\ val' = [val EXCEPT ![c] = reasons_num[why[c]]]
  /\ UNCHANGED <<handlerFrame, sharedVars, nameVars, why, now, line, historyVars>>

StoreCount(c) ==
  /\ Continue(c, "store", "total")
  /\ reasons_num' = [reasons_num EXCEPT ![why[c]] = val[c] + 1]
  /\ UNCHANGED <<handlerFrame, ktime, locked, total_exit, nameVars, localVars,
                 historyVars>>

\* The reporter has printed total_exit and not yet set it to 0.
Unreset(c) == pc[c] \in {"lines", "setinited", "fill", "clear_total"}

\* atomic_long_inc; the reporter that has yet to reset will wipe this exit out.
IncTotal(c) ==
  /\ Continue(c, "total", "time")
  /\ total_exit' = total_exit + 1
  /\ lost' = IF \E d \in Cpu : Unreset(d) THEN lost + 1 ELSE lost
  /\ UNCHANGED <<handlerFrame, ktime, locked, reasons_num, nameVars, localVars,
                 exits, hits, shown, told, unknown>>

ReadTime(c) ==
  /\ Continue(c, "time", "test")
  /\ now' = [now EXCEPT ![c] = clock]
  /\ UNCHANGED <<handlerFrame, sharedVars, nameVars, why, val, line, historyVars>>

TooSoon(c) == now[c] - ktime < Second

testFrame == <<handlerFrame, sharedVars, nameVars, localVars, historyVars>>

ReturnTooSoon(c) ==
  /\ TooSoon(c)
  /\ ReturnFrom(c, "test")
  /\ UNCHANGED testFrame

TimeIsUp(c) ==
  /\ ~TooSoon(c)
  /\ Continue(c, "test", "trylock")
  /\ UNCHANGED testFrame

\* Faulty variant of TryLock: the result of spin_trylock is not looked at.
TryLock_Ignored(c) ==
  /\ Continue(c, "trylock", "header")
  /\ locked' = TRUE
  /\ UNCHANGED <<handlerFrame, ktime, total_exit, reasons_num, nameVars,
                 localVars, historyVars>>

TryLock(c) ==
  /\ ~locked
  /\ Continue(c, "trylock", "header")
  /\ locked' = TRUE
  /\ UNCHANGED <<handlerFrame, ktime, total_exit, reasons_num, nameVars,
                 localVars, historyVars>>

\* Faulty variant of LockBusy: spin_lock, which waits for the holder.
LockBusy_Spins(c) == FALSE /\ ReturnFrom(c, "trylock") /\ UNCHANGED testFrame

LockBusy(c) ==
  /\ locked
  /\ ReturnFrom(c, "trylock")
  /\ UNCHANGED testFrame

ReportTotal(c) ==
  /\ Continue(c, "header", "lines")
  /\ shown' = shown + total_exit
  /\ line' = [line EXCEPT ![c] = 0]
  /\ UNCHANGED <<handlerFrame, sharedVars, nameVars, why, val, now, exits, hits,
                 told, lost, unknown>>

(***************************************************************************)
(* One reason of the report.  Its count is read twice, for the test and    *)
(* for the line; nothing but a report makes it 0 again, so one read stands *)
(* for both.  reason2str calls init_reasons, which returns at once or      *)
(* fills reasons[] as above, and then looks for the name.                  *)
(***************************************************************************)
NothingToReport(c) ==
  /\ line[c] < REASON_NUM /\ reasons_num[line[c]] = 0
  /\ Continue(c, "lines", "lines")
  /\ line' = [line EXCEPT ![c] = @ + 1]
  /\ UNCHANGED <<handlerFrame, sharedVars, nameVars, why, val, now, historyVars>>

ReportLine(c) ==
  /\ line[c] < REASON_NUM /\ reasons_num[line[c]] # 0 /\ inited
  /\ Continue(c, "lines", "lines")
  /\ told' = [told EXCEPT ![line[c]] = @ + reasons_num[line[c]]]
  /\ unknown' = IF line[c] \in names THEN unknown ELSE unknown \cup {line[c]}
  /\ line' = [line EXCEPT ![c] = @ + 1]
  /\ UNCHANGED <<handlerFrame, sharedVars, nameVars, why, val, now, exits, hits,
                 shown, lost>>

nameFrame == <<handlerFrame, sharedVars, localVars, historyVars>>

FindUninited(c) ==
  /\ line[c] < REASON_NUM /\ reasons_num[line[c]] # 0 /\ ~inited
  /\ Continue(c, "lines", "setinited")
  /\ UNCHANGED <<nameFrame, nameVars>>

ReportSetsInited(c) ==
  /\ Continue(c, "setinited", "fill")
  /\ inited' = TRUE
  /\ UNCHANGED <<nameFrame, names>>

ReportFills(c) ==
  /\ Continue(c, "fill", "fill")
  /\ StoreName
  /\ UNCHANGED <<nameFrame, inited>>

ReportFillDone(c) ==
  /\ names = Named
  /\ Continue(c, "fill", "lines")
  /\ UNCHANGED <<nameFrame, nameVars>>

LinesDone(c) ==
  /\ line[c] = REASON_NUM
  /\ Continue(c, "lines", "clear_total")
  /\ UNCHANGED testFrame

\* Faulty variant of ClearTotal: the total is not cleared.
ClearTotal_Missing(c) ==
  /\ Continue(c, "clear_total", "clear")
  /\ line' = [line EXCEPT ![c] = 0]
  /\ UNCHANGED <<handlerFrame, sharedVars, nameVars, why, val, now, historyVars>>

ClearTotal(c) ==
  /\ Continue(c, "clear_total", "clear")
  /\ total_exit' = 0
  /\ line' = [line EXCEPT ![c] = 0]
  /\ UNCHANGED <<handlerFrame, ktime, locked, reasons_num, nameVars, why, val,
                 now, historyVars>>

\* Faulty variant of ClearCount: the loop index stays.
ClearCount_Stuck(c) ==
  /\ line[c] < REASON_NUM
  /\ Continue(c, "clear", "clear")
  /\ reasons_num' = [reasons_num EXCEPT ![line[c]] = 0]
  /\ UNCHANGED <<handlerFrame, ktime, locked, total_exit, nameVars, localVars,
                 historyVars>>

\* reset_reason
ClearCount(c) ==
  /\ line[c] < REASON_NUM
  /\ Continue(c, "clear", "clear")
  /\ reasons_num' = [reasons_num EXCEPT ![line[c]] = 0]
  /\ line' = [line EXCEPT ![c] = @ + 1]
  /\ UNCHANGED <<handlerFrame, ktime, locked, total_exit, nameVars, why, val,
                 now, historyVars>>

ClearDone(c) ==
  /\ line[c] = REASON_NUM
  /\ Continue(c, "clear", "settime")
  /\ UNCHANGED testFrame

SetTime(c) ==
  /\ Continue(c, "settime", "unlock")
  /\ ktime' = now[c]
  /\ UNCHANGED <<handlerFrame, locked, total_exit, reasons_num, nameVars,
                 localVars, historyVars>>

\* Faulty variant of Unlock: a return with the lock held.
Unlock_Missing(c) ==
  /\ ReturnFrom(c, "unlock")
  /\ UNCHANGED <<handlerFrame, sharedVars, nameVars, localVars, historyVars>>

Unlock(c) ==
  /\ ReturnFrom(c, "unlock")
  /\ locked' = FALSE
  /\ UNCHANGED <<handlerFrame, ktime, total_exit, reasons_num, nameVars,
                 localVars, historyVars>>

-----------------------------------------------------------------------------
NamesInit == TestInited \/ SetInited \/ FillName \/ FillDone
ProbeInit == \/ Register \/ RegisterFails \/ RegisterDone \/ NamesInit
             \/ SpinLockInit \/ TotalInit \/ TimeInit
ProbeExit == Unregister \/ Removed

Record(c) == LoadCount(c) \/ StoreCount(c) \/ IncTotal(c)
Decide(c) == \/ ReadTime(c) \/ ReturnTooSoon(c) \/ TimeIsUp(c) \/ TryLock(c)
             \/ LockBusy(c)
Lines(c)  == \/ NothingToReport(c) \/ ReportLine(c) \/ FindUninited(c)
             \/ ReportSetsInited(c) \/ ReportFills(c) \/ ReportFillDone(c)
Show(c)   == \/ ReportTotal(c) \/ Lines(c) \/ LinesDone(c)
             \/ ClearTotal(c) \/ ClearCount(c) \/ ClearDone(c) \/ SetTime(c)
             \/ Unlock(c)
Handler(c) == Record(c) \/ Decide(c) \/ Show(c)

Next == \/ Tick \/ Insmod \/ ProbeInit \/ Rmmod \/ ProbeExit
        \/ \E c \in Cpu : Handler(c) \/ \E r \in Reason : Hit(c, r)

Spec == Init /\ [][Next]_vars

\* insmod and rmmod run on once called; nobody need call them, and guests
\* need not exit.
ModuleFairness == WF_vars(ProbeInit) /\ WF_vars(ProbeExit)

\* Only the module's own steps are fair: a CPU may stall in its handler, as a
\* virtual CPU does that is not scheduled, with or without the lock.
StallSpec == Spec /\ ModuleFairness

-----------------------------------------------------------------------------
\* The counters, program counters and tables keep their types.
TypeOK ==
  /\ mod \in ModPc /\ probe \in 0 .. REASON_NUM
  /\ armed \subseteq Probed /\ grace \subseteq Cpu
  /\ clock \in Nat /\ ktime \in Nat /\ locked \in BOOLEAN
  /\ total_exit \in Nat /\ reasons_num \in [Reason -> Nat]
  /\ inited \in BOOLEAN /\ names \subseteq Named
  /\ pc \in [Cpu -> HandlerPc]
  /\ why \in [Cpu -> Reason] /\ val \in [Cpu -> Nat]
  /\ now \in [Cpu -> Nat] /\ line \in [Cpu -> 0 .. REASON_NUM]
  /\ exits \in Nat /\ hits \in [Reason -> Nat]
  /\ shown \in Nat /\ lost \in Nat /\ told \in [Reason -> Nat]
  /\ unknown \subseteq Reason

\* Reports do not overlap: one CPU at a time is between the spin_trylock that
\* succeeds and spin_unlock (kvmexitreason.c:24-37).
OneReporter ==
  \A c, d \in Cpu : pc[c] \in Reporting /\ pc[d] \in Reporting => c = d

(***************************************************************************)
(* Why nothing runs in an unloaded module: a handler that runs although    *)
(* no probe is armed is one that unregister_kprobe waits for.              *)
(***************************************************************************)
RemovalInv ==
  /\ armed = {} => \A c \in Cpu : pc[c] # "idle" => c \in grace
  /\ mod \in {"undo", "exit"} => \A r \in armed : r >= probe
  /\ mod = "out" => armed = {} /\ grace = {}

(***************************************************************************)
(* Why reports do not overlap when no guest exits during insmod: the lock  *)
(* is held exactly while a CPU reports, and SpinLockInit finds it free.    *)
(***************************************************************************)
QuietLoad == mod \in Loading \cup {"undo"} => \A c \in Cpu : pc[c] = "idle"

LockInv ==
  /\ RemovalInv /\ QuietLoad /\ OneReporter
  /\ locked <=> \E c \in Cpu : pc[c] \in Reporting

\* The exits that are not yet in total_exit.
Uncounted == {c \in Cpu : pc[c] \in {"load", "store", "total"}}

\* Every exit is in exactly one place: it is not counted yet, or it waits in
\* total_exit for the next report, or one report had it, or it was counted
\* between a report's read of total_exit and its reset (kvmexitreason.c:28-34)
\* and is lost.  No exit is reported twice, and none is lost elsewhere.
TotalsAccounted ==
  exits = Cardinality(Uncounted) + shown + lost
          + (IF \E c \in Cpu : Unreset(c) THEN 0 ELSE total_exit)

\* No pre-handler runs, and no probe is armed, once the module's text is gone.
NoProbeLeft == mod = "out" => armed = {} /\ \A c \in Cpu : pc[c] = "idle"

\* A line of the report says EXIT_REASON_UNKNOWN (exit-reason.h:101-104) just
\* when its reason has no string in init_reasons: the flag that is set before
\* the strings are stored (exit-reason.h:14-69) never hides a name.
NamesKnown == unknown = {r \in Reason \ Named : told[r] > 0}

\* "Report kvm exit reasons detail" (README.md:8): the counts reported of a
\* reason are exits that were taken.
CountsNotOver == \A r \in Reason : told[r] <= hits[r]

\* A guest's exit is never held up by a report on another CPU: a handler
\* returns although no other CPU takes a step, the lock's holder included.
NonBlocking ==
  \A c \in Cpu : WF_vars(Handler(c)) => (pc[c] # "idle" ~> pc[c] = "idle")

\* rmmod, and the clean-up of a failed insmod, end although guests keep
\* exiting: the grace period waits for handlers that run, not for new ones.
\* For this every CPU has to run on.
RemovalEnds ==
  (\A c \in Cpu : WF_vars(Handler(c))) => (mod \in {"undo", "exit"} ~> mod = "out")
=============================================================================
