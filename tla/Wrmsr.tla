------------------------------- MODULE Wrmsr --------------------------------
(***************************************************************************)
(* The kvmwrmsr kernel module: one kprobe on vmx_set_msr counts the writes *)
(* of MSRs by guests.  An MSR with a line of its own in the report has a   *)
(* plain counter (MsrTable says which); the others share the counter       *)
(* wrmsr_exits_others and find an entry in the table other_msrs, which is  *)
(* guarded by a spinlock.                                                  *)
(*                                                                         *)
(* A CPU runs one pre-handler at a time.  Each access to shared memory is  *)
(* a step, but for the memset of the table and the read of one entry.      *)
(***************************************************************************)
EXTENDS Integers, FiniteSets

CONSTANTS
  Cpu,         \* the CPUs that run guests
  Named,       \* MSRs with a counter of their own
  Other,       \* MSRs without
  OTHER_MSRS,  \* the length of other_msrs, 128 in the code
  Second,      \* the ticks of 1000*1000*1000 ns
  BusyGuests,  \* guests write MSRs while probe_init still runs
  MayFail,     \* register_kprobe may fail
  MaxWrites,   \* bound: the writes in one life of the module
  MaxTime      \* bound: the ticks of ktime_get()

OTHERS  == -1
Counter == Named \cup {OTHERS}
Entry   == 0 .. OTHER_MSRS - 1

ASSUME MsrAssumption ==
  Named \subseteq Nat /\ Other \subseteq Nat /\ Named \cap Other = {}
ASSUME TableAssumption == OTHER_MSRS \in Nat \ {0} /\ Second \in Nat
ASSUME CpuAssumption   == IsFiniteSet(Cpu)
ASSUME BoundAssumption ==
  MaxWrites \in Nat /\ MaxTime \in Nat /\ BusyGuests \in BOOLEAN /\ MayFail \in BOOLEAN

VARIABLES
  mod,                \* where insmod or rmmod is
  armed,              \* the kprobe is registered
  grace,              \* the handlers unregister_kprobe has still to wait for
  clock, ktime,       \* ktime_get() and __ktime
  locked,             \* showing_lock
  total_wrmsr,
  counts,             \* the wrmsr_exits_... counters
  other_locked,       \* other_msrs_lock
  index, count,       \* the fields of other_msrs[]
  pc,                 \* where the pre-handler of each CPU is
  why, now, val, idx, \* its MSR, its time, a count it has loaded, its loop index
  left,               \* the counters it has still to print or to clear
  writes,             \* history: the writes since insmod
  since               \* history: the writes of each MSR that have come to the
                      \* table since it was last cleared, with or without room

sharedVars == <<ktime, locked, total_wrmsr, counts>>
tableVars  == <<other_locked, index, count>>
localVars  == <<why, now, val, idx, left>>
vars == <<mod, armed, grace, clock, ktime, locked, total_wrmsr, counts,
          other_locked, index, count, pc, why, now, val, idx, left, writes,
          since>>

ModPc     == {"out", "register", "lockinit", "totalinit", "otherinit",
              "otherlock", "otherclear", "timeinit", "loaded", "wait"}
HandlerPc == {"idle", "total", "load", "store", "spin", "scan", "bump",
              "release", "test", "trylock", "header", "cleartotal",
              "counters", "peeklock", "peek", "entries", "entry", "zero", "wipelock", "wipe", "settime", "unlock"}
Loading   == ModPc \ {"out", "loaded", "wait"}
Reporting == {"header", "cleartotal", "counters", "peeklock", "peek",
              "entries", "entry", "zero", "wipelock", "wipe", "settime",
              "unlock"}
\* Inside a critical section of other_msrs_lock.
Holding   == {"scan", "bump", "release", "peek", "entry", "wipe"}

NoCounts == [k \in Counter |-> 0]
NoEntry  == [i \in Entry |-> 0]
NoWrites == [m \in Other |-> 0]

Init ==
  /\ mod = "out" /\ armed = FALSE /\ grace = {}
  /\ clock = 0 /\ ktime = 0 /\ locked = FALSE /\ total_wrmsr = 0
  /\ counts = NoCounts
  /\ other_locked = FALSE /\ index = NoEntry /\ count = NoEntry
  /\ pc = [c \in Cpu |-> "idle"]
  /\ why = [c \in Cpu |-> 0] /\ now = [c \in Cpu |-> 0]
  /\ val = [c \in Cpu |-> 0] /\ idx = [c \in Cpu |-> 0]
  /\ left = [c \in Cpu |-> {}]
  /\ writes = 0 /\ since = NoWrites

Tick ==
  /\ clock < MaxTime
  /\ clock' = clock + 1
  /\ UNCHANGED <<mod, armed, grace, sharedVars, tableVars, pc, localVars,
                 writes, since>>

-----------------------------------------------------------------------------
(***************************************************************************)
(* probe_init and probe_exit.                                              *)
(***************************************************************************)
Insmod ==
  /\ mod = "out"
  /\ mod' = "register"
  /\ ktime' = 0 /\ locked' = FALSE /\ total_wrmsr' = 0 /\ counts' = NoCounts
  /\ other_locked' = FALSE /\ index' = NoEntry /\ count' = NoEntry
  /\ writes' = 0 /\ since' = NoWrites
  /\ UNCHANGED <<armed, grace, clock, pc, localVars>>

initFrame == <<grace, clock, pc, localVars, writes>>

RegisterProbe ==
  /\ mod = "register"
  /\ mod' = "lockinit" /\ armed' = TRUE
  /\ UNCHANGED <<initFrame, sharedVars, tableVars, since>>

RegisterFails ==
  /\ mod = "register" /\ MayFail
  /\ mod' = "out"
  /\ UNCHANGED <<initFrame, armed, sharedVars, tableVars, since>>

ShowingLockInit ==
  /\ mod = "lockinit"
  /\ mod' = "totalinit" /\ locked' = FALSE
  /\ UNCHANGED <<initFrame, armed, ktime, total_wrmsr, counts, tableVars, since>>

TotalInit ==
  /\ mod = "totalinit"
  /\ mod' = "otherinit" /\ total_wrmsr' = 0
  /\ UNCHANGED <<initFrame, armed, ktime, locked, counts, tableVars, since>>

\* init_wrmsr: spin_lock_init, and reset_other_wrmsr under the lock.
OtherLockInit ==
  /\ mod = "otherinit"
  /\ mod' = "otherlock" /\ other_locked' = FALSE
  /\ UNCHANGED <<initFrame, armed, sharedVars, index, count, since>>

InitLocksTable ==
  /\ mod = "otherlock" /\ ~other_locked
  /\ mod' = "otherclear" /\ other_locked' = TRUE
  /\ UNCHANGED <<initFrame, armed, sharedVars, index, count, since>>

InitClearsTable ==
  /\ mod = "otherclear"
  /\ index' = NoEntry /\ count' = NoEntry /\ since' = NoWrites
  /\ mod' = "timeinit" /\ other_locked' = FALSE
  /\ UNCHANGED <<initFrame, armed, sharedVars>>

TimeInit ==
  /\ mod = "timeinit"
  /\ mod' = "loaded" /\ ktime' = clock
  /\ UNCHANGED <<initFrame, armed, locked, total_wrmsr, counts, tableVars, since>>

\* probe_exit: unregister_kprobe disarms and waits for the handlers that run.
Unregister ==
  /\ mod = "loaded"
  /\ mod' = "wait" /\ armed' = FALSE
  /\ grace' = {c \in Cpu : pc[c] # "idle"}
  /\ UNCHANGED <<clock, pc, localVars, writes, sharedVars, tableVars, since>>

Removed ==
  /\ mod = "wait" /\ grace = {}
  /\ mod' = "out"
  /\ UNCHANGED <<initFrame, armed, sharedVars, tableVars, since>>

-----------------------------------------------------------------------------
(***************************************************************************)
(* kp_vmx_set_msr: the count.                                              *)
(***************************************************************************)
Go(c, from, to)       == pc[c] = from /\ pc' = [pc EXCEPT ![c] = to]
Continue(c, from, to) == Go(c, from, to) /\ UNCHANGED grace
ReturnFrom(c, from)   == Go(c, from, "idle") /\ grace' = grace \ {c}

handlerFrame == <<mod, armed, clock, writes>>

CounterOf(m) == IF m \in Named THEN m ELSE OTHERS

\* A guest writes m; the handler's first statement is its ktime_get().
Hit(c, m) ==
  /\ armed /\ writes < MaxWrites
  /\ BusyGuests \/ mod \notin Loading
  /\ Continue(c, "idle", "total")
  /\ why' = [why EXCEPT ![c] = m] /\ now' = [now EXCEPT ![c] = clock]
  /\ writes' = writes + 1
  /\ UNCHANGED <<mod, armed, clock, sharedVars, tableVars, val, idx, left, since>>

IncTotal(c) ==
  /\ Continue(c, "total", "load")
  /\ total_wrmsr' = total_wrmsr + 1
  /\ UNCHANGED <<handlerFrame, ktime, locked, counts, tableVars, localVars, since>>

LoadCount(c) ==
  /\ Continue(c, "load", "store")
  /\ val' = [val EXCEPT ![c] = counts[CounterOf(why[c])]]
  /\ UNCHANGED <<handlerFrame, sharedVars, tableVars, why, now, idx, left, since>>

StoreCount(c) ==
  /\ Continue(c, "store", IF why[c] \in Named THEN "test" ELSE "spin")
  /\ counts' = [counts EXCEPT ![CounterOf(why[c])] = val[c] + 1]
  /\ UNCHANGED <<handlerFrame, ktime, locked, total_wrmsr, tableVars, localVars,
                 since>>

\* Faulty variant of LockTable: the table has no lock.
LockTable_None(c) ==
  /\ Continue(c, "spin", "scan")
  /\ other_locked' = TRUE
  /\ idx' = [idx EXCEPT ![c] = 0]
  /\ UNCHANGED <<handlerFrame, sharedVars, index, count, why, now, val, left, since>>

\* record_other_wrmsr
LockTable(c) ==
  /\ ~other_locked
  /\ Continue(c, "spin", "scan")
  /\ other_locked' = TRUE
  /\ idx' = [idx EXCEPT ![c] = 0]
  /\ UNCHANGED <<handlerFrame, sharedVars, index, count, why, now, val, left, since>>

Matches(c) == index[idx[c]] \in {why[c], 0}

scanFrame == <<handlerFrame, sharedVars, other_locked, why, now, left>>

\* Faulty variant of ScanOn: idx <= OTHER_MSRS.
ScanOn_PastEnd(c) ==
  /\ idx[c] < OTHER_MSRS => ~Matches(c)
  /\ Continue(c, "scan", "scan")
  /\ idx' = [idx EXCEPT ![c] = @ + 1]
  /\ UNCHANGED <<scanFrame, index, count, val, since>>

ScanOn(c) ==
  /\ idx[c] < OTHER_MSRS /\ ~Matches(c)
  /\ Continue(c, "scan", "scan")
  /\ idx' = [idx EXCEPT ![c] = @ + 1]
  /\ UNCHANGED <<scanFrame, index, count, val, since>>

\* History: the search for this write's entry is over, whatever it has found.
CountWrite(c) == since' = [since EXCEPT ![why[c]] = @ + 1]

\* Faulty variant of ScanEnds: idx < OTHER_MSRS - 1.
ScanEnds_OneShort(c) ==
  /\ idx[c] >= OTHER_MSRS - 1
  /\ Continue(c, "scan", "release")
  /\ CountWrite(c)
  /\ UNCHANGED <<scanFrame, index, count, idx, val>>

\* The table is full: the write is dropped.
ScanEnds(c) ==
  /\ idx[c] = OTHER_MSRS
  /\ Continue(c, "scan", "release")
  /\ CountWrite(c)
  /\ UNCHANGED <<scanFrame, index, count, idx, val>>

Claim(c) ==
  /\ idx[c] < OTHER_MSRS /\ Matches(c)
  /\ Continue(c, "scan", "bump")
  /\ index' = [index EXCEPT ![idx[c]] = why[c]]
  /\ val' = [val EXCEPT ![c] = count[idx[c]]]
  /\ UNCHANGED <<scanFrame, count, idx, since>>

Bump(c) ==
  /\ Continue(c, "bump", "release")
  /\ count' = [count EXCEPT ![idx[c]] = val[c] + 1]
  /\ CountWrite(c)
  /\ UNCHANGED <<scanFrame, index, idx, val>>

\* Faulty variant of UnlockTable: break leaves the function with the lock.
UnlockTable_Missing(c) ==
  /\ Continue(c, "release", "test")
  /\ UNCHANGED <<scanFrame, index, count, idx, val, since>>

UnlockTable(c) ==
  /\ Continue(c, "release", "test")
  /\ other_locked' = FALSE
  /\ UNCHANGED <<handlerFrame, sharedVars, index, count, localVars, since>>

-----------------------------------------------------------------------------
(***************************************************************************)
(* kp_vmx_set_msr: the report.                                             *)
(***************************************************************************)
TimeIsUp(c) == now[c] - ktime > Second

testFrame == <<handlerFrame, sharedVars, tableVars, localVars, since>>

ReturnTooSoon(c) ==
  /\ ~TimeIsUp(c)
  /\ ReturnFrom(c, "test")
  /\ UNCHANGED testFrame

TryReport(c) ==
  /\ TimeIsUp(c)
  /\ Continue(c, "test", "trylock")
  /\ UNCHANGED testFrame

\* Faulty variant of TryLock: the result of spin_trylock is not looked at.
TryLock_Ignored(c) ==
  /\ Continue(c, "trylock", "header")
  /\ locked' = TRUE
  /\ UNCHANGED <<handlerFrame, ktime, total_wrmsr, counts, tableVars, localVars,
                 since>>

TryLock(c) ==
  /\ ~locked
  /\ Continue(c, "trylock", "header")
  /\ locked' = TRUE
  /\ UNCHANGED <<handlerFrame, ktime, total_wrmsr, counts, tableVars, localVars,
                 since>>

LockBusy(c) ==
  /\ locked
  /\ ReturnFrom(c, "trylock")
  /\ UNCHANGED testFrame

ReportTotal(c) ==
  /\ Continue(c, "header", "cleartotal")
  /\ UNCHANGED testFrame

ClearTotal(c) ==
  /\ Continue(c, "cleartotal", "counters")
  /\ total_wrmsr' = 0
  /\ left' = [left EXCEPT ![c] = Counter]
  /\ UNCHANGED <<handlerFrame, ktime, locked, counts, tableVars, why, now, val,
                 idx, since>>

\* show_wrmsr: the lines of the counters, in some order, then the entries.
ReportCounter(c) ==
  /\ \E k \in left[c] : left' = [left EXCEPT ![c] = @ \ {k}]
  /\ Continue(c, "counters", "counters")
  /\ UNCHANGED <<handlerFrame, sharedVars, tableVars, why, now, val, idx, since>>

CountersDone(c) ==
  /\ left[c] = {}
  /\ Continue(c, "counters", "peeklock")
  /\ idx' = [idx EXCEPT ![c] = 0]
  /\ UNCHANGED <<handlerFrame, sharedVars, tableVars, why, now, val, left, since>>

\* report_other_wrmsr, called once for entry 0 to see whether there is a
\* report, and then for each entry up to the first empty one.
LockForReport(c, from, to) ==
  /\ ~other_locked
  /\ Continue(c, from, to)
  /\ other_locked' = TRUE
  /\ UNCHANGED <<handlerFrame, sharedVars, index, count, localVars, since>>

LockPeek(c)  == LockForReport(c, "peeklock", "peek")
LockEntry(c) == idx[c] < OTHER_MSRS /\ LockForReport(c, "entries", "entry")

Reportable(c) == index[idx[c]] # 0 /\ count[idx[c]] # 0

\* The report is over: the counters are cleared next.
StartReset(c, from) ==
  /\ Continue(c, from, "zero")
  /\ left' = [left EXCEPT ![c] = Counter]
  /\ UNCHANGED idx

UnlockForReport(c) ==
  /\ other_locked' = FALSE
  /\ UNCHANGED <<handlerFrame, sharedVars, index, count, why, now, val, since>>

PeekEntry(c) ==
  /\ pc[c] = "peek"
  /\ IF Reportable(c)
       THEN Continue(c, "peek", "entries") /\ UNCHANGED <<idx, left>>
       ELSE StartReset(c, "peek")
  /\ UnlockForReport(c)

ReportEntry(c) ==
  /\ pc[c] = "entry"
  /\ IF Reportable(c)
       THEN /\ Continue(c, "entry", "entries")
            /\ idx' = [idx EXCEPT ![c] = @ + 1] /\ UNCHANGED left
       ELSE StartReset(c, "entry")
  /\ UnlockForReport(c)

EntriesDone(c) ==
  /\ idx[c] = OTHER_MSRS
  /\ StartReset(c, "entries")
  /\ UNCHANGED <<handlerFrame, sharedVars, tableVars, why, now, val, since>>

\* reset_wrmsr: the counters, in some order, and the table.
ClearCounter(c) ==
  /\ Continue(c, "zero", "zero")
  /\ \E k \in left[c] : /\ counts' = [counts EXCEPT ![k] = 0]
                        /\ left' = [left EXCEPT ![c] = @ \ {k}]
  /\ UNCHANGED <<handlerFrame, ktime, locked, total_wrmsr, tableVars, why, now,
                 val, idx, since>>

ClearDone(c) ==
  /\ left[c] = {}
  /\ Continue(c, "zero", "wipelock")
  /\ UNCHANGED testFrame

LockWipe(c) ==
  /\ ~other_locked
  /\ Continue(c, "wipelock", "wipe")
  /\ other_locked' = TRUE
  /\ UNCHANGED <<handlerFrame, sharedVars, index, count, localVars, since>>

ClearTable(c) ==
  /\ Continue(c, "wipe", "settime")
  /\ index' = NoEntry /\ count' = NoEntry /\ since' = NoWrites
  /\ other_locked' = FALSE
  /\ UNCHANGED <<handlerFrame, sharedVars, localVars>>

SetTime(c) ==
  /\ Continue(c, "settime", "unlock")
  /\ ktime' = now[c]
  /\ UNCHANGED <<handlerFrame, locked, total_wrmsr, counts, tableVars, localVars,
                 since>>

Unlock(c) ==
  /\ ReturnFrom(c, "unlock")
  /\ locked' = FALSE
  /\ UNCHANGED <<handlerFrame, ktime, total_wrmsr, counts, tableVars, localVars,
                 since>>

-----------------------------------------------------------------------------
ProbeInit == \/ RegisterProbe \/ RegisterFails \/ ShowingLockInit \/ TotalInit
             \/ OtherLockInit \/ InitLocksTable \/ InitClearsTable \/ TimeInit

Record(c) == \/ IncTotal(c) \/ LoadCount(c) \/ StoreCount(c) \/ LockTable(c)
             \/ ScanOn(c) \/ ScanEnds(c) \/ Claim(c) \/ Bump(c) \/ UnlockTable(c)
Decide(c) == ReturnTooSoon(c) \/ TryReport(c) \/ TryLock(c) \/ LockBusy(c)
Show(c)   == \/ ReportTotal(c) \/ ClearTotal(c) \/ ReportCounter(c)
             \/ CountersDone(c) \/ LockPeek(c) \/ PeekEntry(c)
             \/ LockEntry(c) \/ ReportEntry(c) \/ EntriesDone(c)
Reset(c)  == \/ ClearCounter(c) \/ ClearDone(c) \/ LockWipe(c) \/ ClearTable(c)
             \/ SetTime(c) \/ Unlock(c)
Handler(c) == Record(c) \/ Decide(c) \/ Show(c) \/ Reset(c)

Next == \/ Tick \/ Insmod \/ ProbeInit \/ Unregister \/ Removed
        \/ \E c \in Cpu : Handler(c) \/ \E m \in Named \cup Other : Hit(c, m)

Spec == Init /\ [][Next]_vars

LockOther(c) == LockTable(c) \/ LockPeek(c) \/ LockEntry(c) \/ LockWipe(c)

\* Every CPU runs on, and the queued spinlock serves the CPUs in their order:
\* the acquisition of other_msrs_lock is strongly fair.
FairSpec == /\ Spec
            /\ WF_vars(ProbeInit) /\ WF_vars(Removed)
            /\ \A c \in Cpu : /\ WF_vars(Handler(c))
                              /\ SF_vars(LockOther(c))

-----------------------------------------------------------------------------
\* The counters, program counters and the table keep their types.
TypeOK ==
  /\ mod \in ModPc /\ armed \in BOOLEAN /\ grace \subseteq Cpu
  /\ clock \in Nat /\ ktime \in Nat /\ locked \in BOOLEAN
  /\ total_wrmsr \in Nat /\ counts \in [Counter -> Nat]
  /\ other_locked \in BOOLEAN
  /\ index \in [Entry -> Other \cup {0}] /\ count \in [Entry -> Nat]
  /\ pc \in [Cpu -> HandlerPc]
  /\ why \in [Cpu -> Named \cup Other \cup {0}] /\ now \in [Cpu -> Nat]
  /\ val \in [Cpu -> Nat] /\ idx \in [Cpu -> 0 .. OTHER_MSRS]
  /\ left \in [Cpu -> SUBSET Counter]
  /\ writes \in Nat /\ since \in [Other -> Nat]

\* The spinlock other_msrs_lock does its work (msr.h:58-92): of the searches
\* for an entry, the reads of the report and the resets one runs at a time.
TableExclusive ==
  \A c, d \in Cpu : pc[c] \in Holding /\ pc[d] \in Holding => c = d

Used  == {i \in Entry : index[i] # 0}
AtRest == ~other_locked

\* When nobody holds its lock the table is exact (msr.h:58-71): its entries
\* are those of different MSRs and stand at its beginning, where the report
\* stops at the first empty one; each has the number of all the writes of its
\* MSR since the table was last cleared; and an MSR that was written and has
\* no entry lacks it because the table is full.
TableExact ==
  AtRest =>
    /\ \A i, j \in Used : index[i] = index[j] => i = j
    /\ \A i \in Used : \A j \in Entry : j < i => j \in Used
    /\ \A i \in Used : count[i] = since[index[i]]
    /\ \A m \in Other :
         since[m] > 0 => Used = Entry \/ \E i \in Used : index[i] = m

\* Reports do not overlap: one CPU at a time is between the spin_trylock that
\* succeeds and spin_unlock (kvmwrmsr.c:117-126).
OneReporter ==
  \A c, d \in Cpu : pc[c] \in Reporting /\ pc[d] \in Reporting => c = d

\* "[OTHER MSR 0x%x] %d" (kvmwrmsr.c:94): the line of an MSR gives no more
\* writes than the guests have made of it since the last report.
EntryNotOver ==
  AtRest => \A i \in Used : count[i] <= since[index[i]]

\* Two locks, one taken inside the other, and a handler that spins: every
\* guest's write nevertheless gets through its handler.
HandlerReturns == \A c \in Cpu : pc[c] # "idle" ~> pc[c] = "idle"
=============================================================================
