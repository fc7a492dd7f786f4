---------------------------- MODULE WrmsrProofs -----------------------------
(***************************************************************************)
(* Theorems about Wrmsr, for every set of CPUs, every two sets of MSRs,    *)
(* every length of the table and every bound.                              *)
(***************************************************************************)
EXTENDS Wrmsr, FiniteSetTheorems, TLAPS

USE MsrAssumption, TableAssumption, CpuAssumption, BoundAssumption

Module == Tick \/ Insmod \/ ProbeInit \/ Unregister \/ Removed

\* What makes TypeOK inductive: where a handler is says which MSR it may
\* have, and that its loop index is one of an entry.
PlacesOf(c) ==
  /\ pc[c] \in {"total", "load", "store"} => why[c] \in Named \cup Other
  /\ pc[c] \in {"spin", "scan", "bump"} => why[c] \in Other
  /\ pc[c] \in {"bump", "peeklock", "peek", "entry"} => idx[c] \in Entry

Places == \A c \in Cpu : PlacesOf(c)

LEMMA Bounds ==
  /\ 0 \in 0 .. OTHER_MSRS /\ 0 \in Entry
  /\ \A i \in 0 .. OTHER_MSRS : i # OTHER_MSRS => i \in Entry
  /\ \A i \in 0 .. OTHER_MSRS : i < OTHER_MSRS => i \in Entry
  /\ \A i \in Entry : i + 1 \in 0 .. OTHER_MSRS /\ i \in 0 .. OTHER_MSRS
  /\ Entry \subseteq Nat
  BY DEF Entry

LEMMA Zeroes ==
  /\ NoCounts \in [Counter -> Nat]
  /\ NoEntry \in [Entry -> Nat] /\ NoEntry \in [Entry -> Other \cup {0}]
  /\ NoWrites \in [Other -> Nat]
  BY DEF NoCounts, NoEntry, NoWrites

\* A table of counts stays one when a count is replaced by another one's
\* successor.
LEMMA CountedType ==
  ASSUME NEW S, NEW f \in [S -> Nat], NEW x, NEW n \in Nat
  PROVE  [f EXCEPT ![x] = n + 1] \in [S -> Nat]
<1> DEFINE v == n + 1
<1>1. v \in Nat
  OBVIOUS
<1> HIDE DEF v
<1>2. [f EXCEPT ![x] = v] \in [S -> Nat]
  BY <1>1
<1> QED BY <1>2 DEF v

LEMMA CountWriteType ==
  ASSUME TypeOK, NEW c \in Cpu, why[c] \in Other, CountWrite(c)
  PROVE  since' \in [Other -> Nat]
<1>1. since[why[c]] \in Nat /\ since \in [Other -> Nat]
  BY DEF TypeOK
<1>2. since' = [since EXCEPT ![why[c]] = since[why[c]] + 1]
  BY DEF CountWrite
<1> QED BY <1>1, <1>2, CountedType

-----------------------------------------------------------------------------
LEMMA ModuleFrame ==
  ASSUME Module
  PROVE  UNCHANGED <<pc, localVars>>
  BY DEF Module, Tick, Insmod, ProbeInit, RegisterProbe, RegisterFails,
         ShowingLockInit, TotalInit, OtherLockInit, InitLocksTable,
         InitClearsTable, TimeInit, Unregister, Removed, initFrame

\* A step of the handler on c leaves the module and the other CPUs alone.
LEMMA HandlerFrame ==
  ASSUME TypeOK, NEW c \in Cpu, Handler(c)
  PROVE  /\ UNCHANGED <<mod, armed, clock, writes, why, now>>
         /\ pc[c] # "idle"
         /\ \A d \in Cpu \ {c} : /\ pc'[d] = pc[d] /\ idx'[d] = idx[d]
                                 /\ val'[d] = val[d] /\ left'[d] = left[d]
         /\ \/ grace' = grace /\ pc'[c] # "idle"
            \/ grace' = grace \ {c} /\ pc'[c] = "idle"
<1> USE DEF TypeOK, Continue, ReturnFrom, Go, handlerFrame, testFrame,
            scanFrame, localVars
<1>1. CASE Record(c)
  BY <1>1 DEF Record, IncTotal, LoadCount, StoreCount, LockTable, ScanOn,
              ScanEnds, Claim, Bump, UnlockTable
<1>2. CASE Decide(c)
  BY <1>2 DEF Decide, ReturnTooSoon, TryReport, TryLock, LockBusy
<1>3. CASE Show(c)
  BY <1>3 DEF Show, ReportTotal, ClearTotal, ReportCounter, CountersDone,
              LockPeek, PeekEntry, LockEntry, ReportEntry, EntriesDone,
              LockForReport, UnlockForReport, StartReset
<1>4. CASE Reset(c)
  BY <1>4 DEF Reset, ClearCounter, ClearDone, LockWipe, ClearTable, SetTime,
              Unlock
<1> QED BY <1>1, <1>2, <1>3, <1>4 DEF Handler

LEMMA TypeModule ==
  ASSUME TypeOK, Module
  PROVE  TypeOK'
<1> USE DEF TypeOK, ModPc, sharedVars, tableVars, localVars, initFrame
<1>1. CASE Tick
  BY <1>1 DEF Tick
<1>2. CASE Insmod
  BY <1>2, Zeroes DEF Insmod
<1>3. CASE ProbeInit
  <2>1. CASE RegisterProbe \/ RegisterFails
    BY <2>1 DEF RegisterProbe, RegisterFails
  <2>2. CASE ShowingLockInit
    BY <2>2 DEF ShowingLockInit
  <2>3. CASE TotalInit
    BY <2>3 DEF TotalInit
  <2>4. CASE OtherLockInit \/ InitLocksTable
    BY <2>4 DEF OtherLockInit, InitLocksTable
  <2>5. CASE InitClearsTable
    BY <2>5, Zeroes DEF InitClearsTable
  <2>6. CASE TimeInit
    BY <2>6 DEF TimeInit
  <2> QED BY <1>3, <2>1, <2>2, <2>3, <2>4, <2>5, <2>6 DEF ProbeInit
<1>4. CASE Unregister \/ Removed
  BY <1>4 DEF Unregister, Removed
<1> QED BY <1>1, <1>2, <1>3, <1>4 DEF Module

LEMMA TypeHit ==
  ASSUME TypeOK, NEW c \in Cpu, NEW m \in Named \cup Other, Hit(c, m)
  PROVE  TypeOK'
  BY DEF TypeOK, HandlerPc, Hit, Continue, Go, sharedVars, tableVars

LEMMA TypeHandler ==
  ASSUME TypeOK, Places, NEW c \in Cpu, Handler(c)
  PROVE  TypeOK'
<1> USE DEF TypeOK, HandlerPc, Continue, ReturnFrom, Go, handlerFrame,
            testFrame, sharedVars, tableVars, localVars
<1>1. CASE IncTotal(c) \/ LockTable(c) \/ UnlockTable(c)
  <2>1. CASE IncTotal(c)
    BY <2>1 DEF IncTotal
  <2>2. CASE LockTable(c)
    BY <2>2, Bounds DEF LockTable
  <2>3. CASE UnlockTable(c)
    BY <2>3 DEF UnlockTable
  <2> QED BY <1>1, <2>1, <2>2, <2>3
<1>2. CASE LoadCount(c)
  <2>1. CounterOf(why[c]) \in Counter
    BY DEF CounterOf, Counter
  <2> QED BY <1>2, <2>1 DEF LoadCount
<1>3. CASE StoreCount(c)
  <2>1. counts' \in [Counter -> Nat]
    <3>1. val[c] + 1 \in Nat
      OBVIOUS
    <3> QED BY <1>3, <3>1 DEF StoreCount
  <2>2. pc' \in [Cpu -> HandlerPc]
    BY <1>3 DEF StoreCount
  <2> QED BY <1>3, <2>1, <2>2 DEF StoreCount
<1>4. CASE ScanOn(c) \/ ScanEnds(c)
  <2>1. ScanOn(c) => idx[c] + 1 \in 0 .. OTHER_MSRS
    BY Bounds DEF ScanOn
  <2>2. ScanEnds(c) => since' \in [Other -> Nat]
    BY CountWriteType DEF ScanEnds, Places, PlacesOf
  <2> QED BY <1>4, <2>1, <2>2 DEF ScanOn, ScanEnds, scanFrame
<1>5. CASE Claim(c)
  <2>1. idx[c] \in Entry /\ why[c] \in Other
    BY <1>5, Bounds DEF Claim, Places, PlacesOf
  <2> QED BY <1>5, <2>1 DEF Claim, scanFrame
<1>6. CASE Bump(c)
  <2>1. why[c] \in Other
    BY <1>6 DEF Bump, Places, PlacesOf
  <2>2. count' \in [Entry -> Nat] /\ since' \in [Other -> Nat]
    <3>1. count' = [count EXCEPT ![idx[c]] = val[c] + 1]
      BY <1>6 DEF Bump
    <3>2. count' \in [Entry -> Nat]
      BY <3>1, CountedType
    <3> QED BY <1>6, <2>1, <3>2, CountWriteType DEF Bump
  <2> QED BY <1>6, <2>2 DEF Bump, scanFrame
<1>7. CASE Decide(c)
  BY <1>7 DEF Decide, ReturnTooSoon, TryReport, TryLock, LockBusy
<1>8. CASE \/ ReportTotal(c) \/ ClearTotal(c) \/ ReportCounter(c)
           \/ CountersDone(c) \/ LockPeek(c) \/ LockEntry(c)
  <2>1. CASE ReportTotal(c) \/ ClearTotal(c)
    <3>1. ClearTotal(c) => left' \in [Cpu -> SUBSET Counter]
      BY DEF ClearTotal
    <3> QED BY <2>1, <3>1 DEF ReportTotal, ClearTotal
  <2>2. CASE ReportCounter(c)
    BY <2>2 DEF ReportCounter
  <2>3. CASE CountersDone(c)
    BY <2>3, Bounds DEF CountersDone
  <2>4. CASE LockPeek(c) \/ LockEntry(c)
    BY <2>4 DEF LockPeek, LockEntry, LockForReport
  <2> QED BY <1>8, <2>1, <2>2, <2>3, <2>4
<1>9. CASE PeekEntry(c) \/ ReportEntry(c)
  <2>1. ReportEntry(c) => idx[c] + 1 \in 0 .. OTHER_MSRS
    BY Bounds DEF ReportEntry, Places, PlacesOf
  <2>2. /\ idx' \in [Cpu -> 0 .. OTHER_MSRS] /\ left' \in [Cpu -> SUBSET Counter]
        /\ pc' \in [Cpu -> HandlerPc] /\ grace' = grace
    <3>1. CASE Reportable(c)
      BY <1>9, <2>1, <3>1 DEF PeekEntry, ReportEntry
    <3>2. CASE ~Reportable(c)
      BY <1>9, <3>2 DEF PeekEntry, ReportEntry, StartReset
    <3> QED BY <3>1, <3>2
  <2>3. UnlockForReport(c)
    BY <1>9 DEF PeekEntry, ReportEntry
  <2> QED BY <2>2, <2>3 DEF UnlockForReport
<1>10. CASE EntriesDone(c)
  BY <1>10 DEF EntriesDone, StartReset
<1>11. CASE ClearCounter(c) \/ ClearDone(c) \/ LockWipe(c)
  <2>1. CASE ClearCounter(c)
    BY <2>1 DEF ClearCounter
  <2>2. CASE ClearDone(c)
    BY <2>2 DEF ClearDone
  <2>3. CASE LockWipe(c)
    BY <2>3 DEF LockWipe
  <2> QED BY <1>11, <2>1, <2>2, <2>3
<1>12. CASE ClearTable(c)
  BY <1>12, Zeroes DEF ClearTable
<1>13. CASE SetTime(c) \/ Unlock(c)
  <2>1. CASE SetTime(c)
    BY <2>1 DEF SetTime
  <2>2. CASE Unlock(c)
    BY <2>2 DEF Unlock
  <2> QED BY <1>13, <2>1, <2>2
<1> QED BY <1>1, <1>2, <1>3, <1>4, <1>5, <1>6, <1>7, <1>8, <1>9, <1>10, <1>11,
       <1>12, <1>13 DEF Handler, Record, Show, Reset

\* Every place is reached from one whose facts imply its own.
LEMMA PlacesHandler ==
  ASSUME TypeOK, Places, NEW c \in Cpu, Handler(c)
  PROVE  Places'
<1>1. UNCHANGED why
  BY HandlerFrame
<1>2. \A d \in Cpu \ {c} : PlacesOf(d)'
  BY HandlerFrame DEF Places, PlacesOf
<1>3. PlacesOf(c)'
  <2> USE DEF PlacesOf, Places, TypeOK, Continue, ReturnFrom, Go
  <2>1. CASE IncTotal(c) \/ LoadCount(c) \/ StoreCount(c)
    BY <1>1, <2>1 DEF IncTotal, LoadCount, StoreCount
  <2>2. CASE LockTable(c) \/ ScanOn(c) \/ ScanEnds(c)
    BY <1>1, <2>2 DEF LockTable, ScanOn, ScanEnds
  <2>3. CASE Claim(c)
    BY <1>1, <2>3, Bounds DEF Claim
  <2>4. CASE Bump(c) \/ UnlockTable(c) \/ Decide(c)
    BY <1>1, <2>4 DEF Bump, UnlockTable, Decide, ReturnTooSoon, TryReport,
                      TryLock, LockBusy
  <2>5. CASE \/ ReportTotal(c) \/ ClearTotal(c) \/ ReportCounter(c)
             \/ CountersDone(c) \/ PeekEntry(c) \/ ReportEntry(c)
             \/ EntriesDone(c)
    BY <1>1, <2>5, Bounds
       DEF ReportTotal, ClearTotal, ReportCounter, CountersDone, PeekEntry,
           ReportEntry, EntriesDone, StartReset, testFrame, localVars
  <2>6. CASE LockPeek(c) \/ LockEntry(c)
    BY <1>1, <2>6, Bounds DEF LockPeek, LockEntry, LockForReport, localVars
  <2>7. CASE Reset(c)
    BY <1>1, <2>7 DEF Reset, ClearCounter, ClearDone, LockWipe, ClearTable,
                      SetTime, Unlock
  <2> QED BY <2>1, <2>2, <2>3, <2>4, <2>5, <2>6, <2>7
         DEF Handler, Record, Show
<1> QED BY <1>2, <1>3 DEF Places

LEMMA PlacesHit ==
  ASSUME TypeOK, Places, NEW c \in Cpu, NEW m \in Named \cup Other, Hit(c, m)
  PROVE  Places'
  BY DEF TypeOK, Places, PlacesOf, Hit, Continue, Go

LEMMA TypeInductive == Spec => [](TypeOK /\ Places)
<1>1. Init => TypeOK /\ Places
  <2> SUFFICES ASSUME Init PROVE TypeOK /\ Places
    OBVIOUS
  <2>1. /\ pc \in [Cpu -> HandlerPc] /\ why \in [Cpu -> Named \cup Other \cup {0}]
        /\ now \in [Cpu -> Nat] /\ val \in [Cpu -> Nat]
        /\ idx \in [Cpu -> 0 .. OTHER_MSRS] /\ left \in [Cpu -> SUBSET Counter]
    BY Bounds DEF Init, HandlerPc
  <2>2. Places
    BY DEF Init, Places, PlacesOf
  <2> QED BY <2>1, <2>2, Zeroes DEF Init, TypeOK, ModPc
<1>2. TypeOK /\ Places /\ [Next]_vars => (TypeOK /\ Places)'
  <2> SUFFICES ASSUME TypeOK, Places, [Next]_vars PROVE TypeOK' /\ Places'
    OBVIOUS
  <2>1. CASE Module
    BY <2>1, TypeModule, ModuleFrame DEF Places, PlacesOf, localVars
  <2>2. CASE \E c \in Cpu : Handler(c)
    BY <2>2, TypeHandler, PlacesHandler
  <2>3. CASE \E c \in Cpu : \E m \in Named \cup Other : Hit(c, m)
    BY <2>3, TypeHit, PlacesHit
  <2>4. CASE UNCHANGED vars
    BY <2>4 DEF TypeOK, Places, PlacesOf, vars
  <2> QED BY <2>1, <2>2, <2>3, <2>4 DEF Next, Module
<1> QED BY <1>1, <1>2, PTL DEF Spec

\* Type correctness: no handler reads or writes behind the end of other_msrs
\* (msr.h:63, kvmwrmsr.c:91), with and without writes during insmod.
THEOREM TypeCorrect == Spec => []TypeOK
  BY TypeInductive, PTL
-----------------------------------------------------------------------------
(***************************************************************************)
(* The two locks.  Each is held exactly while someone is in a critical     *)
(* section of it, provided that spin_lock_init finds no handler: guests    *)
(* write no MSR while probe_init runs.                                     *)
(***************************************************************************)
LoadInv ==
  /\ armed <=> mod \notin {"out", "register", "wait"}
  /\ mod = "out" \/ mod \in Loading => \A c \in Cpu : pc[c] = "idle"
  /\ mod = "wait" => \A c \in Cpu : pc[c] # "idle" => c \in grace

ShowLockInv ==
  /\ OneReporter
  /\ locked <=> \E c \in Cpu : pc[c] \in Reporting

TableLockInv ==
  /\ TableExclusive
  /\ other_locked <=> mod = "otherclear" \/ \E c \in Cpu : pc[c] \in Holding

LockInv == LoadInv /\ ShowLockInv /\ TableLockInv

LEMMA LoadModule ==
  ASSUME TypeOK, LoadInv, Module
  PROVE  LoadInv'
<1>1. pc' = pc
  BY ModuleFrame
<1>2. CASE Tick \/ Insmod
  BY <1>1, <1>2 DEF Tick, Insmod, LoadInv
<1>3. CASE ProbeInit
  <2>1. mod \in Loading
    BY <1>3 DEF ProbeInit, RegisterProbe, RegisterFails, ShowingLockInit,
       TotalInit, OtherLockInit, InitLocksTable, InitClearsTable, TimeInit,
       Loading, ModPc
  <2>2. \A c \in Cpu : pc'[c] = "idle"
    BY <1>1, <2>1 DEF LoadInv
  <2>3. armed' <=> mod' \notin {"out", "register", "wait"}
    BY <1>3 DEF ProbeInit, RegisterProbe, RegisterFails, ShowingLockInit,
       TotalInit, OtherLockInit, InitLocksTable, InitClearsTable, TimeInit,
       LoadInv
  <2> QED BY <2>2, <2>3 DEF LoadInv
<1>4. CASE Unregister
  BY <1>1, <1>4 DEF Unregister, LoadInv, Loading
<1>5. CASE Removed
  BY <1>1, <1>5 DEF Removed, initFrame, LoadInv, Loading
<1> QED BY <1>2, <1>3, <1>4, <1>5 DEF Module

LEMMA LoadHandler ==
  ASSUME TypeOK, LoadInv, NEW c \in Cpu, Handler(c)
  PROVE  LoadInv'
  BY HandlerFrame DEF LoadInv

LEMMA LoadHit ==
  ASSUME ~BusyGuests, TypeOK, LoadInv, NEW c \in Cpu, NEW m, Hit(c, m)
  PROVE  LoadInv'
  BY DEF LoadInv, Hit, Continue, Go

\* How a handler uses showing_lock.
LEMMA ShowLockStep ==
  ASSUME TypeOK, NEW c \in Cpu, Handler(c)
  PROVE  \/ locked' = locked /\ (pc[c] \in Reporting <=> pc'[c] \in Reporting)
         \/ ~locked /\ locked' /\ pc'[c] \in Reporting
         \/ ~locked' /\ pc[c] \in Reporting /\ pc'[c] \notin Reporting
<1> USE DEF TypeOK, Continue, ReturnFrom, Go, testFrame, scanFrame, sharedVars,
            Reporting
<1>1. CASE Record(c)
  BY <1>1 DEF Record, IncTotal, LoadCount, StoreCount, LockTable, ScanOn,
              ScanEnds, Claim, Bump, UnlockTable
<1>2. CASE Decide(c)
  BY <1>2 DEF Decide, ReturnTooSoon, TryReport, TryLock, LockBusy
<1>3. CASE Show(c)
  BY <1>3 DEF Show, ReportTotal, ClearTotal, ReportCounter, CountersDone,
              LockPeek, PeekEntry, LockEntry, ReportEntry, EntriesDone,
              LockForReport, UnlockForReport, StartReset
<1>4. CASE Reset(c)
  BY <1>4 DEF Reset, ClearCounter, ClearDone, LockWipe, ClearTable, SetTime,
              Unlock
<1> QED BY <1>1, <1>2, <1>3, <1>4 DEF Handler

\* How a handler uses other_msrs_lock.
LEMMA TableLockStep ==
  ASSUME TypeOK, NEW c \in Cpu, Handler(c)
  PROVE  \/ /\ other_locked' = other_locked
            /\ pc[c] \in Holding <=> pc'[c] \in Holding
         \/ ~other_locked /\ other_locked' /\ pc'[c] \in Holding
         \/ ~other_locked' /\ pc[c] \in Holding /\ pc'[c] \notin Holding
<1> USE DEF TypeOK, Continue, ReturnFrom, Go, testFrame, scanFrame, tableVars,
            Holding
<1>1. CASE Record(c)
  BY <1>1 DEF Record, IncTotal, LoadCount, StoreCount, LockTable, ScanOn,
              ScanEnds, Claim, Bump, UnlockTable
<1>2. CASE Decide(c)
  BY <1>2 DEF Decide, ReturnTooSoon, TryReport, TryLock, LockBusy
<1>3. CASE Show(c)
  BY <1>3 DEF Show, ReportTotal, ClearTotal, ReportCounter, CountersDone,
              LockPeek, PeekEntry, LockEntry, ReportEntry, EntriesDone,
              LockForReport, UnlockForReport, StartReset
<1>4. CASE Reset(c)
  BY <1>4 DEF Reset, ClearCounter, ClearDone, LockWipe, ClearTable, SetTime,
              Unlock
<1> QED BY <1>1, <1>2, <1>3, <1>4 DEF Handler

LEMMA LockHandler ==
  ASSUME TypeOK, LockInv, NEW c \in Cpu, Handler(c)
  PROVE  LockInv'
<1>1. mod' = mod /\ \A d \in Cpu \ {c} : pc'[d] = pc[d]
  BY HandlerFrame
<1>2. ShowLockInv'
  <2>1. CASE locked' = locked /\ (pc[c] \in Reporting <=> pc'[c] \in Reporting)
    BY <1>1, <2>1 DEF LockInv, ShowLockInv, OneReporter
  <2>2. CASE ~locked /\ locked' /\ pc'[c] \in Reporting
    BY <1>1, <2>2 DEF LockInv, ShowLockInv, OneReporter
  <2>3. CASE ~locked' /\ pc[c] \in Reporting /\ pc'[c] \notin Reporting
    BY <1>1, <2>3 DEF LockInv, ShowLockInv, OneReporter
  <2> QED BY <2>1, <2>2, <2>3, ShowLockStep
<1>3. TableLockInv'
  <2>1. CASE /\ other_locked' = other_locked
             /\ pc[c] \in Holding <=> pc'[c] \in Holding
    BY <1>1, <2>1 DEF LockInv, TableLockInv, TableExclusive
  <2>2. CASE ~other_locked /\ other_locked' /\ pc'[c] \in Holding
    BY <1>1, <2>2 DEF LockInv, TableLockInv, TableExclusive
  <2>3. CASE ~other_locked' /\ pc[c] \in Holding /\ pc'[c] \notin Holding
    <3>1. mod # "otherclear"
      BY <2>3 DEF LockInv, LoadInv, Loading, ModPc, Holding
    <3> QED BY <1>1, <2>3, <3>1 DEF LockInv, TableLockInv, TableExclusive
  <2> QED BY <2>1, <2>2, <2>3, TableLockStep
<1> QED BY <1>2, <1>3, LoadHandler DEF LockInv

LEMMA LockModule ==
  ASSUME TypeOK, LockInv, Module
  PROVE  LockInv'
<1>1. pc' = pc /\ LoadInv'
  BY ModuleFrame, LoadModule DEF LockInv
<1>2. OneReporter'
  BY <1>1 DEF LockInv, ShowLockInv, OneReporter
<1>3. CASE Insmod \/ ProbeInit
  <2>1. \A c \in Cpu : pc[c] = "idle"
    BY <1>3 DEF Insmod, ProbeInit, RegisterProbe, RegisterFails,
       ShowingLockInit, TotalInit, OtherLockInit, InitLocksTable,
       InitClearsTable, TimeInit, LockInv, LoadInv, Loading, ModPc
  <2>2. \A c \in Cpu : pc[c] \notin Reporting /\ pc[c] \notin Holding
    BY <2>1 DEF Reporting, Holding
  <2>3. ~locked /\ (other_locked <=> mod = "otherclear")
    BY <2>2 DEF LockInv, ShowLockInv, TableLockInv
  <2>4. ~locked' /\ (other_locked' <=> mod' = "otherclear")
    BY <1>3, <2>3 DEF Insmod, ProbeInit, RegisterProbe, RegisterFails,
       ShowingLockInit, TotalInit, OtherLockInit, InitLocksTable,
       InitClearsTable, TimeInit, sharedVars, tableVars
  <2> QED BY <1>1, <1>2, <2>2, <2>4 DEF LockInv, ShowLockInv, TableLockInv,
          TableExclusive
<1>4. CASE Tick \/ Unregister \/ Removed
  <2>1. /\ UNCHANGED <<locked, other_locked>>
        /\ mod' = "otherclear" <=> mod = "otherclear"
    BY <1>4 DEF Tick, Unregister, Removed, sharedVars, tableVars
  <2> QED BY <1>1, <1>2, <2>1 DEF LockInv, ShowLockInv, TableLockInv,
          TableExclusive
<1> QED BY <1>3, <1>4 DEF Module

LEMMA LockHit ==
  ASSUME ~BusyGuests, TypeOK, LockInv, NEW c \in Cpu, NEW m, Hit(c, m)
  PROVE  LockInv'
<1>1. /\ LoadInv' /\ UNCHANGED <<mod, locked, other_locked>>
      /\ pc[c] = "idle" /\ pc' = [pc EXCEPT ![c] = "total"]
  BY LoadHit DEF LockInv, Hit, Continue, Go, sharedVars, tableVars
<1>2. \A d \in Cpu : /\ pc'[d] \in Reporting <=> pc[d] \in Reporting
                     /\ pc'[d] \in Holding <=> pc[d] \in Holding
  BY <1>1 DEF TypeOK, Reporting, Holding
<1> QED BY <1>1, <1>2 DEF LockInv, ShowLockInv, TableLockInv, OneReporter,
        TableExclusive

THEOREM LockInductive ==
  ASSUME ~BusyGuests
  PROVE  Spec => []LockInv
<1>1. Init => LockInv
  BY DEF Init, LockInv, LoadInv, ShowLockInv, TableLockInv, OneReporter,
         TableExclusive, Reporting, Holding
<1>2. TypeOK /\ LockInv /\ [Next]_vars => LockInv'
  <2> SUFFICES ASSUME TypeOK, LockInv, [Next]_vars PROVE LockInv'
    OBVIOUS
  <2>1. CASE UNCHANGED vars
    BY <2>1 DEF vars, LockInv, LoadInv, ShowLockInv, TableLockInv, OneReporter,
       TableExclusive
  <2> QED BY <2>1, LockModule, LockHandler, LockHit DEF Next, Module
<1> QED BY <1>1, <1>2, TypeCorrect, PTL DEF Spec

\* Reports do not overlap (kvmwrmsr.c:117-126), when no guest writes an MSR
\* during insmod.
THEOREM ReportsExclusive ==
  ASSUME ~BusyGuests
  PROVE  Spec => []OneReporter
<1>1. LockInv => OneReporter
  BY DEF LockInv, ShowLockInv
<1> QED BY <1>1, LockInductive, PTL

\* The searches of other_msrs, its reports and its resets exclude each other
\* (msr.h:62-70), under the same assumption.
THEOREM TableGuarded ==
  ASSUME ~BusyGuests
  PROVE  Spec => []TableExclusive
<1>1. LockInv => TableExclusive
  BY DEF LockInv, TableLockInv
<1> QED BY <1>1, LockInductive, PTL
-----------------------------------------------------------------------------
(***************************************************************************)
(* The table.  TableExact speaks of the moments at which nobody holds the  *)
(* lock; what keeps it true is that the table is sound in every state, and *)
(* what a search has found out so far: no entry before its loop index is   *)
(* free or has its MSR.  0 marks a free entry, so it must not be an MSR    *)
(* that goes to the table (the run wrmsr_zero shows why).                  *)
(***************************************************************************)
Sound ==
  /\ \A i, j \in Used : index[i] = index[j] => i = j
  /\ \A i \in Used : \A j \in Entry : j < i => j \in Used
  /\ \A i \in Used : count[i] = since[index[i]]
  /\ \A m \in Other :
       since[m] > 0 => Used = Entry \/ \E i \in Used : index[i] = m
  /\ \A i \in Entry \ Used : count[i] = 0

Searched(c) ==
  /\ pc[c] = "scan" => \A i \in Entry : i < idx[c] => index[i] \notin {why[c], 0}
  /\ pc[c] = "bump" => index[idx[c]] = why[c] /\ val[c] = count[idx[c]]

ExactInv == Sound /\ \A c \in Cpu : Searched(c)

LEMMA SoundWhenCleared ==
  ASSUME index' = NoEntry, count' = NoEntry, since' = NoWrites
  PROVE  Sound'
<1>1. Used' = {}
  BY DEF Used, NoEntry
<1>2. \A i \in Entry : count'[i] = 0
  BY DEF NoEntry
<1>3. \A m \in Other : ~(since'[m] > 0)
  BY DEF NoWrites
<1> QED BY <1>1, <1>2, <1>3 DEF Sound

LEMMA ExactModule ==
  ASSUME TypeOK, LockInv, ExactInv, Module
  PROVE  ExactInv'
<1>1. UNCHANGED <<pc, why, val, idx>>
  BY ModuleFrame DEF localVars
<1>2. CASE Insmod \/ InitClearsTable
  <2>1. index' = NoEntry /\ count' = NoEntry /\ since' = NoWrites
    BY <1>2 DEF Insmod, InitClearsTable
  <2>2. \A c \in Cpu : pc[c] = "idle"
    BY <1>2 DEF Insmod, InitClearsTable, LockInv, LoadInv, Loading, ModPc
  <2>3. Sound'
    BY <2>1, SoundWhenCleared
  <2> QED BY <1>1, <2>2, <2>3 DEF ExactInv, Searched
<1>3. CASE ~Insmod /\ ~InitClearsTable
  <2>1. UNCHANGED <<index, count, since>>
    BY <1>3 DEF Module, Tick, ProbeInit, RegisterProbe, RegisterFails,
       ShowingLockInit, TotalInit, OtherLockInit, InitLocksTable, TimeInit,
       Unregister, Removed, tableVars
  <2> QED BY <1>1, <2>1 DEF ExactInv, Sound, Used, Searched
<1> QED BY <1>2, <1>3

LEMMA ExactHit ==
  ASSUME TypeOK, ExactInv, NEW c \in Cpu, NEW m, Hit(c, m)
  PROVE  ExactInv'
<1>1. /\ UNCHANGED <<index, count, since, val, idx>>
      /\ pc' = [pc EXCEPT ![c] = "total"]
      /\ why' = [why EXCEPT ![c] = m]
  BY DEF Hit, Continue, Go, tableVars
<1>2. \A d \in Cpu : Searched(d)'
  BY <1>1 DEF ExactInv, Searched, TypeOK
<1> QED BY <1>1, <1>2 DEF ExactInv, Sound, Used

\* A step that leaves the table alone.
LEMMA ExactElsewhere ==
  ASSUME TypeOK, ExactInv, NEW c \in Cpu, Handler(c),
         UNCHANGED <<index, count, since>>, Searched(c)'
  PROVE  ExactInv'
<1>1. \A d \in Cpu \ {c} : Searched(d)'
  BY HandlerFrame DEF ExactInv, Searched
<1> QED BY <1>1 DEF ExactInv, Sound, Used

\* A step inside the critical section: nobody else is searching.
LEMMA ExactInside ==
  ASSUME TypeOK, LockInv, NEW c \in Cpu, Handler(c), pc[c] \in Holding,
         Sound', Searched(c)'
  PROVE  ExactInv'
<1>1. \A d \in Cpu \ {c} : pc'[d] \notin Holding
  BY HandlerFrame DEF LockInv, TableLockInv, TableExclusive
<1>2. \A d \in Cpu \ {c} : Searched(d)'
  BY <1>1 DEF Searched, Holding
<1> QED BY <1>2 DEF ExactInv

\* The search has found a free entry, or the entry of its MSR.
LEMMA ExactClaim ==
  ASSUME 0 \notin Other, TypeOK, Places, LockInv, ExactInv, NEW c \in Cpu,
         Claim(c)
  PROVE  ExactInv'
<1> DEFINE e == idx[c]
           m == why[c]
<1>1. /\ pc[c] = "scan" /\ pc' = [pc EXCEPT ![c] = "bump"]
      /\ index' = [index EXCEPT ![e] = m] /\ val' = [val EXCEPT ![c] = count[e]]
      /\ UNCHANGED <<count, since, idx, why>> /\ index[e] \in {m, 0}
  BY DEF Claim, Continue, Go, Matches, scanFrame
<1>2. e \in Entry /\ m \in Other /\ m # 0 /\ Entry \subseteq Nat
  BY <1>1, Bounds DEF Claim, TypeOK, Places, PlacesOf
<1>3. \A i \in Entry : i < e => index[i] \notin {m, 0}
  BY <1>1 DEF ExactInv, Searched
<1>4. Searched(c)'
  BY <1>1, <1>2 DEF Searched, TypeOK
<1>5. Sound'
  <2>1. CASE index[e] = m
    <3>1. index' = index
      BY <1>1, <1>2, <2>1 DEF TypeOK
    <3> QED BY <1>1, <3>1 DEF ExactInv, Sound, Used
  <2>2. CASE index[e] = 0
    <3>1. \A i \in Entry : i > e => index[i] = 0
      BY <1>2, <2>2 DEF ExactInv, Sound, Used
    <3>2. \A i \in Entry : i \in Used <=> i < e
      <4>1. \A i, j \in Nat : (i < j \/ i = j \/ i > j) /\ ~(i < j /\ i = j)
                            /\ ~(i < j /\ i > j)
        OBVIOUS
      <4> SUFFICES ASSUME NEW i \in Entry
                   PROVE  index[i] # 0 <=> i < e
        BY DEF Used
      <4>2. e \in Nat /\ i \in Nat
        BY <1>2
      <4> QED BY <1>3, <2>2, <3>1, <4>1, <4>2
    <3>3. \A i \in Used : index[i] # m
      BY <1>3, <3>2 DEF Used
    <3>4. count[e] = 0 /\ since[m] = 0
      <4>1. ~(since[m] > 0)
        BY <1>2, <2>2, <3>3 DEF ExactInv, Sound, Used
      <4>2. since[m] \in Nat
        BY <1>2 DEF TypeOK
      <4>3. e \in Entry \ Used
        BY <1>2, <2>2 DEF Used
      <4> QED BY <4>1, <4>2, <4>3 DEF ExactInv, Sound
    <3>5. \A i \in Entry : index'[i] = IF i = e THEN m ELSE index[i]
      BY <1>1 DEF TypeOK
    <3>6. Used' = Used \cup {e}
      BY <1>2, <3>5 DEF Used
    <3>7. \A i, j \in Used' : index'[i] = index'[j] => i = j
      <4>1. \A i \in Used : i \in Entry /\ i # e
        BY <2>2 DEF Used
      <4> QED BY <1>2, <3>3, <3>5, <3>6, <4>1 DEF ExactInv, Sound
    <3>8. \A i \in Used' : \A j \in Entry : j < i => j \in Used'
      <4>1. \A i \in Entry : i \in Used' <=> i < e \/ i = e
        BY <1>2, <3>2, <3>6
      <4>2. \A i, j \in Entry : (i < e \/ i = e) /\ j < i => j < e
        <5>1. \A i, j, k \in Nat : (i < k \/ i = k) /\ j < i => j < k
          OBVIOUS
        <5> QED BY <1>2, <5>1
      <4>3. Used' \subseteq Entry
        BY DEF Used
      <4> QED BY <4>1, <4>2, <4>3
    <3>9. \A i \in Used' : count'[i] = since'[index'[i]]
      <4>1. \A i \in Used : i \in Entry /\ i # e
        BY <2>2 DEF Used
      <4>2. \A i \in Used' : i \in Used \/ i = e
        BY <3>6
      <4>3. \A i \in Used : count[i] = since[index[i]]
        BY DEF ExactInv, Sound
      <4> QED BY <1>1, <1>2, <3>4, <3>5, <4>1, <4>2, <4>3
    <3>10. \A k \in Other : since'[k] > 0 => \E i \in Used' : index'[i] = k
      <4>1. \A i \in Used : i \in Entry /\ i # e
        BY <2>2 DEF Used
      <4>2. Used # Entry
        BY <1>2, <2>2 DEF Used
      <4> QED BY <1>1, <3>5, <3>6, <4>1, <4>2 DEF ExactInv, Sound
    <3>11. \A i \in Entry \ Used' : count'[i] = 0
      BY <1>1, <3>6 DEF ExactInv, Sound
    <3> QED BY <3>7, <3>8, <3>9, <3>10, <3>11 DEF Sound
  <2> QED BY <1>1, <2>1, <2>2
<1> QED BY <1>1, <1>4, <1>5, ExactInside DEF Handler, Record, Holding

\* other_msrs[i].count++
LEMMA ExactBump ==
  ASSUME 0 \notin Other, TypeOK, Places, LockInv, ExactInv, NEW c \in Cpu, Bump(c)
  PROVE  ExactInv'
<1> DEFINE e == idx[c]
           m == why[c]
<1>1. /\ pc[c] = "bump" /\ pc' = [pc EXCEPT ![c] = "release"]
      /\ count' = [count EXCEPT ![e] = val[c] + 1]
      /\ since' = [since EXCEPT ![m] = since[m] + 1] /\ index' = index
  BY DEF Bump, CountWrite, Continue, Go, scanFrame
<1>2. e \in Entry /\ m \in Other
  BY <1>1 DEF Places, PlacesOf
<1>3. index[e] = m /\ val[c] = count[e]
  BY <1>1 DEF ExactInv, Searched
<1>4. /\ \A i \in Entry : count'[i] = IF i = e THEN count[e] + 1 ELSE count[i]
      /\ \A k \in Other : since'[k] = IF k = m THEN since[m] + 1 ELSE since[k]
  BY <1>1, <1>3 DEF TypeOK
<1>5. Used' = Used /\ \A i \in Used : i \in Entry /\ index[i] \in Other
  BY <1>1 DEF Used, TypeOK
<1>6. Searched(c)'
  BY <1>1 DEF Searched, TypeOK
<1>7. Sound'
  <2>1. e \in Used
    BY <1>2, <1>3 DEF Used
  <2>2. \A i \in Used : index[i] = m <=> i = e
    BY <1>3, <2>1 DEF ExactInv, Sound
  <2>3. \A i \in Used : count'[i] = since'[index'[i]]
    <3>1. \A i \in Used : count[i] = since[index[i]]
      BY DEF ExactInv, Sound
    <3>2. \A i \in Used : index'[i] = index[i]
      BY <1>1
    <3> QED BY <1>3, <1>4, <1>5, <2>1, <2>2, <3>1, <3>2
  <2>4. \A k \in Other :
          since'[k] > 0 => Used = Entry \/ \E i \in Used : index[i] = k
    BY <1>3, <1>4, <2>1 DEF ExactInv, Sound
  <2>5. \A i \in Entry \ Used : count'[i] = 0
    BY <1>4, <2>1 DEF ExactInv, Sound
  <2> QED BY <1>1, <1>5, <2>3, <2>4, <2>5 DEF ExactInv, Sound
<1> QED BY <1>1, <1>6, <1>7, ExactInside DEF Handler, Record, Holding

\* The search has come to the end: its MSR has no entry, and none is free.
LEMMA ExactDrop ==
  ASSUME 0 \notin Other, TypeOK, Places, LockInv, ExactInv, NEW c \in Cpu,
         ScanEnds(c)
  PROVE  ExactInv'
<1> DEFINE m == why[c]
<1>1. /\ pc[c] = "scan" /\ pc' = [pc EXCEPT ![c] = "release"]
      /\ since' = [since EXCEPT ![m] = since[m] + 1]
      /\ UNCHANGED <<index, count>> /\ idx[c] = OTHER_MSRS
  BY DEF ScanEnds, CountWrite, Continue, Go, scanFrame
<1>2. \A i \in Entry : i < OTHER_MSRS
  BY DEF Entry
<1>3. \A i \in Entry : index[i] # m /\ index[i] # 0
  BY <1>1, <1>2 DEF ExactInv, Searched
<1>4. Used = Entry /\ Used' = Entry
  BY <1>1, <1>3 DEF Used
<1>5. \A i \in Entry : since'[index'[i]] = since[index[i]]
  <2>1. \A i \in Entry : index[i] \in Other
    BY <1>3 DEF TypeOK
  <2> QED BY <1>1, <1>3, <2>1 DEF TypeOK
<1>6. Sound'
  BY <1>1, <1>4, <1>5 DEF ExactInv, Sound
<1>7. Searched(c)'
  BY <1>1 DEF Searched, TypeOK
<1> QED BY <1>1, <1>6, <1>7, ExactInside DEF Handler, Record, Holding

LEMMA ExactHandler ==
  ASSUME 0 \notin Other, TypeOK, Places, LockInv, ExactInv, NEW c \in Cpu,
         Handler(c)
  PROVE  ExactInv'
<1>1. CASE Claim(c)
  BY <1>1, ExactClaim
<1>2. CASE Bump(c)
  BY <1>2, ExactBump
<1>3. CASE ClearTable(c)
  <2>1. Sound'
    BY <1>3, SoundWhenCleared DEF ClearTable
  <2>2. pc[c] = "wipe" /\ pc'[c] = "settime"
    BY <1>3 DEF ClearTable, Continue, Go, TypeOK
  <2> QED BY <2>1, <2>2, ExactInside DEF Searched, Holding
<1>4. CASE LockTable(c)
  <2>1. /\ UNCHANGED <<index, count, since>> /\ pc'[c] = "scan" /\ idx'[c] = 0
    BY <1>4 DEF LockTable, Continue, Go, TypeOK
  <2>2. \A i \in Entry : ~(i < 0)
    BY Bounds
  <2> QED BY <2>1, <2>2, ExactElsewhere DEF Searched
<1>5. CASE ScanOn(c)
  <2>1. /\ UNCHANGED <<index, count, since, why>> /\ pc[c] = "scan"
        /\ pc'[c] = "scan" /\ idx'[c] = idx[c] + 1
        /\ index[idx[c]] \notin {why[c], 0}
    BY <1>5 DEF ScanOn, Continue, Go, Matches, scanFrame, TypeOK
  <2>2. \A i \in Entry : i < idx[c] + 1 => i < idx[c] \/ i = idx[c]
    BY Bounds DEF TypeOK
  <2>3. Searched(c)'
    BY <2>1, <2>2 DEF ExactInv, Searched
  <2> QED BY <2>1, <2>3, ExactElsewhere
<1>6. CASE /\ Record(c) /\ ~Claim(c) /\ ~Bump(c) /\ ~LockTable(c)
           /\ ~ScanOn(c) /\ ~ScanEnds(c)
  <2>1. UNCHANGED <<index, count, since>> /\ pc'[c] \notin {"scan", "bump"}
    BY <1>6 DEF Record, IncTotal, LoadCount, StoreCount, UnlockTable,
       Continue, Go, scanFrame, tableVars, TypeOK
  <2> QED BY <2>1, ExactElsewhere DEF Searched
<1>7. CASE Decide(c) \/ Show(c)
  <2>1. UNCHANGED <<index, count, since>> /\ pc'[c] \notin {"scan", "bump"}
    BY <1>7 DEF Decide, ReturnTooSoon, TryReport, TryLock, LockBusy, Show,
       ReportTotal, ClearTotal, ReportCounter, CountersDone, LockPeek,
       PeekEntry, LockEntry, ReportEntry, EntriesDone, LockForReport,
       UnlockForReport, StartReset, Continue, ReturnFrom, Go, testFrame, tableVars,
       TypeOK
  <2> QED BY <2>1, ExactElsewhere DEF Searched
<1>8. CASE Reset(c) /\ ~ClearTable(c)
  <2>1. UNCHANGED <<index, count, since>> /\ pc'[c] \notin {"scan", "bump"}
    BY <1>8 DEF Reset, ClearCounter, ClearDone, LockWipe, SetTime, Unlock,
       Continue, ReturnFrom, Go, testFrame, tableVars, TypeOK
  <2> QED BY <2>1, ExactElsewhere DEF Searched
<1>9. CASE ScanEnds(c)
  BY <1>9, ExactDrop
<1> QED BY <1>1, <1>2, <1>3, <1>4, <1>5, <1>6, <1>7, <1>8, <1>9 DEF Handler

LEMMA ExactInductive ==
  ASSUME ~BusyGuests, 0 \notin Other
  PROVE  Spec => []ExactInv
<1>1. Init => ExactInv
  <2> SUFFICES ASSUME Init PROVE ExactInv
    OBVIOUS
  <2>1. \A i \in Entry : index[i] = 0 /\ count[i] = 0
    BY DEF Init, NoEntry
  <2>2. \A m \in Other : ~(since[m] > 0)
    BY DEF Init, NoWrites
  <2>3. Used = {}
    BY <2>1 DEF Used
  <2>4. \A c \in Cpu : Searched(c)
    BY DEF Init, Searched
  <2> QED BY <2>1, <2>2, <2>3, <2>4 DEF ExactInv, Sound
<1>2. TypeOK /\ Places /\ LockInv /\ ExactInv /\ [Next]_vars => ExactInv'
  <2> SUFFICES ASSUME TypeOK, Places, LockInv, ExactInv, [Next]_vars
               PROVE  ExactInv'
    OBVIOUS
  <2>1. CASE UNCHANGED vars
    BY <2>1 DEF vars, ExactInv, Sound, Used, Searched
  <2> QED BY <2>1, ExactModule, ExactHandler, ExactHit DEF Next, Module
<1> QED BY <1>1, <1>2, TypeInductive, LockInductive, PTL DEF Spec

\* The table of other MSRs is exact whenever its lock is free, full or not
\* (msr.h:58-71), for any number of CPUs and entries, when no guest
\* writes an MSR during insmod and none of those counted in the table is 0.
THEOREM TableIsExact ==
  ASSUME ~BusyGuests, 0 \notin Other
  PROVE  Spec => []TableExact
<1>1. ExactInv => TableExact
  BY DEF ExactInv, Sound, TableExact
<1> QED BY <1>1, ExactInductive, PTL

\* The lines of the report give no more writes than there were
\* (kvmwrmsr.c:94), where the run wrmsr_zero has them wrong for MSR 0.
THEOREM LinesNotOver ==
  ASSUME ~BusyGuests, 0 \notin Other
  PROVE  Spec => []EntryNotOver
<1>1. TypeOK /\ ExactInv => EntryNotOver
  <2> SUFFICES ASSUME TypeOK, ExactInv, NEW i \in Used
               PROVE  count[i] <= since[index[i]]
    BY DEF EntryNotOver
  <2>1. count[i] = since[index[i]] /\ count[i] \in Nat
    BY DEF ExactInv, Sound, Used, TypeOK
  <2> QED BY <2>1
<1> QED BY <1>1, ExactInductive, TypeCorrect, PTL
=============================================================================
