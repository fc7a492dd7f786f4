-------------------------- MODULE ExitReasonProofs --------------------------
(***************************************************************************)
(* Theorems about ExitReason, for every set of CPUs, every table of probes *)
(* and every bound.                                                        *)
(***************************************************************************)
EXTENDS ExitReason, FiniteSetTheorems, TLAPS

USE ReasonAssumption, SecondAssumption, CpuAssumption, BoundAssumption

LEMMA Indices ==
  /\ 0 \in Reason /\ 0 \in 0 .. REASON_NUM
  /\ \A i \in 0 .. REASON_NUM : i < REASON_NUM => i \in Reason
  /\ \A i \in Reason : i + 1 \in 0 .. REASON_NUM
  BY DEF Reason

LEMMA TypeModule ==
  ASSUME TypeOK, Tick \/ Insmod \/ ProbeInit \/ Rmmod \/ ProbeExit
  PROVE  TypeOK'
<1> USE DEF TypeOK, ModPc, moduleVars, nameVars, sharedVars, localVars,
            historyVars, initFrame, unregisterFrame
<1>1. CASE Tick
  BY <1>1 DEF Tick
<1>2. CASE Insmod
  <2>1. Zero \in [Reason -> Nat]
    BY DEF Zero
  <2> QED BY <1>2, <2>1, Indices DEF Insmod
<1>3. CASE ProbeInit
  <2>1. CASE Register
    <3>1. probe' \in 0 .. REASON_NUM
      BY <2>1 DEF Register
    <3> QED BY <2>1, <3>1 DEF Register
  <2>2. CASE RegisterFails
    BY <2>2, Indices DEF RegisterFails
  <2>3. CASE RegisterDone \/ NamesInit
    BY <2>3 DEF RegisterDone, NamesInit, TestInited, SetInited, FillName,
                StoreName, FillDone
  <2>4. CASE SpinLockInit
    BY <2>4 DEF SpinLockInit
  <2>5. CASE TotalInit
    BY <2>5 DEF TotalInit
  <2>6. CASE TimeInit
    BY <2>6 DEF TimeInit
  <2> QED BY <1>3, <2>1, <2>2, <2>3, <2>4, <2>5, <2>6 DEF ProbeInit
<1>4. CASE Rmmod
  BY <1>4, Indices DEF Rmmod
<1>5. CASE ProbeExit
  <2>1. CASE Unregister
    <3>1. probe' \in 0 .. REASON_NUM
      BY <2>1 DEF Unregister
    <3> QED BY <2>1, <3>1 DEF Unregister
  <2>2. CASE Removed
    BY <2>2 DEF Removed
  <2> QED BY <1>5, <2>1, <2>2 DEF ProbeExit
<1> QED BY <1>1, <1>2, <1>3, <1>4, <1>5

LEMMA TypeHit ==
  ASSUME TypeOK, NEW c \in Cpu, NEW r \in Reason, Hit(c, r)
  PROVE  TypeOK'
  BY DEF TypeOK, HandlerPc, Hit, Continue, Go, handlerFrame, sharedVars,
         nameVars

LEMMA TypeHandler ==
  ASSUME TypeOK, NEW c \in Cpu, Handler(c)
  PROVE  TypeOK'
<1> USE DEF TypeOK, HandlerPc, Continue, ReturnFrom, Go, handlerFrame,
            testFrame, sharedVars, nameVars, localVars, historyVars
<1>1. CASE Record(c)
  BY <1>1 DEF Record, LoadCount, StoreCount, IncTotal
<1>2. CASE Decide(c)
  BY <1>2 DEF Decide, ReadTime, ReturnTooSoon, TimeIsUp, TryLock, LockBusy
<1>3. CASE ReportTotal(c)
  BY <1>3, Indices DEF ReportTotal
<1>4. CASE Lines(c)
  <2>1. CASE NothingToReport(c) \/ ReportLine(c)
    <3>1. line[c] \in Reason /\ line[c] + 1 \in 0 .. REASON_NUM
      BY <2>1, Indices DEF NothingToReport, ReportLine
    <3>2. line' \in [Cpu -> 0 .. REASON_NUM]
      BY <2>1, <3>1 DEF NothingToReport, ReportLine
    <3>3. reasons_num[line[c]] \in Nat /\ told[line[c]] \in Nat
      BY <3>1
    <3>4. told' \in [Reason -> Nat] /\ unknown' \subseteq Reason
      BY <2>1, <3>1, <3>3 DEF NothingToReport, ReportLine
    <3> QED BY <2>1, <3>2, <3>4 DEF NothingToReport, ReportLine
  <2>2. CASE ~NothingToReport(c) /\ ~ReportLine(c)
    BY <1>4, <2>2 DEF Lines, FindUninited, ReportSetsInited, ReportFills,
                      StoreName, ReportFillDone, nameFrame
  <2> QED BY <2>1, <2>2
<1>5. CASE ClearTotal(c)
  BY <1>5, Indices DEF ClearTotal
<1>6. CASE ClearCount(c)
  <2>1. line[c] \in Reason /\ line[c] + 1 \in 0 .. REASON_NUM
    BY <1>6, Indices DEF ClearCount
  <2>2. line' \in [Cpu -> 0 .. REASON_NUM]
    BY <1>6, <2>1 DEF ClearCount
  <2> QED BY <1>6, <2>2 DEF ClearCount
<1>7. CASE LinesDone(c) \/ ClearDone(c)
  BY <1>7 DEF LinesDone, ClearDone
<1>8. CASE SetTime(c)
  BY <1>8 DEF SetTime
<1>9. CASE Unlock(c)
  BY <1>9 DEF Unlock
<1> QED BY <1>1, <1>2, <1>3, <1>4, <1>5, <1>6, <1>7, <1>8, <1>9
       DEF Handler, Show

\* Type correctness, with and without guests that exit during insmod.
THEOREM TypeCorrect == Spec => []TypeOK
<1>1. Init => TypeOK
  <2> SUFFICES ASSUME Init PROVE TypeOK
    OBVIOUS
  <2>1. reasons_num \in [Reason -> Nat] /\ hits \in [Reason -> Nat]
        /\ told \in [Reason -> Nat]
    BY DEF Init, Zero
  <2>2. /\ why \in [Cpu -> Reason] /\ val \in [Cpu -> Nat]
        /\ now \in [Cpu -> Nat] /\ line \in [Cpu -> 0 .. REASON_NUM]
        /\ pc \in [Cpu -> HandlerPc]
    BY Indices DEF Init, HandlerPc
  <2>3. probe \in 0 .. REASON_NUM /\ clock \in Nat
    BY Indices DEF Init
  <2> QED BY <2>1, <2>2, <2>3 DEF Init, TypeOK, ModPc
<1>2. TypeOK /\ [Next]_vars => TypeOK'
  <2> SUFFICES ASSUME TypeOK, [Next]_vars PROVE TypeOK'
    OBVIOUS
  <2>1. CASE Tick \/ Insmod \/ ProbeInit \/ Rmmod \/ ProbeExit
    BY <2>1, TypeModule
  <2>2. CASE \E c \in Cpu : Handler(c)
    BY <2>2, TypeHandler
  <2>3. CASE \E c \in Cpu : \E r \in Reason : Hit(c, r)
    BY <2>3, TypeHit
  <2>4. CASE UNCHANGED vars
    BY <2>4 DEF TypeOK, vars
  <2> QED BY <2>1, <2>2, <2>3, <2>4 DEF Next
<1> QED BY <1>1, <1>2, PTL DEF Spec
-----------------------------------------------------------------------------
(***************************************************************************)
(* What the steps of a handler leave alone.                                *)
(***************************************************************************)
LEMMA HandlerFrame ==
  ASSUME TypeOK, NEW c \in Cpu, Handler(c)
  PROVE  /\ UNCHANGED <<mod, probe, armed, exits>>
         /\ pc[c] # "idle"
         /\ \A d \in Cpu \ {c} : pc'[d] = pc[d]
         /\ \/ grace' = grace
            \/ grace' = grace \ {c} /\ pc'[c] = "idle"
<1> USE DEF TypeOK, Continue, ReturnFrom, Go, handlerFrame, testFrame,
            historyVars
<1>1. CASE Record(c)
  BY <1>1 DEF Record, LoadCount, StoreCount, IncTotal
<1>2. CASE Decide(c)
  BY <1>2 DEF Decide, ReadTime, ReturnTooSoon, TimeIsUp, TryLock, LockBusy
<1>3. CASE Show(c)
  BY <1>3 DEF Show, ReportTotal, Lines, NothingToReport, ReportLine,
              FindUninited, ReportSetsInited, ReportFills, ReportFillDone,
              nameFrame, LinesDone, ClearTotal, ClearCount, ClearDone, SetTime,
              Unlock
<1> QED BY <1>1, <1>2, <1>3 DEF Handler

LEMMA ModuleFrame ==
  ASSUME Tick \/ Insmod \/ ProbeInit \/ Rmmod \/ ProbeExit
  PROVE  pc' = pc
  BY DEF Tick, Insmod, ProbeInit, Register, RegisterFails, RegisterDone,
         NamesInit, TestInited, SetInited, FillName, FillDone, SpinLockInit,
         TotalInit, TimeInit, Rmmod, ProbeExit, Unregister, Removed, initFrame, unregisterFrame

-----------------------------------------------------------------------------
(***************************************************************************)
(* The removal of the probes.                                              *)
(***************************************************************************)
LEMMA RemovalModule ==
  ASSUME TypeOK, RemovalInv, Tick \/ Insmod \/ ProbeInit \/ Rmmod \/ ProbeExit
  PROVE  RemovalInv'
<1>1. pc' = pc
  BY ModuleFrame
<1>2. \A r \in armed : r \in Int /\ r >= 0 /\ r < REASON_NUM
  BY DEF TypeOK, Reason
<1>3. CASE Tick \/ Insmod
  BY <1>1, <1>3 DEF Tick, Insmod, moduleVars, RemovalInv
<1>4. CASE ProbeInit
  <2>1. CASE RegisterFails
    BY <1>1, <1>2, <2>1 DEF RegisterFails, initFrame, RemovalInv
  <2>2. CASE Register
    BY <1>1, <2>2 DEF Register, initFrame, RemovalInv
  <2>3. CASE ~Register /\ ~RegisterFails
    <3>1. UNCHANGED <<armed, grace>> /\ mod' \notin {"out", "undo", "exit"}
      BY <1>4, <2>3 DEF ProbeInit, RegisterDone, NamesInit, TestInited,
         SetInited, FillName, FillDone, SpinLockInit, TotalInit, TimeInit,
         initFrame
    <3> QED BY <1>1, <3>1 DEF RemovalInv
  <2> QED BY <2>1, <2>2, <2>3
<1>5. CASE Rmmod
  BY <1>1, <1>2, <1>5 DEF Rmmod, initFrame, RemovalInv
<1>6. CASE Unregister
  <2>1. /\ mod \in {"undo", "exit"} /\ mod' = mod /\ probe' = probe + 1
        /\ IF probe \in Probed THEN /\ armed' = armed \ {probe}
                                   /\ grace' = {c \in Cpu : pc[c] # "idle"}
                              ELSE armed' = armed /\ grace' = grace
    BY <1>6 DEF Unregister
  <2>2. \A r \in armed' : r >= probe'
    <3>1. \A r \in armed : r >= probe /\ r \in Probed
      BY <2>1 DEF RemovalInv, TypeOK
    <3>2. \A r \in armed' : r \in armed /\ r # probe
      BY <2>1, <3>1
    <3> QED BY <1>2, <2>1, <3>1, <3>2 DEF TypeOK
  <2>3. armed' = {} => \A c \in Cpu : pc[c] # "idle" => c \in grace'
    BY <2>1 DEF RemovalInv
  <2> QED BY <1>1, <2>1, <2>2, <2>3 DEF RemovalInv
<1>7. CASE Removed
  <2>1. mod \in {"undo", "exit"} /\ probe = REASON_NUM /\ grace = {}
        /\ mod' = "out" /\ armed' = armed /\ grace' = grace
    BY <1>7 DEF Removed
  <2>2. \A r \in armed : r >= REASON_NUM
    BY <2>1 DEF RemovalInv
  <2>3. armed = {}
    BY <1>2, <2>2
  <2> QED BY <1>1, <2>1, <2>3 DEF RemovalInv
<1> QED BY <1>3, <1>4, <1>5, <1>6, <1>7 DEF ProbeExit

LEMMA RemovalHandler ==
  ASSUME TypeOK, RemovalInv, NEW c \in Cpu, Handler(c)
  PROVE  RemovalInv'
<1>1. /\ UNCHANGED <<mod, probe, armed>> /\ pc[c] # "idle"
      /\ \A d \in Cpu \ {c} : pc'[d] = pc[d]
      /\ \/ grace' = grace
         \/ grace' = grace \ {c} /\ pc'[c] = "idle"
  BY HandlerFrame
<1>2. armed' = {} => \A d \in Cpu : pc'[d] # "idle" => d \in grace'
  BY <1>1 DEF RemovalInv
<1> QED BY <1>1, <1>2 DEF RemovalInv

LEMMA RemovalHit ==
  ASSUME TypeOK, RemovalInv, NEW c \in Cpu, NEW r \in Reason, Hit(c, r)
  PROVE  RemovalInv'
<1>1. armed # {} /\ UNCHANGED <<mod, probe, armed, grace>>
  BY DEF Hit, handlerFrame, Continue
<1> QED BY <1>1 DEF RemovalInv

LEMMA RemovalInductive == Spec => []RemovalInv
<1>1. Init => RemovalInv
  BY DEF Init, RemovalInv
<1>2. TypeOK /\ RemovalInv /\ [Next]_vars => RemovalInv'
  <2> SUFFICES ASSUME TypeOK, RemovalInv, [Next]_vars PROVE RemovalInv'
    OBVIOUS
  <2>1. CASE UNCHANGED vars
    BY <2>1 DEF RemovalInv, vars
  <2> QED BY <2>1, RemovalModule, RemovalHandler, RemovalHit DEF Next
<1> QED BY <1>1, <1>2, TypeCorrect, PTL DEF Spec

\* Once rmmod is over, or a failed insmod has returned, no probe is armed and
\* no handler runs in the module's text (kvmexitreason.c:194-215, 233-234).
THEOREM NothingLeft == Spec => []NoProbeLeft
<1>1. RemovalInv => NoProbeLeft
  BY DEF RemovalInv, NoProbeLeft
<1> QED BY <1>1, RemovalInductive, PTL
-----------------------------------------------------------------------------
(***************************************************************************)
(* One reporter at a time.  LockInv is inductive when no guest exits while *)
(* probe_init runs: showing_lock is held exactly while a CPU reports.      *)
(***************************************************************************)
LEMMA LockModule ==
  ASSUME TypeOK, LockInv, Tick \/ Insmod \/ ProbeInit \/ Rmmod \/ ProbeExit
  PROVE  LockInv'
<1>1. pc' = pc /\ RemovalInv'
  BY ModuleFrame, RemovalModule DEF LockInv
<1>2. OneReporter'
  BY <1>1 DEF LockInv, OneReporter
<1>3. CASE Insmod
  <2>1. \A c \in Cpu : pc[c] = "idle"
    BY <1>3 DEF Insmod, LockInv, RemovalInv
  <2> QED BY <1>1, <1>2, <1>3, <2>1 DEF Insmod, LockInv, QuietLoad, Reporting
<1>4. CASE ProbeInit
  <2>1. mod \in Loading
    BY <1>4 DEF ProbeInit, Register, RegisterFails, RegisterDone, NamesInit,
       TestInited, SetInited, FillName, FillDone, SpinLockInit, TotalInit,
       TimeInit, Loading
  <2>2. \A c \in Cpu : pc[c] = "idle"
    BY <2>1 DEF LockInv, QuietLoad
  <2>3. ~locked
    BY <2>2 DEF LockInv, Reporting
  <2>4. ~locked'
    BY <1>4, <2>3 DEF ProbeInit, Register, RegisterFails, RegisterDone,
       NamesInit, TestInited, SetInited, FillName, FillDone, SpinLockInit,
       TotalInit, TimeInit, sharedVars
  <2> QED BY <1>1, <1>2, <2>2, <2>4 DEF LockInv, QuietLoad, Reporting
<1>5. CASE Tick \/ Rmmod \/ ProbeExit
  <2>1. /\ locked' = locked
        /\ mod' \in Loading \cup {"undo"} => mod' = mod
    BY <1>5 DEF Tick, Rmmod, ProbeExit, Unregister, Removed, sharedVars,
       moduleVars, unregisterFrame, Loading
  <2> QED BY <1>1, <1>2, <2>1 DEF LockInv, QuietLoad
<1> QED BY <1>3, <1>4, <1>5

LEMMA LockHandler ==
  ASSUME TypeOK, LockInv, NEW c \in Cpu, Handler(c)
  PROVE  LockInv'
<1>1. /\ mod' = mod /\ pc[c] # "idle" /\ RemovalInv'
      /\ \A d \in Cpu \ {c} : pc'[d] = pc[d]
  BY HandlerFrame, RemovalHandler DEF LockInv
<1>2. QuietLoad'
  BY <1>1 DEF LockInv, QuietLoad
<1>3. ASSUME locked' = locked, pc'[c] \in Reporting <=> pc[c] \in Reporting
      PROVE  LockInv'
  BY <1>1, <1>2, <1>3 DEF LockInv, OneReporter
<1>4. CASE TryLock(c)
  <2>1. /\ ~locked /\ locked' /\ pc'[c] \in Reporting
    BY <1>4 DEF TryLock, Continue, Go, TypeOK, Reporting
  <2>2. \A d \in Cpu \ {c} : pc'[d] \notin Reporting
    BY <1>1, <2>1 DEF LockInv
  <2> QED BY <1>1, <1>2, <2>1, <2>2 DEF LockInv, OneReporter
<1>5. CASE Unlock(c)
  <2>1. ~locked' /\ pc[c] \in Reporting /\ pc'[c] \notin Reporting
    BY <1>5 DEF Unlock, ReturnFrom, Go, TypeOK, Reporting
  <2>2. \A d \in Cpu \ {c} : pc'[d] \notin Reporting
    BY <1>1, <2>1 DEF LockInv, OneReporter
  <2> QED BY <1>1, <1>2, <2>1, <2>2 DEF LockInv, OneReporter
<1>6. CASE Record(c)
  BY <1>3, <1>6 DEF Record, LoadCount, StoreCount, IncTotal, sharedVars,
     Continue, Go, TypeOK, Reporting
<1>7. CASE Decide(c) /\ ~TryLock(c)
  BY <1>3, <1>7 DEF Decide, ReadTime, ReturnTooSoon, TimeIsUp, LockBusy,
     testFrame, sharedVars, Continue, ReturnFrom, Go, TypeOK, Reporting
<1>8. CASE Show(c) /\ ~Unlock(c)
  BY <1>3, <1>8 DEF Show, ReportTotal, Lines, NothingToReport, ReportLine,
     FindUninited, ReportSetsInited, ReportFills, ReportFillDone, nameFrame,
     LinesDone, ClearTotal, ClearCount, ClearDone, SetTime, testFrame, sharedVars, Continue, Go,
     TypeOK, Reporting
<1> QED BY <1>4, <1>5, <1>6, <1>7, <1>8 DEF Handler

LEMMA LockHit ==
  ASSUME ~BusyGuests, TypeOK, LockInv, NEW c \in Cpu, NEW r \in Reason,
         Hit(c, r)
  PROVE  LockInv'
<1>1. /\ mod' = mod /\ mod \notin Loading \cup {"undo"} /\ locked' = locked
      /\ pc[c] = "idle" /\ pc' = [pc EXCEPT ![c] = "load"] /\ RemovalInv'
  BY RemovalHit DEF Hit, handlerFrame, sharedVars, Continue, Go, LockInv
<1>2. \A d \in Cpu : pc'[d] \in Reporting <=> pc[d] \in Reporting
  BY <1>1 DEF TypeOK, Reporting
<1> QED BY <1>1, <1>2 DEF LockInv, QuietLoad, OneReporter

THEOREM LockInductive ==
  ASSUME ~BusyGuests
  PROVE  Spec => []LockInv
<1>1. Init => LockInv
  BY DEF Init, LockInv, RemovalInv, QuietLoad, OneReporter, Reporting
<1>2. TypeOK /\ LockInv /\ [Next]_vars => LockInv'
  <2> SUFFICES ASSUME TypeOK, LockInv, [Next]_vars PROVE LockInv'
    OBVIOUS
  <2>1. CASE UNCHANGED vars
    BY <2>1 DEF LockInv, RemovalInv, QuietLoad, OneReporter, vars
  <2> QED BY <2>1, LockModule, LockHandler, LockHit DEF Next
<1> QED BY <1>1, <1>2, TypeCorrect, PTL DEF Spec

\* Reports do not overlap (kvmexitreason.c:24-37) when the module is loaded
\* on a host whose guests are quiet meanwhile.
THEOREM ReportsExclusive ==
  ASSUME ~BusyGuests
  PROVE  Spec => []OneReporter
<1>1. LockInv => OneReporter
  BY DEF LockInv
<1> QED BY <1>1, LockInductive, PTL
-----------------------------------------------------------------------------
(***************************************************************************)
(* The account of the exits.  TotalInit finds total_exit already 0, because*)
(* no exit has been taken before it.                                       *)
(***************************************************************************)
AccountInv == TotalsAccounted /\ (mod \in Loading => exits = 0)

SomeUnreset == \E c \in Cpu : Unreset(c)

LEMMA UncountedFinite ==
  IsFiniteSet(Uncounted) /\ Cardinality(Uncounted) \in Nat
<1>1. Uncounted \in SUBSET Cpu
  BY DEF Uncounted
<1>2. IsFiniteSet(Uncounted)
  BY <1>1, FS_Subset
<1> QED BY <1>2, FS_CardinalityType

\* Steps that leave the members of the account alone.
LEMMA AccountKept ==
  ASSUME TotalsAccounted, UNCHANGED <<exits, shown, lost, total_exit>>,
         Uncounted' = Uncounted, SomeUnreset' = SomeUnreset
  PROVE  TotalsAccounted'
  BY DEF TotalsAccounted, SomeUnreset

LEMMA AccountModule ==
  ASSUME TypeOK, LockInv, AccountInv,
         Tick \/ Insmod \/ ProbeInit \/ Rmmod \/ ProbeExit
  PROVE  AccountInv'
<1>1. pc' = pc
  BY ModuleFrame
<1>2. Uncounted' = Uncounted /\ SomeUnreset' = SomeUnreset
  BY <1>1 DEF Uncounted, SomeUnreset, Unreset
<1>3. ASSUME \A c \in Cpu : pc[c] = "idle"
      PROVE  Cardinality(Uncounted) = 0 /\ ~SomeUnreset
  <2>1. Uncounted = {}
    BY <1>3 DEF Uncounted
  <2> QED BY <1>3, <2>1, FS_EmptySet DEF SomeUnreset, Unreset
<1>4. CASE Insmod
  <2>1. \A c \in Cpu : pc[c] = "idle"
    BY <1>4 DEF Insmod, LockInv, RemovalInv
  <2>2. Cardinality(Uncounted') = 0 /\ ~SomeUnreset'
    BY <1>2, <1>3, <2>1
  <2> QED BY <1>4, <2>2 DEF Insmod, AccountInv, TotalsAccounted, SomeUnreset
<1>5. CASE ProbeInit
  <2>1. /\ mod \in Loading
        /\ UNCHANGED <<exits, shown, lost>>
        /\ total_exit' = total_exit \/ total_exit' = 0
    BY <1>5 DEF ProbeInit, Register, RegisterFails, RegisterDone, NamesInit,
       TestInited, SetInited, FillName, FillDone, SpinLockInit, TotalInit,
       TimeInit, Loading, initFrame,
       historyVars, sharedVars
  <2>2. \A c \in Cpu : pc[c] = "idle"
    BY <2>1 DEF LockInv, QuietLoad
  <2>3. Cardinality(Uncounted) = 0 /\ ~SomeUnreset
    BY <1>3, <2>2
  <2>4. exits = 0 /\ 0 = shown + lost + total_exit
    BY <2>1, <2>3 DEF AccountInv, TotalsAccounted, SomeUnreset, TypeOK
  <2>5. total_exit = 0
    BY <2>4 DEF TypeOK
  <2> QED BY <1>2, <2>1, <2>4, <2>5, AccountKept DEF AccountInv
<1>6. CASE Tick \/ Rmmod \/ ProbeExit
  <2>1. /\ UNCHANGED <<exits, shown, lost, total_exit>>
        /\ mod' \in Loading => mod' = mod
    BY <1>6 DEF Tick, Rmmod, ProbeExit, Unregister, Removed, sharedVars,
       moduleVars, initFrame, unregisterFrame, historyVars, Loading
  <2> QED BY <1>2, <2>1, AccountKept DEF AccountInv
<1> QED BY <1>4, <1>5, <1>6

LEMMA AccountHit ==
  ASSUME ~BusyGuests, TypeOK, AccountInv, NEW c \in Cpu, NEW r \in Reason,
         Hit(c, r)
  PROVE  AccountInv'
<1>1. /\ pc[c] = "idle" /\ pc' = [pc EXCEPT ![c] = "load"]
      /\ exits' = exits + 1 /\ UNCHANGED <<shown, lost, total_exit, mod>>
      /\ mod \notin Loading
  BY DEF Hit, Continue, Go, handlerFrame, sharedVars
<1>2. Uncounted' = Uncounted \cup {c} /\ c \notin Uncounted
  BY <1>1 DEF Uncounted, TypeOK
<1>3. Cardinality(Uncounted') = Cardinality(Uncounted) + 1
  BY <1>2, UncountedFinite, FS_AddElement
<1>4. SomeUnreset' = SomeUnreset
  BY <1>1 DEF SomeUnreset, Unreset, TypeOK
<1> QED BY <1>1, <1>3, <1>4, UncountedFinite
        DEF AccountInv, TotalsAccounted, SomeUnreset, TypeOK

LEMMA AccountHandler ==
  ASSUME TypeOK, LockInv, AccountInv, NEW c \in Cpu, Handler(c)
  PROVE  AccountInv'
<1>1. /\ UNCHANGED <<mod, exits>>
      /\ \A d \in Cpu \ {c} : pc'[d] = pc[d]
  BY HandlerFrame
<1>2. CASE IncTotal(c)
  <2>1. /\ pc[c] = "total" /\ pc'[c] = "time" /\ shown' = shown
        /\ total_exit' = total_exit + 1
        /\ lost' = IF SomeUnreset THEN lost + 1 ELSE lost
    BY <1>2 DEF IncTotal, Continue, Go, TypeOK, SomeUnreset
  <2>2. Uncounted' = Uncounted \ {c} /\ c \in Uncounted
    BY <1>1, <2>1 DEF Uncounted
  <2>3. Cardinality(Uncounted') = Cardinality(Uncounted) - 1
    BY <2>2, UncountedFinite, FS_RemoveElement
  <2>4. SomeUnreset' = SomeUnreset
    BY <1>1, <2>1 DEF SomeUnreset, Unreset
  <2> QED BY <1>1, <2>1, <2>3, <2>4, UncountedFinite
          DEF AccountInv, TotalsAccounted, SomeUnreset, TypeOK
<1>3. CASE ReportTotal(c)
  <2>1. /\ pc[c] = "header" /\ pc'[c] = "lines"
        /\ shown' = shown + total_exit /\ UNCHANGED <<lost, total_exit>>
    BY <1>3 DEF ReportTotal, Continue, Go, TypeOK, sharedVars
  <2>2. Uncounted' = Uncounted
    BY <1>1, <2>1 DEF Uncounted
  <2>3. ~SomeUnreset
    BY <2>1 DEF LockInv, OneReporter, SomeUnreset, Unreset, Reporting
  <2>4. SomeUnreset'
    BY <2>1 DEF SomeUnreset, Unreset
  <2> QED BY <1>1, <2>1, <2>2, <2>3, <2>4, UncountedFinite
          DEF AccountInv, TotalsAccounted, SomeUnreset, TypeOK
<1>4. CASE ClearTotal(c)
  <2>1. /\ pc[c] = "clear_total" /\ pc'[c] = "clear"
        /\ total_exit' = 0 /\ UNCHANGED <<shown, lost>>
    BY <1>4 DEF ClearTotal, Continue, Go, TypeOK, historyVars
  <2>2. Uncounted' = Uncounted
    BY <1>1, <2>1 DEF Uncounted
  <2>3. SomeUnreset
    BY <2>1 DEF SomeUnreset, Unreset
  <2>4. ~SomeUnreset'
    BY <1>1, <2>1 DEF LockInv, OneReporter, SomeUnreset, Unreset, Reporting
  <2> QED BY <1>1, <2>1, <2>2, <2>3, <2>4, UncountedFinite
          DEF AccountInv, TotalsAccounted, SomeUnreset, TypeOK
<1>5. CASE ~IncTotal(c) /\ ~ReportTotal(c) /\ ~ClearTotal(c)
  <2>1. UNCHANGED <<shown, lost, total_exit>>
    BY <1>5 DEF Handler, Record, Decide, Show, LoadCount, StoreCount, ReadTime,
       ReturnTooSoon, TimeIsUp, TryLock, LockBusy, Lines, NothingToReport,
       ReportLine, FindUninited, ReportSetsInited, ReportFills, ReportFillDone,
       LinesDone, ClearCount, ClearDone, SetTime, Unlock, nameFrame, testFrame, sharedVars,
       historyVars
  <2>2. /\ pc'[c] \in {"load", "store", "total"}
             <=> pc[c] \in {"load", "store", "total"}
        /\ Unreset(c)' <=> Unreset(c)
    BY <1>5 DEF Handler, Record, Decide, Show, LoadCount, StoreCount, ReadTime,
       ReturnTooSoon, TimeIsUp, TryLock, LockBusy, Lines, NothingToReport,
       ReportLine, FindUninited, ReportSetsInited, ReportFills, ReportFillDone,
       LinesDone, ClearCount, ClearDone, SetTime, Unlock, Continue, ReturnFrom, Go,
       Unreset, TypeOK
  <2>3. Uncounted' = Uncounted
    BY <1>1, <2>2 DEF Uncounted
  <2>4. SomeUnreset' = SomeUnreset
    BY <1>1, <2>2 DEF SomeUnreset, Unreset
  <2> QED BY <1>1, <2>1, <2>3, <2>4, AccountKept DEF AccountInv
<1> QED BY <1>2, <1>3, <1>4, <1>5

\* The account of TOTAL EXITS (kvmexitreason.c:28, 34, 48): no exit is
\* reported twice, and none is lost but those counted between a report's read
\* of total_exit and its reset.
THEOREM ExitsAccounted ==
  ASSUME ~BusyGuests
  PROVE  Spec => []TotalsAccounted
<1>1. Init => AccountInv
  <2> SUFFICES ASSUME Init PROVE AccountInv
    OBVIOUS
  <2>1. Uncounted = {} /\ ~SomeUnreset
    BY DEF Init, Uncounted, SomeUnreset, Unreset
  <2> QED BY <2>1, FS_EmptySet
          DEF Init, AccountInv, TotalsAccounted, SomeUnreset, Loading
<1>2. TypeOK /\ LockInv /\ AccountInv /\ [Next]_vars => AccountInv'
  <2> SUFFICES ASSUME TypeOK, LockInv, AccountInv, [Next]_vars PROVE AccountInv'
    OBVIOUS
  <2>1. CASE UNCHANGED vars
    <3>1. Uncounted' = Uncounted /\ SomeUnreset' = SomeUnreset
      BY <2>1 DEF vars, Uncounted, SomeUnreset, Unreset
    <3> QED BY <2>1, <3>1, AccountKept DEF AccountInv, vars
  <2> QED BY <2>1, AccountModule, AccountHandler, AccountHit DEF Next
<1>3. AccountInv => TotalsAccounted
  BY DEF AccountInv
<1> QED BY <1>1, <1>2, <1>3, TypeCorrect, LockInductive, PTL DEF Spec
-----------------------------------------------------------------------------
(***************************************************************************)
(* The names.  init_reasons sets its flag before it stores the strings;    *)
(* only a report between the two would find the flag set and a name        *)
(* missing, and no handler runs then: by the time one does, probe_init has *)
(* filled the table, and no report fills it.                               *)
(***************************************************************************)
Empty  == mod \in {"register", "names", "setinited"}
Filled == mod \in {"lockinit", "totalinit", "timeinit", "loaded", "exit"}

NamesInv ==
  /\ NamesKnown
  /\ Empty => ~inited
  /\ mod = "fill" => inited
  /\ Filled => inited /\ names = Named
  /\ \A c \in Cpu : pc[c] \notin {"setinited", "fill"}

\* A handler runs only in a module whose table is filled.
LEMMA HandlerFindsNames ==
  ASSUME TypeOK, LockInv, NamesInv, NEW c \in Cpu, pc[c] # "idle"
  PROVE  Filled
<1>1. mod \notin Loading \cup {"undo"}
  BY DEF LockInv, QuietLoad
<1>2. mod # "out"
  BY DEF LockInv, RemovalInv
<1> QED BY <1>1, <1>2 DEF TypeOK, ModPc, Loading, Filled

LEMMA NamesModule ==
  ASSUME TypeOK, NamesInv, Tick \/ Insmod \/ ProbeInit \/ Rmmod \/ ProbeExit
  PROVE  NamesInv'
<1>1. pc' = pc
  BY ModuleFrame
<1>2. CASE Insmod
  <2>1. told' = Zero /\ unknown' = {} /\ mod' = "register" /\ ~inited'
    BY <1>2 DEF Insmod
  <2>2. NamesKnown'
    BY <2>1 DEF NamesKnown, Zero
  <2> QED BY <1>1, <2>1, <2>2 DEF NamesInv, Empty, Filled
<1>3. CASE ~Insmod
  <2>1. NamesKnown'
    BY <1>3 DEF NamesInv, NamesKnown, Tick, ProbeInit, Register, RegisterFails,
       RegisterDone, NamesInit, TestInited, SetInited, FillName, FillDone,
       SpinLockInit, TotalInit, TimeInit, Rmmod, ProbeExit, Unregister, Removed,
       initFrame, unregisterFrame, historyVars
  <2>2. /\ Empty' => ~inited'
        /\ mod' = "fill" => inited'
        /\ Filled' => inited' /\ names' = Named
    <3> USE DEF NamesInv, Empty, Filled, nameVars, moduleVars
    <3>1. CASE NamesInit
      BY <3>1 DEF NamesInit, TestInited, SetInited, FillName, FillDone
    <3>2. CASE ProbeInit /\ ~NamesInit
      BY <3>2 DEF ProbeInit, Register, RegisterFails, RegisterDone,
         SpinLockInit, TotalInit, TimeInit
    <3>3. CASE Tick \/ Rmmod \/ ProbeExit
      BY <3>3 DEF Tick, Rmmod, ProbeExit, Unregister, Removed, unregisterFrame
    <3> QED BY <1>3, <3>1, <3>2, <3>3
  <2> QED BY <1>1, <2>1, <2>2 DEF NamesInv
<1> QED BY <1>2, <1>3

LEMMA NamesHandler ==
  ASSUME TypeOK, LockInv, NamesInv, NEW c \in Cpu, Handler(c)
  PROVE  NamesInv'
<1>1. /\ mod' = mod /\ pc[c] # "idle"
      /\ \A d \in Cpu \ {c} : pc'[d] = pc[d]
  BY HandlerFrame
<1>2. Filled /\ inited /\ names = Named
  BY <1>1, HandlerFindsNames DEF NamesInv
<1>3. pc[c] \notin {"setinited", "fill"}
  BY DEF NamesInv
<1>4. /\ ~FindUninited(c) /\ ~ReportSetsInited(c) /\ ~ReportFills(c)
      /\ ~ReportFillDone(c)
  BY <1>2, <1>3 DEF FindUninited, ReportSetsInited, ReportFills,
     ReportFillDone, Continue, Go
<1>5. /\ UNCHANGED <<inited, names>>
      /\ pc'[c] \notin {"setinited", "fill"}
  BY <1>4 DEF Handler, Record, Decide, Show, Lines, NothingToReport, ReportLine,
     LoadCount, StoreCount, IncTotal, ReadTime, ReturnTooSoon, TimeIsUp,
     TryLock, LockBusy, ReportTotal, LinesDone, ClearTotal, ClearCount,
     ClearDone, SetTime, Unlock, testFrame, nameVars, Continue, ReturnFrom, Go,
     TypeOK
<1>6. NamesKnown'
  <2>1. CASE ReportLine(c)
    <3> DEFINE r == line[c]
    <3>1. /\ r \in Reason /\ reasons_num[r] \in Nat /\ reasons_num[r] # 0
          /\ told' = [told EXCEPT ![r] = @ + reasons_num[r]]
          /\ unknown' = IF r \in names THEN unknown ELSE unknown \cup {r}
      BY <2>1, Indices DEF ReportLine, TypeOK
    <3>2. \A q \in Reason : told'[q] > 0 <=> told[q] > 0 \/ q = r
      BY <3>1 DEF TypeOK
    <3>3. unknown = {q \in Reason \ Named : told[q] > 0}
      BY DEF NamesInv, NamesKnown
    <3>4. unknown' = {q \in Reason \ Named : told'[q] > 0}
      BY <1>2, <3>1, <3>2, <3>3
    <3> QED BY <3>4 DEF NamesKnown
  <2>2. CASE ~ReportLine(c)
    <3>1. UNCHANGED <<told, unknown>>
      BY <1>4, <2>2 DEF Handler, Record, Decide, Show, Lines, NothingToReport,
         LoadCount, StoreCount, IncTotal, ReadTime, ReturnTooSoon, TimeIsUp,
         TryLock, LockBusy, ReportTotal, LinesDone, ClearTotal, ClearCount,
         ClearDone, SetTime, Unlock, testFrame, historyVars
    <3> QED BY <3>1 DEF NamesInv, NamesKnown
  <2> QED BY <2>1, <2>2
<1> QED BY <1>1, <1>2, <1>3, <1>5, <1>6 DEF NamesInv, Empty, Filled

\* A line of the report says EXIT_REASON_UNKNOWN just when its reason has no
\* string in init_reasons (exit-reason.h:12-69, 95-104), as EXIT_REASON_VMFUNC
\* has none, when the guests are quiet during insmod.
THEOREM NamesComplete ==
  ASSUME ~BusyGuests
  PROVE  Spec => []NamesKnown
<1>1. Init => NamesInv
  BY DEF Init, NamesInv, NamesKnown, Empty, Filled, Zero
<1>2. TypeOK /\ LockInv /\ NamesInv /\ [Next]_vars => NamesInv'
  <2> SUFFICES ASSUME TypeOK, LockInv, NamesInv, [Next]_vars PROVE NamesInv'
    OBVIOUS
  <2>1. CASE UNCHANGED vars
    BY <2>1 DEF vars, NamesInv, NamesKnown, Empty, Filled
  <2>2. ASSUME NEW c \in Cpu, NEW r \in Reason, Hit(c, r)
        PROVE  NamesInv'
    BY <2>2 DEF Hit, handlerFrame, nameVars, Continue, Go, TypeOK, NamesInv,
       NamesKnown, Empty, Filled
  <2> QED BY <2>1, <2>2, NamesModule, NamesHandler DEF Next
<1>3. NamesInv => NamesKnown
  BY DEF NamesInv
<1> QED BY <1>1, <1>2, <1>3, TypeCorrect, LockInductive, PTL DEF Spec
=============================================================================
