--------------------------- MODULE IpiCallProofs ---------------------------
(***************************************************************************)
(* Theorems about the IPI loops of ipi_bench: the stack frames callbacks   *)
(* work on, the times that are added up and the number of calls.           *)
(***************************************************************************)
EXTENDS IpiCall, FiniteSetTheorems, SequenceTheorems, TLAPS

\* The CPUs with a callback for s that has not returned.
Busy(s) == QueuedOn(s) \cup RunningOn(s)

Has(q, s)   == \E i \in 1 .. Len(q) : q[i] = s
OnlyOnce(q) == \A i, j \in 1 .. Len(q) : q[i] = q[j] => i = j

(***************************************************************************)
(* The call_single_data keeps a sender from being queued twice on a CPU.   *)
(***************************************************************************)
QueueInv ==
  /\ queue \in [CallCpu -> Seq(Sender)]
  /\ \A c \in CallCpu : OnlyOnce(queue[c])
  /\ \A s \in Sender : QueuedOn(s) \subseteq csd[s]

\* A sender calls the CPUs of its target, and counts its loops down to 0.
PlaceInv ==
  /\ \A s \in Sender : /\ uncalled[s] \subseteq target[s]
                       /\ spc[s] = "start" => loop[s] = 0
                       /\ spc[s] = "call" => loop[s] > 0
                       /\ spc[s] = "done" => loop[s] = 0
  /\ \A c \in CallCpu : /\ irq[c].at = "locked" => func = "spinlock"
                        /\ irq[c].at = "astray" => spc[irq[c].from] \in Over

\* A sender that waits has callbacks only in the loop that has called them.
WaitOk(s) ==
  /\ Busy(s) \subseteq IF spc[s] = "call" THEN target[s] \ uncalled[s] ELSE {}
  /\ Busy(s) \ {s} \subseteq csd[s]
  /\ QueuedOn(s) \cap RunningOn(s) = {}

WaitInv == wait => \A s \in Sender : WaitOk(s)

(***************************************************************************)
(* Until the callback has run, now is the time the call began; after it,   *)
(* the time the call has taken.  Both lie behind all earlier samples.      *)
(***************************************************************************)
TimeOk(s) ==
  /\ began[s] <= clock
  /\ spc[s] = "failed" \/ func # "gettime" \/ ~wait => ipitime[s] = 0
  /\ spc[s] \in {"loop", "done"} => ipitime[s] <= clock - began[s]
  /\ spc[s] = "call" /\ func = "gettime" /\ wait =>
       IF uncalled[s] = {} /\ Busy(s) = {}
         THEN ipitime[s] + now[s] <= clock - began[s]
         ELSE ipitime[s] + began[s] <= now[s] /\ now[s] <= clock

TimeInv ==
  \A s \in Sender : IF spc[s] = "start" THEN ipitime[s] = 0 ELSE TimeOk(s)

(***************************************************************************)
(* What a sender has called so far, by its loop variable, is queued, runs  *)
(* or has run.                                                             *)
(***************************************************************************)
Made(s) ==
  CASE spc[s] = "start" -> 0
    [] spc[s] = "call"  -> (loops - loop[s]) * Cardinality(target[s])
                           + Cardinality(target[s] \ uncalled[s])
    [] OTHER            -> (loops - loop[s]) * Cardinality(target[s])

\* What has become of the calls of s.
CallsOf(s) == ran[s] + Cardinality(QueuedOn(s)) + Cardinality(RunningOn(s))
MadeOk(s)  == spc[s] # "failed" => CallsOf(s) = Made(s)

MadeInv == \A s \in Sender : MadeOk(s)

-----------------------------------------------------------------------------
LEMMA SetOne ==
  ASSUME NEW S, NEW T, NEW f \in [S -> T], NEW x, NEW v, x \in S => v \in T
  PROVE  [f EXCEPT ![x] = v] \in [S -> T]
  OBVIOUS

LEMMA AppendHas ==
  ASSUME NEW S, NEW q \in Seq(S), NEW x \in S, ~Has(q, x)
  PROVE  /\ Append(q, x) \in Seq(S)
         /\ \A y : Has(Append(q, x), y) <=> Has(q, y) \/ y = x
         /\ OnlyOnce(q) => OnlyOnce(Append(q, x))
<1> DEFINE r == Append(q, x)
<1>1. /\ r \in Seq(S) /\ Len(r) = Len(q) + 1 /\ Len(q) \in Nat
      /\ r[Len(q) + 1] = x /\ \A i \in 1 .. Len(q) : r[i] = q[i]
  OBVIOUS
<1>2. \A i \in 1 .. Len(r) : i \in 1 .. Len(q) \/ i = Len(q) + 1
  BY <1>1
<1>3. 1 .. Len(q) \subseteq 1 .. Len(r) /\ Len(q) + 1 \in 1 .. Len(r)
  BY <1>1
<1>4. \A y : Has(r, y) <=> Has(q, y) \/ y = x
  BY <1>1, <1>2, <1>3 DEF Has
<1>5. ASSUME OnlyOnce(q) PROVE OnlyOnce(r)
  BY <1>1, <1>2, <1>5 DEF OnlyOnce, Has
<1> QED BY <1>1, <1>4, <1>5

LEMMA TailHas ==
  ASSUME NEW S, NEW q \in Seq(S), q # <<>>, OnlyOnce(q)
  PROVE  /\ Tail(q) \in Seq(S) /\ Head(q) \in S /\ Has(q, Head(q))
         /\ \A y : Has(Tail(q), y) <=> Has(q, y) /\ y # Head(q)
         /\ OnlyOnce(Tail(q))
<1> DEFINE r == Tail(q)
<1>1. /\ r \in Seq(S) /\ Len(r) = Len(q) - 1 /\ Len(q) \in Nat /\ Len(q) >= 1
      /\ Head(q) = q[1] /\ Head(q) \in S /\ \A i \in 1 .. Len(r) : r[i] = q[i + 1]
  OBVIOUS
<1>2. 1 \in 1 .. Len(q)
  BY <1>1
<1>3. Has(q, Head(q))
  BY <1>1, <1>2 DEF Has
<1>4. \A i \in 1 .. Len(r) : i + 1 \in 1 .. Len(q) /\ i + 1 # 1
  BY <1>1
<1>5. \A i \in 1 .. Len(q) : i # 1 => i - 1 \in 1 .. Len(r) /\ (i - 1) + 1 = i
  BY <1>1
<1>6. ASSUME NEW y, Has(r, y) PROVE Has(q, y) /\ y # Head(q)
  <2>1. PICK i \in 1 .. Len(r) : r[i] = y
    BY <1>6 DEF Has
  <2>2. q[i + 1] = y /\ i + 1 \in 1 .. Len(q) /\ i + 1 # 1
    BY <1>1, <1>4, <2>1
  <2> QED BY <1>1, <1>2, <2>2 DEF Has, OnlyOnce
<1>7. ASSUME NEW y, Has(q, y), y # Head(q) PROVE Has(r, y)
  <2>1. PICK i \in 1 .. Len(q) : q[i] = y
    BY <1>7 DEF Has
  <2>2. i - 1 \in 1 .. Len(r) /\ r[i - 1] = y
    BY <1>1, <1>5, <1>7, <2>1
  <2> QED BY <2>2 DEF Has
<1>8. OnlyOnce(r)
  <2> SUFFICES ASSUME NEW i \in 1 .. Len(r), NEW j \in 1 .. Len(r), r[i] = r[j]
               PROVE  i = j
    BY DEF OnlyOnce
  <2>1. q[i + 1] = q[j + 1] /\ i + 1 \in 1 .. Len(q) /\ j + 1 \in 1 .. Len(q)
    BY <1>1, <1>4
  <2>2. i + 1 = j + 1
    BY <2>1 DEF OnlyOnce
  <2> QED BY <2>2
<1> QED BY <1>1, <1>3, <1>6, <1>7, <1>8

\* What the case that is run is made of.
LEMMA CaseFacts ==
  ASSUME CallTypeOK
  PROVE  /\ loops \in Nat /\ func \in {"gettime", "spinlock", "empty"}
         /\ Sender \subseteq CallCpu /\ CallCpu \subseteq Nat
         /\ NoCpuHolds \notin CallCpu /\ NoCall.from \notin Sender
         /\ \A s \in Sender : /\ target[s] \subseteq CallCpu
                              /\ IsFiniteSet(target[s])
         /\ func = "gettime" => \A s \in Sender : \E d : target[s] = {d}
<1> DEFINE c == [func |-> func, loops |-> loops, target |-> target]
<1>1. c \in CallCaseType
  BY CallCasesAssumption DEF CallTypeOK
<1>2. CallCpu \subseteq Nat /\ IsFiniteSet(CallCpu)
  BY CallCpuAssumption
<1>6. NoCpuHolds \notin CallCpu /\ NoCall.from \notin CallCpu
  <2>1. NoCpuHolds = -1 /\ NoCall.from = -1
    BY DEF NoCpuHolds, NoCall
  <2>2. -1 \notin Nat
    OBVIOUS
  <2> QED BY <1>2, <2>1, <2>2
<1>3. CASE func = "gettime" /\ target \in OneTargets /\ loops \in Nat
  <2>1. PICK f \in Pairs : target = [s \in DOMAIN f |-> {f[s]}]
    BY <1>3 DEF OneTargets
  <2>2. PICK S \in SUBSET CallCpu : f \in [S -> CallCpu]
    <3>1. f \in UNION {[S -> CallCpu] : S \in SUBSET CallCpu \ {{}}}
      BY DEF Pairs
    <3>2. PICK F \in {[S -> CallCpu] : S \in SUBSET CallCpu \ {{}}} : f \in F
      BY <3>1
    <3> QED BY <3>2
  <2>3. Sender = S /\ \A s \in S : target[s] = {f[s]} /\ f[s] \in CallCpu
    BY <2>1, <2>2 DEF Sender
  <2>4. \A s \in S : IsFiniteSet(target[s])
    BY <2>3, FS_Singleton
  <2>5. \A s \in Sender : \E d : target[s] = {d}
    BY <2>3
  <2>6. \A s \in Sender : target[s] \subseteq CallCpu
    BY <2>3
  <2> QED BY <1>2, <1>3, <2>2, <2>3, <2>4, <2>5, <2>6, <1>6
<1>4. CASE func \in {"spinlock", "empty"} /\ target \in ManyTargets /\ loops \in Nat
  <2>1. PICK S \in SUBSET CallCpu : target = [s \in S |-> CallCpu \ {s}]
    BY <1>4 DEF ManyTargets
  <2>2. Sender = S /\ \A s \in S : target[s] \subseteq CallCpu
    BY <2>1 DEF Sender
  <2>3. \A s \in S : IsFiniteSet(target[s])
    BY <1>2, <2>2, FS_Subset
  <2> QED BY <1>2, <1>4, <1>6, <2>2, <2>3
<1>5. \/ func = "gettime" /\ target \in OneTargets /\ loops \in Nat
      \/ func \in {"spinlock", "empty"} /\ target \in ManyTargets /\ loops \in Nat
  BY <1>1 DEF CallCaseType
<1> QED BY <1>3, <1>4, <1>5


BaseInv == CallTypeOK /\ QueueInv /\ PlaceInv

\* CPU c runs a callback, or none.
IrqType == {NoCall} \cup [from : Sender, at : {"enter", "locked", "astray"}]

\* A step leaves the case alone; then these are the types to keep.
LEMMA TypeKept ==
  ASSUME CallTypeOK, UNCHANGED caseVars,
         clock' \in 0 .. MaxClock,
         spc' \in [Sender -> {"start", "loop", "call"} \cup Over],
         loop' \in [Sender -> 0 .. loops],
         uncalled' \in [Sender -> SUBSET CallCpu],
         csd' \in [Sender -> SUBSET CallCpu],
         now' \in [Sender -> Nat], ipitime' \in [Sender -> Nat],
         began' \in [Sender -> Nat], ran' \in [Sender -> Nat],
         holder' \in [Sender -> CallCpu \cup {NoCpuHolds}],
         \A c \in CallCpu : \A i \in 1 .. Len(queue'[c]) : queue'[c][i] \in Sender \ {c},
         irq' \in [CallCpu -> IrqType]
  PROVE  CallTypeOK'
<1>1. UNCHANGED <<wait, func, loops, target>> /\ Sender' = Sender
  BY DEF caseVars, Sender
<1>2. wait' \in BOOLEAN /\ [func |-> func', loops |-> loops', target |-> target'] \in CallCases
  BY <1>1 DEF CallTypeOK
<1> QED BY <1>1, <1>2 DEF CallTypeOK, IrqType

\* The call that Call queues, or, to the sender's own CPU, begins.
LEMMA CallStep ==
  ASSUME CallTypeOK, NEW s \in Sender, Call(s)
  PROVE  \E d \in uncalled[s] \ csd[s] :
           /\ uncalled' = [uncalled EXCEPT ![s] = @ \ {d}] /\ d \in CallCpu
           /\ \/ /\ d = s /\ irq' = [irq EXCEPT ![s] = [from |-> s, at |-> "enter"]]
                 /\ UNCHANGED <<csd, queue>>
              \/ /\ d # s /\ queue' = [queue EXCEPT ![d] = Append(@, s)]
                 /\ csd' = [csd EXCEPT ![s] = @ \cup {d}]
                 /\ UNCHANGED irq
<1>1. uncalled[s] \subseteq CallCpu
  BY DEF CallTypeOK
<1> QED BY <1>1 DEF Call

\* A sender moves on its own, and only when its CPU is in no interrupt.
LEMMA SendFrame ==
  ASSUME CallTypeOK, NEW s \in Sender, Send(s)
  PROVE  /\ UNCHANGED <<caseVars, clock, holder, ran>>
         /\ irq[s] = NoCall /\ spc[s] \notin Over
         /\ \A u \in Sender \ {s} :
              UNCHANGED <<spc[u], loop[u], uncalled[u], csd[u], now[u],
                          ipitime[u], began[u]>>
         /\ Call(s) \/ UNCHANGED <<csd, queue, irq>>
<1> USE DEF CallTypeOK, Moves, Over
<1>1. CASE StartLoops(s) \/ CallFails(s) \/ ReturnDone(s)
  BY <1>1 DEF StartLoops, CallFails, ReturnDone
<1>2. CASE NextLoop(s) \/ Called(s)
  BY <1>2 DEF NextLoop, Called
<1>3. CASE Call(s)
  <2>1. PICK d :
          /\ uncalled' = [uncalled EXCEPT ![s] = @ \ {d}]
          /\ csd' = csd \/ csd' = [csd EXCEPT ![s] = @ \cup {d}]
    BY <1>3, CallStep
  <2>2. \A u \in Sender \ {s} : UNCHANGED <<uncalled[u], csd[u]>>
    BY <2>1
  <2>3. /\ UNCHANGED <<caseVars, clock, holder, ran, loop, now, ipitime, began>>
        /\ irq[s] = NoCall /\ spc[s] = "call" /\ spc' = [spc EXCEPT ![s] = "call"]
    BY <1>3 DEF Call
  <2> QED BY <1>3, <2>2, <2>3
<1> QED BY <1>1, <1>2, <1>3 DEF Send

LEMMA TypeSend ==
  ASSUME BaseInv, NEW s \in Sender, Send(s)
  PROVE  CallTypeOK'
<1>1. CallTypeOK
  BY DEF BaseInv
<1>2. /\ loops \in Nat /\ Sender \subseteq CallCpu
      /\ target[s] \subseteq CallCpu
  BY <1>1, CaseFacts
<1>3. clock \in Nat /\ queue \in [CallCpu -> Seq(Sender)]
  BY <1>1, MaxClockAssumption DEF BaseInv, CallTypeOK, QueueInv
<1>4. /\ UNCHANGED caseVars /\ clock' \in 0 .. MaxClock
      /\ ran' \in [Sender -> Nat]
      /\ holder' \in [Sender -> CallCpu \cup {NoCpuHolds}]
  BY <1>1, SendFrame DEF CallTypeOK
<1>5. /\ irq \in [CallCpu -> IrqType] /\ csd \in [Sender -> SUBSET CallCpu]
      /\ \A c \in CallCpu : \A i \in 1 .. Len(queue[c]) : queue[c][i] \in Sender \ {c}
  BY <1>1 DEF CallTypeOK, IrqType
<1>6. spc' \in [Sender -> {"start", "loop", "call"} \cup Over]
  BY <1>1 DEF Send, StartLoops, NextLoop, Call, CallFails, Called, ReturnDone,
     Moves, CallTypeOK, Over
<1>7. /\ now' \in [Sender -> Nat] /\ began' \in [Sender -> Nat]
  <2>1. /\ now \in [Sender -> Nat] /\ began \in [Sender -> Nat]
        /\ now' = now \/ now' = [now EXCEPT ![s] = clock]
        /\ began' = began \/ began' = [began EXCEPT ![s] = clock]
    BY <1>1 DEF Send, StartLoops, NextLoop, Call, CallFails, Called, ReturnDone,
       CallTypeOK
  <2> QED BY <1>3, <2>1
<1>8. /\ loop' \in [Sender -> 0 .. loops] /\ ipitime' \in [Sender -> Nat]
  <2>1. /\ loop \in [Sender -> 0 .. loops] /\ ipitime \in [Sender -> Nat]
        /\ now[s] \in Nat
    BY <1>1 DEF CallTypeOK
  <2>2. CASE Called(s)
    <3>1. /\ loop[s] > 0 /\ loop' = [loop EXCEPT ![s] = @ - 1]
          /\ ipitime' = [ipitime EXCEPT ![s] = @ + Sample(s)]
      BY <1>1, <2>2 DEF Called, Moves, BaseInv, PlaceInv
    <3>2. Sample(s) \in Nat
      BY <2>1 DEF Sample
    <3>3. loop[s] - 1 \in 0 .. loops
      BY <1>2, <2>1, <3>1
    <3> QED BY <2>1, <3>1, <3>2, <3>3
  <2>3. CASE ~Called(s)
    <3>1. /\ loop' = loop \/ loop' = [loop EXCEPT ![s] = loops]
          /\ ipitime' = ipitime \/ ipitime' = [ipitime EXCEPT ![s] = 0]
      BY <2>3 DEF Send, StartLoops, NextLoop, Call, CallFails, ReturnDone
    <3> QED BY <1>2, <2>1, <3>1
  <2> QED BY <2>2, <2>3
<1>9. /\ uncalled' \in [Sender -> SUBSET CallCpu]
      /\ csd' \in [Sender -> SUBSET CallCpu] /\ irq' \in [CallCpu -> IrqType]
      /\ \A c \in CallCpu : \A i \in 1 .. Len(queue'[c]) : queue'[c][i] \in Sender \ {c}
  <2>1. uncalled \in [Sender -> SUBSET CallCpu]
    BY <1>1 DEF CallTypeOK
  <2>2. CASE Call(s)
    <3>1. PICK d \in CallCpu :
           /\ uncalled' = [uncalled EXCEPT ![s] = @ \ {d}]
           /\ \/ /\ d = s /\ irq' = [irq EXCEPT ![s] = [from |-> s, at |-> "enter"]]
                 /\ UNCHANGED <<csd, queue>>
              \/ /\ d # s /\ queue' = [queue EXCEPT ![d] = Append(@, s)]
                 /\ csd' = [csd EXCEPT ![s] = @ \cup {d}]
                 /\ UNCHANGED irq
      BY <1>1, <2>2, CallStep
    <3>2. [from |-> s, at |-> "enter"] \in IrqType
      BY DEF IrqType
    <3>3. irq' \in [CallCpu -> IrqType]
      BY <1>2, <1>5, <3>1, <3>2
    <3>4. CASE d = s
      BY <1>5, <2>1, <3>1, <3>3, <3>4
    <3>5. CASE d # s
      <4>1. \A c \in CallCpu :
              queue'[c] = IF c = d THEN Append(queue[c], s) ELSE queue[c]
        BY <1>3, <3>1, <3>5
      <4>2. \A c \in CallCpu : queue[c] \in Seq(Sender)
        BY <1>3
      <4>3. \A i \in 1 .. Len(Append(queue[d], s)) : Append(queue[d], s)[i] \in Sender \ {d}
        BY <1>5, <3>5, <4>2
      <4>4. \A c \in CallCpu : \A i \in 1 .. Len(queue'[c]) : queue'[c][i] \in Sender \ {c}
        <5> SUFFICES ASSUME NEW c \in CallCpu, NEW i \in 1 .. Len(queue'[c])
                     PROVE  queue'[c][i] \in Sender \ {c}
          OBVIOUS
        <5>1. CASE c = d
          BY <4>1, <4>3, <5>1
        <5>2. CASE c # d
          BY <1>5, <4>1, <5>2
        <5> QED BY <5>1, <5>2
      <4>5. csd' \in [Sender -> SUBSET CallCpu] /\ uncalled' \in [Sender -> SUBSET CallCpu]
        BY <1>5, <2>1, <3>1, <3>5
      <4> QED BY <3>3, <4>4, <4>5
    <3> QED BY <3>4, <3>5
  <2>3. CASE ~Call(s)
    <3>1. uncalled' = uncalled \/ uncalled' = [uncalled EXCEPT ![s] = target[s]]
      BY <2>3 DEF Send, StartLoops, NextLoop, CallFails, Called, ReturnDone
    <3> QED BY <1>1, <1>2, <1>5, <2>1, <2>3, <3>1, SendFrame
  <2> QED BY <2>2, <2>3
<1> QED BY <1>1, <1>4, <1>6, <1>7, <1>8, <1>9, TypeKept


\* A call that is taken is the first of the queue, and no other of its sender
\* is in there.
LEMMA TakeStep ==
  ASSUME CallTypeOK, QueueInv, NEW c \in CallCpu, Take(c)
  PROVE  \E s \in Sender \ {c} :
           /\ irq[c] = NoCall /\ irq' = [irq EXCEPT ![c] = [from |-> s, at |-> "enter"]]
           /\ c \in QueuedOn(s)
           /\ queue' = [queue EXCEPT ![c] = Tail(queue[c])]
           /\ Tail(queue[c]) \in Seq(Sender) /\ OnlyOnce(Tail(queue[c]))
           /\ \A u : Has(Tail(queue[c]), u) <=> Has(queue[c], u) /\ u # s
           /\ csd' = IF Sync THEN csd ELSE [csd EXCEPT ![s] = @ \ {c}]
           /\ UNCHANGED <<caseVars, sendVars, clock, now, holder, ran>>
<1> DEFINE s == Head(queue[c])
<1>1. queue[c] \in Seq(Sender) /\ OnlyOnce(queue[c]) /\ queue[c] # <<>>
  BY DEF Take, QueueInv
<1>2. /\ Tail(queue[c]) \in Seq(Sender) /\ s \in Sender /\ Has(queue[c], s)
      /\ OnlyOnce(Tail(queue[c]))
      /\ \A u : Has(Tail(queue[c]), u) <=> Has(queue[c], u) /\ u # s
  BY <1>1, TailHas
<1>3. s # c
  BY <1>2 DEF Has, CallTypeOK
<1>4. c \in QueuedOn(s)
  BY <1>2 DEF Has, QueuedOn
<1> QED BY <1>2, <1>3, <1>4 DEF Take

\* A callback returns, or goes on.
Returns(c) ==
  /\ CallReturns(c) /\ (func = "empty" \/ spc[irq[c].from] \notin Over)
  /\ \/ irq[c].at = "enter"
     \/ irq[c].at = "locked"
GoesOn(c) ==
  /\ UNCHANGED <<csd, ran, now>> /\ irq[c].at \in {"enter", "locked"}
  /\ \/ /\ irq' = [irq EXCEPT ![c].at = "locked"] /\ func = "spinlock"
        /\ holder' = [holder EXCEPT ![irq[c].from] = c]
     \/ /\ irq' = [irq EXCEPT ![c].at = "astray"]
        /\ spc[irq[c].from] \in Over /\ holder' = holder

LEMMA CallbackStep ==
  ASSUME CallTypeOK, NEW c \in CallCpu, Interrupt(c), ~Take(c)
  PROVE  /\ irq[c].from \in Sender /\ UNCHANGED <<caseVars, sendVars, clock, queue>>
         /\ Returns(c) \/ GoesOn(c)
<1>1. /\ UNCHANGED <<caseVars, sendVars, clock, queue>>
      /\ Returns(c) \/ GoesOn(c)
  BY DEF Interrupt, Gettime, Empty, SpinLock, SpinUnlock, CallAstray, CallAt,
     Returns, GoesOn
<1>2. irq[c].at # "none"
  BY <1>1 DEF Returns, GoesOn
<1>3. irq[c] \in {NoCall} \cup [from : Sender, at : {"enter", "locked", "astray"}]
  BY DEF CallTypeOK
<1>4. irq[c].from \in Sender
  BY <1>2, <1>3 DEF NoCall
<1> QED BY <1>1, <1>4

LEMMA TypeInterrupt ==
  ASSUME BaseInv, NEW c \in CallCpu, Interrupt(c)
  PROVE  CallTypeOK'
<1>1. CallTypeOK /\ QueueInv
  BY DEF BaseInv
<1>2. /\ irq \in [CallCpu -> IrqType] /\ csd \in [Sender -> SUBSET CallCpu]
      /\ ran \in [Sender -> Nat] /\ now \in [Sender -> Nat]
      /\ holder \in [Sender -> CallCpu \cup {NoCpuHolds}] /\ clock \in Nat
      /\ queue \in [CallCpu -> Seq(Sender)] /\ Sender \subseteq CallCpu
      /\ \A d \in CallCpu : \A i \in 1 .. Len(queue[d]) : queue[d][i] \in Sender \ {d}
  BY <1>1, MaxClockAssumption, CaseFacts DEF CallTypeOK, QueueInv, IrqType
<1>3. CASE Take(c)
  <2>1. PICK s \in Sender \ {c} :
           /\ irq' = [irq EXCEPT ![c] = [from |-> s, at |-> "enter"]]
           /\ queue' = [queue EXCEPT ![c] = Tail(queue[c])]
           /\ \A u : Has(Tail(queue[c]), u) <=> Has(queue[c], u) /\ u # s
           /\ csd' = IF Sync THEN csd ELSE [csd EXCEPT ![s] = @ \ {c}]
           /\ UNCHANGED <<caseVars, sendVars, clock, now, holder, ran>>
    BY <1>1, <1>3, TakeStep
  <2>2. irq' \in [CallCpu -> IrqType]
    <3>1. [from |-> s, at |-> "enter"] \in IrqType
      BY DEF IrqType
    <3> QED BY <1>2, <2>1, <3>1
  <2>3. csd' \in [Sender -> SUBSET CallCpu]
    BY <1>2, <2>1
  <2>4. ASSUME NEW d \in CallCpu, NEW i \in 1 .. Len(queue'[d])
        PROVE  queue'[d][i] \in Sender \ {d}
    <3>1. CASE d = c
      <4>1. Has(Tail(queue[c]), queue'[d][i])
        BY <1>2, <2>1, <2>4, <3>1 DEF Has
      <4>2. Has(queue[c], queue'[d][i])
        BY <2>1, <4>1
      <4> QED BY <1>2, <3>1, <4>2 DEF Has
    <3>2. CASE d # c
      BY <1>2, <2>1, <2>4, <3>2
    <3> QED BY <3>1, <3>2
  <2> QED BY <1>1, <2>1, <2>2, <2>3, <2>4, TypeKept DEF sendVars, CallTypeOK
<1>4. CASE ~Take(c)
  <2>1. /\ irq[c].from \in Sender /\ UNCHANGED <<caseVars, sendVars, clock, queue>>
        /\ Returns(c) \/ GoesOn(c)
    BY <1>1, <1>4, CallbackStep
  <2>2. irq' \in [CallCpu -> IrqType]
    <3>1. NoCall \in IrqType
      BY DEF IrqType
    <3>2. irq[c] \in [from : Sender, at : {"enter", "locked", "astray"}]
      BY <1>1, <2>1, CaseFacts DEF CallTypeOK, NoCall
    <3>3. /\ [irq[c] EXCEPT !.at = "locked"] \in IrqType
          /\ [irq[c] EXCEPT !.at = "astray"] \in IrqType
      BY <3>2 DEF IrqType
    <3>4. \/ irq' = [irq EXCEPT ![c] = NoCall]
          \/ irq' = [irq EXCEPT ![c] = [irq[c] EXCEPT !.at = "locked"]]
          \/ irq' = [irq EXCEPT ![c] = [irq[c] EXCEPT !.at = "astray"]]
      BY <2>1 DEF Returns, GoesOn, CallReturns
    <3> QED BY <1>2, <3>1, <3>3, <3>4
  <2>3. csd' \in [Sender -> SUBSET CallCpu] /\ ran' \in [Sender -> Nat]
    <3>1. /\ csd[irq[c].from] \ {c} \in SUBSET CallCpu
          /\ ran[irq[c].from] + 1 \in Nat
      BY <1>2, <2>1
    <3>2. \/ UNCHANGED <<csd, ran>>
          \/ /\ csd' = csd \/ csd' = [csd EXCEPT ![irq[c].from] = csd[irq[c].from] \ {c}]
             /\ ran' = [ran EXCEPT ![irq[c].from] = ran[irq[c].from] + 1]
      BY <2>1 DEF Returns, GoesOn, CallReturns
    <3>3. [csd EXCEPT ![irq[c].from] = csd[irq[c].from] \ {c}]
            \in [Sender -> SUBSET CallCpu]
      BY <1>2, <3>1, SetOne
    <3>4. [ran EXCEPT ![irq[c].from] = ran[irq[c].from] + 1] \in [Sender -> Nat]
      BY <1>2, <3>1, SetOne
    <3>5. csd \in [Sender -> SUBSET CallCpu] /\ ran \in [Sender -> Nat]
      BY <1>2
    <3> QED BY <3>2, <3>3, <3>4, <3>5
  <2>4. now' \in [Sender -> Nat]
    <3> DEFINE diff == IF clock > now[irq[c].from] THEN clock - now[irq[c].from]
                                                   ELSE 0
    <3>1. now' = now \/ now' = [now EXCEPT ![irq[c].from] = diff]
      BY <1>4 DEF Interrupt, Gettime, Empty, SpinLock, SpinUnlock, CallAstray
    <3>2. diff \in Nat
      BY <1>2, <2>1
    <3> HIDE DEF diff
    <3>3. [now EXCEPT ![irq[c].from] = diff] \in [Sender -> Nat]
      BY <1>2, <3>2, SetOne
    <3> QED BY <1>2, <3>1, <3>3
  <2>5. holder' \in [Sender -> CallCpu \cup {NoCpuHolds}]
    <3>1. \/ holder' = holder
          \/ holder' = [holder EXCEPT ![irq[c].from] = c]
          \/ holder' = [holder EXCEPT ![irq[c].from] = NoCpuHolds]
      BY <1>4 DEF Interrupt, Gettime, Empty, SpinLock, SpinUnlock, CallAstray
    <3>2. [holder EXCEPT ![irq[c].from] = c] \in [Sender -> CallCpu \cup {NoCpuHolds}]
      BY <1>2, SetOne
    <3>3. [holder EXCEPT ![irq[c].from] = NoCpuHolds]
            \in [Sender -> CallCpu \cup {NoCpuHolds}]
      BY <1>2, SetOne
    <3>4. holder \in [Sender -> CallCpu \cup {NoCpuHolds}]
      BY <1>2
    <3> QED BY <3>1, <3>2, <3>3, <3>4
  <2>6. clock' \in 0 .. MaxClock /\ UNCHANGED <<spc, loop, uncalled, ipitime, began>>
    BY <1>1, <2>1 DEF sendVars, CallTypeOK
  <2> QED BY <1>1, <1>2, <2>1, <2>2, <2>3, <2>4, <2>5, <2>6, TypeKept DEF CallTypeOK
<1> QED BY <1>3, <1>4


-----------------------------------------------------------------------------
(***************************************************************************)
(* How a step changes what is queued and what runs for a sender.           *)
(***************************************************************************)
LEMMA QueuedHas == \A s : QueuedOn(s) = {c \in CallCpu : Has(queue[c], s)}
  BY DEF QueuedOn, Has

LEMMA QueuedHasNext == \A s : QueuedOn(s)' = {c \in CallCpu : Has(queue'[c], s)}
  BY DEF QueuedOn, Has

SameSets(u) == UNCHANGED <<QueuedOn(u), RunningOn(u)>>

\* s has queued a call on d.
Queues(s, d) ==
  /\ d # s /\ d \notin QueuedOn(s) /\ QueuedOn(s)' = QueuedOn(s) \cup {d}
  /\ RunningOn(s)' = RunningOn(s) /\ csd' = [csd EXCEPT ![s] = @ \cup {d}]

\* s has called itself.
CallsSelf(s, d) ==
  /\ d = s /\ s \notin RunningOn(s) /\ RunningOn(s)' = RunningOn(s) \cup {s}
  /\ QueuedOn(s)' = QueuedOn(s) /\ csd' = csd

LEMMA SetsCall ==
  ASSUME BaseInv, NEW s \in Sender, Call(s)
  PROVE  /\ \E d \in uncalled[s] \ csd[s] :
              /\ uncalled'[s] = uncalled[s] \ {d} /\ d \in CallCpu
              /\ Queues(s, d) \/ CallsSelf(s, d)
         /\ \A u \in Sender \ {s} : SameSets(u)
         /\ queue' \in [CallCpu -> Seq(Sender)]
         /\ \A c \in CallCpu : OnlyOnce(queue'[c])
<1>1. /\ CallTypeOK /\ Sender \subseteq CallCpu
      /\ irq \in [CallCpu -> IrqType]
      /\ queue \in [CallCpu -> Seq(Sender)]
      /\ \A c \in CallCpu : OnlyOnce(queue[c])
      /\ QueuedOn(s) \subseteq csd[s] /\ uncalled[s] \subseteq CallCpu
      /\ uncalled \in [Sender -> SUBSET CallCpu]
      /\ irq[s] = NoCall /\ NoCall.from \notin Sender
  BY CaseFacts DEF BaseInv, QueueInv, CallTypeOK, IrqType, Call, Moves
<1>2. PICK d \in uncalled[s] \ csd[s] :
           /\ uncalled' = [uncalled EXCEPT ![s] = @ \ {d}] /\ d \in CallCpu
           /\ \/ /\ d = s /\ irq' = [irq EXCEPT ![s] = [from |-> s, at |-> "enter"]]
                 /\ UNCHANGED <<csd, queue>>
              \/ /\ d # s /\ queue' = [queue EXCEPT ![d] = Append(@, s)]
                 /\ csd' = [csd EXCEPT ![s] = @ \cup {d}]
                 /\ UNCHANGED irq
  BY <1>1, CallStep
<1>3. uncalled'[s] = uncalled[s] \ {d}
  BY <1>1, <1>2
<1>4. CASE d = s /\ irq' = [irq EXCEPT ![s] = [from |-> s, at |-> "enter"]]
           /\ UNCHANGED <<csd, queue>>
  <2>1. \A u : QueuedOn(u)' = QueuedOn(u)
    BY <1>4 DEF QueuedOn
  <2>2. /\ irq'[s].from = s /\ irq[s].from \notin Sender
        /\ \A c \in CallCpu \ {s} : irq'[c] = irq[c]
    BY <1>1, <1>4
  <2>3. s \notin RunningOn(s) /\ RunningOn(s)' = RunningOn(s) \cup {s}
    BY <1>1, <2>2 DEF RunningOn
  <2>4. \A u \in Sender \ {s} : RunningOn(u)' = RunningOn(u)
    BY <1>1, <2>2 DEF RunningOn
  <2> QED BY <1>1, <1>2, <1>3, <1>4, <2>1, <2>3, <2>4 DEF CallsSelf, SameSets
<1>5. CASE /\ d # s /\ queue' = [queue EXCEPT ![d] = Append(@, s)]
           /\ csd' = [csd EXCEPT ![s] = @ \cup {d}]
           /\ UNCHANGED irq
  <2>1. d \notin QueuedOn(s) /\ ~Has(queue[d], s)
    BY <1>1, <1>2, QueuedHas
  <2>2. /\ Append(queue[d], s) \in Seq(Sender) /\ OnlyOnce(Append(queue[d], s))
        /\ \A y : Has(Append(queue[d], s), y) <=> Has(queue[d], y) \/ y = s
    <3>1. queue[d] \in Seq(Sender) /\ OnlyOnce(queue[d])
      BY <1>1, <1>2
    <3> QED BY <2>1, <3>1, AppendHas
  <2>3. \A c \in CallCpu :
          queue'[c] = IF c = d THEN Append(queue[d], s) ELSE queue[c]
    BY <1>1, <1>5
  <2>4. /\ queue' \in [CallCpu -> Seq(Sender)]
        /\ \A c \in CallCpu : OnlyOnce(queue'[c])
    <3>1. queue' \in [CallCpu -> Seq(Sender)]
      BY <1>1, <1>5, <2>2
    <3>2. \A c \in CallCpu : OnlyOnce(queue'[c])
      BY <1>1, <2>2, <2>3
    <3> QED BY <3>1, <3>2
  <2>5. \A c \in CallCpu : \A u : Has(queue'[c], u) <=> Has(queue[c], u) \/ (c = d /\ u = s)
    BY <2>2, <2>3
  <2>6. \A u \in Sender \ {s} : QueuedOn(u)' = QueuedOn(u)
    BY <2>5, QueuedHas, QueuedHasNext
  <2>7. QueuedOn(s)' = QueuedOn(s) \cup {d}
    BY <1>2, <2>5, QueuedHas, QueuedHasNext
  <2>8. \A u : RunningOn(u)' = RunningOn(u)
    BY <1>5 DEF RunningOn
  <2> QED BY <1>2, <1>3, <1>5, <2>1, <2>4, <2>6, <2>7, <2>8 DEF Queues, SameSets
<1> QED BY <1>2, <1>4, <1>5

LEMMA SetsTake ==
  ASSUME BaseInv, NEW c \in CallCpu, Take(c)
  PROVE  /\ \E s \in Sender \ {c} :
              /\ c \in QueuedOn(s) /\ QueuedOn(s)' = QueuedOn(s) \ {c}
              /\ c \notin RunningOn(s) /\ RunningOn(s)' = RunningOn(s) \cup {c}
              /\ csd' = IF Sync THEN csd ELSE [csd EXCEPT ![s] = @ \ {c}]
              /\ \A u \in Sender \ {s} : SameSets(u)
         /\ queue' \in [CallCpu -> Seq(Sender)]
         /\ \A d \in CallCpu : OnlyOnce(queue'[d])
<1>1. /\ CallTypeOK /\ QueueInv /\ irq \in [CallCpu -> IrqType]
      /\ queue \in [CallCpu -> Seq(Sender)]
      /\ \A d \in CallCpu : OnlyOnce(queue[d])
      /\ NoCall.from \notin Sender
  BY CaseFacts DEF BaseInv, QueueInv, CallTypeOK, IrqType
<1>2. PICK s \in Sender \ {c} :
           /\ irq[c] = NoCall /\ irq' = [irq EXCEPT ![c] = [from |-> s, at |-> "enter"]]
           /\ c \in QueuedOn(s)
           /\ queue' = [queue EXCEPT ![c] = Tail(queue[c])]
           /\ Tail(queue[c]) \in Seq(Sender) /\ OnlyOnce(Tail(queue[c]))
           /\ \A u : Has(Tail(queue[c]), u) <=> Has(queue[c], u) /\ u # s
           /\ csd' = IF Sync THEN csd ELSE [csd EXCEPT ![s] = @ \ {c}]
  BY <1>1, TakeStep
<1>3. \A d \in CallCpu : queue'[d] = IF d = c THEN Tail(queue[c]) ELSE queue[d]
  BY <1>1, <1>2
<1>4. \A d \in CallCpu : \A u : Has(queue'[d], u) <=> Has(queue[d], u) /\ ~(d = c /\ u = s)
  BY <1>2, <1>3
<1>5. /\ queue' \in [CallCpu -> Seq(Sender)]
      /\ \A d \in CallCpu : OnlyOnce(queue'[d])
  <2>1. queue' \in [CallCpu -> Seq(Sender)]
    BY <1>1, <1>2
  <2>2. \A d \in CallCpu : OnlyOnce(queue'[d])
    BY <1>1, <1>2, <1>3
  <2> QED BY <2>1, <2>2
<1>6. \A u \in Sender \ {s} : QueuedOn(u)' = QueuedOn(u)
  BY <1>4, QueuedHas, QueuedHasNext
<1>7. QueuedOn(s)' = QueuedOn(s) \ {c}
  BY <1>4, QueuedHas, QueuedHasNext
<1>8. /\ irq'[c].from = s /\ irq[c].from \notin Sender
      /\ \A d \in CallCpu \ {c} : irq'[d] = irq[d]
  BY <1>1, <1>2
<1>9. /\ c \notin RunningOn(s) /\ RunningOn(s)' = RunningOn(s) \cup {c}
      /\ \A u \in Sender \ {s} : RunningOn(u)' = RunningOn(u)
  BY <1>8 DEF RunningOn
<1> QED BY <1>2, <1>5, <1>6, <1>7, <1>9 DEF SameSets

\* A callback of s returns on c, or goes on.
LEMMA SetsCallback ==
  ASSUME BaseInv, NEW c \in CallCpu, Interrupt(c), ~Take(c)
  PROVE  \E s \in Sender :
           /\ s = irq[c].from /\ c \in RunningOn(s) /\ queue' = queue
           /\ \A u : QueuedOn(u)' = QueuedOn(u)
           /\ \A u \in Sender \ {s} : RunningOn(u)' = RunningOn(u)
           /\ \/ /\ Returns(c) /\ RunningOn(s)' = RunningOn(s) \ {c}
                 /\ csd' = IF Sync THEN [csd EXCEPT ![s] = @ \ {c}] ELSE csd
                 /\ ran' = [ran EXCEPT ![s] = @ + 1]
              \/ GoesOn(c) /\ RunningOn(s)' = RunningOn(s)
<1>1. CallTypeOK /\ irq \in [CallCpu -> IrqType] /\ NoCall.from \notin Sender
  BY CaseFacts DEF BaseInv, CallTypeOK, IrqType
<1>2. /\ irq[c].from \in Sender /\ queue' = queue
      /\ Returns(c) \/ GoesOn(c)
  BY <1>1, CallbackStep
<1>3. PICK s \in Sender : s = irq[c].from
  BY <1>2
<1>4. c \in RunningOn(s) /\ \A u : QueuedOn(u)' = QueuedOn(u)
  BY <1>2, <1>3 DEF RunningOn, QueuedOn
<1>5. CASE Returns(c)
  <2>1. /\ irq' = [irq EXCEPT ![c] = NoCall]
        /\ csd' = IF Sync THEN [csd EXCEPT ![s] = @ \ {c}] ELSE csd
        /\ ran' = [ran EXCEPT ![s] = @ + 1]
    BY <1>3, <1>5 DEF Returns, CallReturns
  <2>2. irq'[c].from \notin Sender /\ \A d \in CallCpu \ {c} : irq'[d] = irq[d]
    BY <1>1, <2>1
  <2>3. RunningOn(s)' = RunningOn(s) \ {c}
    BY <2>2 DEF RunningOn
  <2>4. \A u \in Sender \ {s} : RunningOn(u)' = RunningOn(u)
    BY <1>3, <2>2 DEF RunningOn
  <2> QED BY <1>2, <1>3, <1>4, <1>5, <2>1, <2>3, <2>4
<1>6. CASE GoesOn(c)
  <2>1. irq[c] \in [from : Sender, at : {"enter", "locked", "astray"}]
    BY <1>1, <1>2 DEF IrqType, NoCall
  <2>2. \/ irq' = [irq EXCEPT ![c] = [irq[c] EXCEPT !.at = "locked"]]
        \/ irq' = [irq EXCEPT ![c] = [irq[c] EXCEPT !.at = "astray"]]
    BY <1>6 DEF GoesOn
  <2>3. \A d \in CallCpu : irq'[d].from = irq[d].from
    <3>1. /\ [irq[c] EXCEPT !.at = "locked"].from = irq[c].from
          /\ [irq[c] EXCEPT !.at = "astray"].from = irq[c].from
      BY <2>1
    <3> QED BY <1>1, <2>2, <3>1
  <2>4. \A u : RunningOn(u)' = RunningOn(u)
    BY <2>3 DEF RunningOn
  <2> QED BY <1>2, <1>3, <1>4, <1>6, <2>4
<1> QED BY <1>2, <1>5, <1>6


-----------------------------------------------------------------------------
\* What the senders have to do with each other's steps.
LEMMA WaitOther ==
  ASSUME NEW u, WaitOk(u), SameSets(u),
         UNCHANGED <<spc[u], target, uncalled[u], csd[u]>>
  PROVE  WaitOk(u)'
  BY DEF WaitOk, SameSets, Busy

\* When a sender is let out of its call, no callback is left.
LEMMA NoneLeft ==
  ASSUME BaseInv, NEW s \in Sender, WaitOk(s), csd[s] = {}, irq[s] = NoCall
  PROVE  Busy(s) = {}
<1>1. s \notin RunningOn(s)
  BY CaseFacts DEF BaseInv, RunningOn
<1>2. s \notin QueuedOn(s)
  BY DEF BaseInv, CallTypeOK, QueuedOn
<1> QED BY <1>1, <1>2 DEF WaitOk, Busy

LEMMA WaitSend ==
  ASSUME BaseInv, WaitInv, NEW s \in Sender, Send(s)
  PROVE  WaitInv'
<1>1. /\ UNCHANGED <<wait, func, loops, target>> /\ Sender' = Sender
      /\ irq[s] = NoCall /\ CallTypeOK
      /\ \A u \in Sender \ {s} : UNCHANGED <<spc[u], uncalled[u], csd[u]>>
  BY SendFrame DEF BaseInv, caseVars, Sender
<1>2. SUFFICES ASSUME wait PROVE \A u \in Sender : WaitOk(u)'
  BY <1>1 DEF WaitInv
<1>3. \A u \in Sender : WaitOk(u)
  BY <1>2 DEF WaitInv
<1>4. ASSUME ~Call(s) PROVE \A u : SameSets(u)
  BY <1>1, <1>4, SendFrame DEF SameSets, QueuedOn, RunningOn
<1>5. \A u \in Sender \ {s} : SameSets(u)
  BY <1>4, SetsCall
<1>6. \A u \in Sender \ {s} : WaitOk(u)'
  BY <1>1, <1>3, <1>5, WaitOther
<1>7. WaitOk(s) /\ uncalled[s] \subseteq target[s]
  BY <1>3 DEF BaseInv, PlaceInv
<1>8. CASE Call(s)
  <2>1. PICK d \in uncalled[s] \ csd[s] :
              /\ uncalled'[s] = uncalled[s] \ {d}
              /\ Queues(s, d) \/ CallsSelf(s, d)
    BY <1>8, SetsCall
  <2>2. spc[s] = "call" /\ spc'[s] = "call" /\ csd \in [Sender -> SUBSET CallCpu]
    BY <1>1, <1>8 DEF Call, Moves, CallTypeOK
  <2>3. d \notin Busy(s) /\ d \in target[s]
    BY <1>7, <2>1, <2>2 DEF WaitOk
  <2>4. Busy(s)' = Busy(s) \cup {d}
    BY <2>1 DEF Queues, CallsSelf, Busy
  <2>5. QueuedOn(s)' \cap RunningOn(s)' = {}
    BY <1>7, <2>1, <2>3 DEF Queues, CallsSelf, Busy, WaitOk
  <2>6. Busy(s)' \ {s} \subseteq csd'[s]
    BY <1>7, <2>1, <2>2, <2>4 DEF Queues, CallsSelf, WaitOk
  <2>7. Busy(s)' \subseteq target'[s] \ uncalled'[s]
    BY <1>1, <1>7, <2>1, <2>2, <2>3, <2>4 DEF WaitOk
  <2>8. WaitOk(s)'
    BY <2>2, <2>5, <2>6, <2>7 DEF WaitOk
  <2> QED BY <1>6, <2>8
<1>9. CASE ~Call(s)
  <2>1. SameSets(s) /\ csd' = csd
    BY <1>1, <1>4, <1>9, SendFrame
  <2>2. Busy(s) = {}
    <3>1. CASE StartLoops(s) \/ NextLoop(s) \/ ReturnDone(s)
      <4>1. spc[s] # "call"
        BY <3>1 DEF StartLoops, NextLoop, ReturnDone, Moves
      <4> QED BY <1>7, <4>1 DEF WaitOk
    <3>2. CASE Called(s)
      <4>1. csd[s] = {}
        BY <1>2, <3>2 DEF Called, Sync
      <4> QED BY <1>1, <1>7, <4>1, NoneLeft
    <3>3. CASE CallFails(s)
      <4>1. func = "gettime" /\ uncalled[s] # {} /\ spc[s] = "call"
        BY <3>3 DEF CallFails, Moves
      <4>2. PICK e : target[s] = {e}
        BY <1>1, <4>1, CaseFacts
      <4>3. uncalled[s] = target[s]
        BY <1>7, <4>1, <4>2
      <4> QED BY <1>7, <4>1, <4>3 DEF WaitOk
    <3> QED BY <1>9, <3>1, <3>2, <3>3 DEF Send
  <2>3. WaitOk(s)'
    BY <2>1, <2>2 DEF WaitOk, SameSets, Busy
  <2> QED BY <1>6, <2>3
<1> QED BY <1>8, <1>9

LEMMA WaitInterrupt ==
  ASSUME BaseInv, WaitInv, NEW c \in CallCpu, Interrupt(c)
  PROVE  WaitInv'
<1>1. CallTypeOK /\ csd \in [Sender -> SUBSET CallCpu]
  BY DEF BaseInv, CallTypeOK
<1>2. UNCHANGED <<wait, target, spc, uncalled>> /\ Sender' = Sender
  <2>1. UNCHANGED <<caseVars, sendVars>>
    BY <1>1, CallbackStep DEF Take
  <2> QED BY <2>1 DEF caseVars, sendVars, Sender
<1>3. SUFFICES ASSUME wait PROVE \A u \in Sender : WaitOk(u)'
  BY <1>2 DEF WaitInv
<1>4. \A u \in Sender : WaitOk(u)
  BY <1>3 DEF WaitInv
<1>5. CASE Take(c)
  <2>1. PICK s \in Sender \ {c} :
              /\ c \in QueuedOn(s) /\ QueuedOn(s)' = QueuedOn(s) \ {c}
              /\ c \notin RunningOn(s) /\ RunningOn(s)' = RunningOn(s) \cup {c}
              /\ csd' = csd
              /\ \A u \in Sender \ {s} : SameSets(u)
    BY <1>3, <1>5, SetsTake DEF Sync
  <2>2. \A u \in Sender \ {s} : WaitOk(u)'
    BY <1>2, <1>4, <2>1, WaitOther
  <2>3. Busy(s)' = Busy(s) /\ QueuedOn(s)' \cap RunningOn(s)' = {}
    BY <1>4, <2>1 DEF Busy, WaitOk
  <2>4. WaitOk(s)'
    BY <1>2, <1>4, <2>1, <2>3 DEF WaitOk
  <2> QED BY <2>2, <2>4
<1>6. CASE ~Take(c)
  <2>1. PICK s \in Sender :
           /\ c \in RunningOn(s) /\ \A u : QueuedOn(u)' = QueuedOn(u)
           /\ \A u \in Sender \ {s} : RunningOn(u)' = RunningOn(u)
           /\ \/ /\ RunningOn(s)' = RunningOn(s) \ {c}
                 /\ csd' = [csd EXCEPT ![s] = @ \ {c}]
              \/ RunningOn(s)' = RunningOn(s) /\ csd' = csd
    BY <1>3, <1>6, SetsCallback DEF Sync, GoesOn
  <2>2. \A u \in Sender \ {s} : csd'[u] = csd[u]
    BY <1>1, <2>1
  <2>3. \A u \in Sender \ {s} : WaitOk(u)'
    BY <1>2, <1>4, <2>1, <2>2, WaitOther DEF SameSets
  <2>4. CASE RunningOn(s)' = RunningOn(s) \ {c} /\ csd' = [csd EXCEPT ![s] = @ \ {c}]
    <3>1. csd'[s] = csd[s] \ {c} /\ c \notin QueuedOn(s)
      BY <1>1, <1>4, <2>1, <2>4 DEF WaitOk
    <3>2. Busy(s)' = Busy(s) \ {c}
      BY <2>1, <2>4, <3>1 DEF Busy
    <3>3. QueuedOn(s)' \cap RunningOn(s)' = {}
      BY <1>4, <2>1, <2>4 DEF WaitOk
    <3>4. Busy(s)' \subseteq IF spc'[s] = "call" THEN target'[s] \ uncalled'[s] ELSE {}
      BY <1>2, <1>4, <3>2 DEF WaitOk
    <3>5. Busy(s)' \ {s} \subseteq csd'[s]
      BY <1>4, <3>1, <3>2 DEF WaitOk
    <3> QED BY <2>3, <3>3, <3>4, <3>5 DEF WaitOk
  <2>5. CASE RunningOn(s)' = RunningOn(s) /\ csd' = csd
    BY <1>2, <1>4, <2>1, <2>5, WaitOther DEF SameSets
  <2> QED BY <2>1, <2>3, <2>4, <2>5
<1> QED BY <1>5, <1>6

LEMMA QueueStep ==
  ASSUME BaseInv, WaitInv,
         \/ \E s \in Sender : Send(s)
         \/ \E c \in CallCpu : Interrupt(c)
  PROVE  QueueInv'
<1>1. /\ CallTypeOK /\ csd \in [Sender -> SUBSET CallCpu]
      /\ queue \in [CallCpu -> Seq(Sender)]
      /\ \A c \in CallCpu : OnlyOnce(queue[c])
      /\ \A s \in Sender : QueuedOn(s) \subseteq csd[s]
  BY DEF BaseInv, CallTypeOK, QueueInv
<1>2. ASSUME NEW s \in Sender, Send(s) PROVE QueueInv'
  <2>1. Sender' = Sender /\ \A u \in Sender \ {s} : csd'[u] = csd[u]
    BY <1>1, <1>2, SendFrame DEF caseVars, Sender
  <2>2. CASE Call(s)
    <3>1. /\ queue' \in [CallCpu -> Seq(Sender)]
          /\ \A c \in CallCpu : OnlyOnce(queue'[c])
          /\ \A u \in Sender \ {s} : QueuedOn(u)' = QueuedOn(u)
          /\ \E d : Queues(s, d) \/ CallsSelf(s, d)
      BY <2>2, SetsCall DEF SameSets
    <3>2. QueuedOn(s)' \subseteq csd'[s]
      BY <1>1, <3>1 DEF Queues, CallsSelf
    <3> QED BY <1>1, <2>1, <3>1, <3>2 DEF QueueInv
  <2>3. CASE ~Call(s)
    <3>1. UNCHANGED <<queue, csd>>
      BY <1>1, <1>2, <2>3, SendFrame
    <3> QED BY <1>1, <2>1, <3>1 DEF QueueInv, QueuedOn
  <2> QED BY <2>2, <2>3
<1>3. ASSUME NEW c \in CallCpu, Interrupt(c) PROVE QueueInv'
  <2>1. Sender' = Sender
    <3>1. UNCHANGED caseVars
      BY <1>1, <1>3, CallbackStep DEF Take
    <3> QED BY <3>1 DEF caseVars, Sender
  <2>2. CASE Take(c)
    <3>1. /\ queue' \in [CallCpu -> Seq(Sender)]
          /\ \A d \in CallCpu : OnlyOnce(queue'[d])
      BY <2>2, SetsTake
    <3>2. PICK s \in Sender : 
              /\ QueuedOn(s)' = QueuedOn(s) \ {c}
              /\ csd' = csd \/ csd' = [csd EXCEPT ![s] = @ \ {c}]
              /\ \A u \in Sender \ {s} : QueuedOn(u)' = QueuedOn(u)
      BY <2>2, SetsTake DEF SameSets
    <3>3. QueuedOn(s)' \subseteq csd'[s]
      BY <1>1, <3>2
    <3>4. \A u \in Sender \ {s} : QueuedOn(u)' \subseteq csd'[u]
      BY <1>1, <3>2
    <3> QED BY <2>1, <3>1, <3>3, <3>4 DEF QueueInv
  <2>3. CASE ~Take(c)
    <3>1. PICK s \in Sender :
           /\ c \in RunningOn(s) /\ queue' = queue
           /\ \A u : QueuedOn(u)' = QueuedOn(u)
           /\ \/ wait /\ csd' = [csd EXCEPT ![s] = @ \ {c}]
              \/ csd' = csd
      BY <1>3, <2>3, SetsCallback DEF Sync, GoesOn
    <3>2. wait => c \notin QueuedOn(s)
      BY <3>1 DEF WaitInv, WaitOk
    <3>3. QueuedOn(s)' \subseteq csd'[s]
      BY <1>1, <3>1, <3>2
    <3>4. \A u \in Sender \ {s} : QueuedOn(u)' \subseteq csd'[u]
      BY <1>1, <3>1
    <3> QED BY <1>1, <2>1, <3>1, <3>3, <3>4 DEF QueueInv
  <2> QED BY <2>2, <2>3
<1> QED BY <1>2, <1>3


LEMMA PlaceSend ==
  ASSUME BaseInv, NEW s \in Sender, Send(s)
  PROVE  PlaceInv'
<1>1. /\ UNCHANGED <<func, loops, target>> /\ Sender' = Sender
      /\ irq[s] = NoCall /\ CallTypeOK /\ spc[s] \notin Over
      /\ \A u \in Sender \ {s} : UNCHANGED <<spc[u], uncalled[u], loop[u]>>
  BY SendFrame DEF BaseInv, caseVars, Sender
<1>2. /\ loops \in Nat /\ loop \in [Sender -> 0 .. loops]
      /\ spc \in [Sender -> {"start", "loop", "call"} \cup Over]
      /\ uncalled \in [Sender -> SUBSET CallCpu]
      /\ irq \in [CallCpu -> IrqType] /\ Sender \subseteq CallCpu
  BY <1>1, CaseFacts DEF CallTypeOK, IrqType
<1>3. \A u \in Sender : /\ uncalled[u] \subseteq target[u]
                        /\ spc[u] = "start" => loop[u] = 0
                        /\ spc[u] = "call" => loop[u] > 0
                        /\ spc[u] = "done" => loop[u] = 0
  BY DEF BaseInv, PlaceInv
<1>4. uncalled'[s] \subseteq target[s]
  <2>1. \/ uncalled' = uncalled \/ uncalled' = [uncalled EXCEPT ![s] = target[s]]
        \/ \E d : uncalled' = [uncalled EXCEPT ![s] = @ \ {d}]
    BY DEF Send, StartLoops, NextLoop, Call, CallFails, Called, ReturnDone
  <2> QED BY <1>2, <1>3, <2>1
<1>5. /\ spc'[s] # "start"
      /\ spc'[s] = "call" => loop'[s] > 0
      /\ spc'[s] = "done" => loop'[s] = 0
  <2>1. loop[s] \in Nat
    BY <1>2
  <2>2. CASE StartLoops(s) \/ Called(s) \/ CallFails(s)
    BY <1>2, <2>2 DEF StartLoops, Called, CallFails, Moves
  <2>3. CASE NextLoop(s) \/ ReturnDone(s)
    BY <1>2, <2>1, <2>3 DEF NextLoop, ReturnDone, Moves, MoreLoops
  <2>4. CASE Call(s)
    BY <1>2, <1>3, <2>4 DEF Call, Moves
  <2> QED BY <2>2, <2>3, <2>4 DEF Send
<1>6. \A c \in CallCpu : /\ irq'[c].at = "locked" => func = "spinlock"
                         /\ irq'[c].at = "astray" => spc'[irq'[c].from] \in Over
  <2>1. irq' = irq \/ irq' = [irq EXCEPT ![s] = [from |-> s, at |-> "enter"]]
    BY DEF Send, StartLoops, NextLoop, Call, CallFails, Called, ReturnDone
  <2>2. ASSUME NEW c \in CallCpu, irq'[c] = irq[c]
        PROVE  /\ irq'[c].at = "locked" => func = "spinlock"
               /\ irq'[c].at = "astray" => spc'[irq'[c].from] \in Over
    <3>1. irq[c].at = "astray" => spc[irq[c].from] \in Over /\ irq[c].from \in Sender
      BY <1>2 DEF BaseInv, PlaceInv, IrqType, NoCall
    <3> QED BY <1>1, <2>2, <3>1 DEF BaseInv, PlaceInv
  <2>3. \A c \in CallCpu : irq'[c] = irq[c] \/ irq'[c].at = "enter"
    BY <1>2, <2>1
  <2> QED BY <2>2, <2>3
<1>7. \A u \in Sender : /\ uncalled'[u] \subseteq target[u]
                        /\ spc'[u] = "start" => loop'[u] = 0
                        /\ spc'[u] = "call" => loop'[u] > 0
                        /\ spc'[u] = "done" => loop'[u] = 0
  BY <1>1, <1>3, <1>4, <1>5
<1> QED BY <1>1, <1>6, <1>7 DEF PlaceInv

LEMMA PlaceInterrupt ==
  ASSUME BaseInv, NEW c \in CallCpu, Interrupt(c)
  PROVE  PlaceInv'
<1>1. /\ CallTypeOK /\ QueueInv /\ irq \in [CallCpu -> IrqType]
  BY DEF BaseInv, CallTypeOK, IrqType
<1>2. UNCHANGED <<func, target, spc, uncalled, loop>> /\ Sender' = Sender
  <2>1. UNCHANGED <<caseVars, sendVars>>
    BY <1>1, CallbackStep DEF Take
  <2> QED BY <2>1 DEF caseVars, sendVars, Sender
<1>3. /\ \A d \in CallCpu \ {c} : irq'[d] = irq[d]
      /\ irq'[c].at = "locked" => func = "spinlock"
      /\ irq'[c].at = "astray" => spc[irq'[c].from] \in Over
  <2>1. CASE Take(c)
    <3>1. PICK s : irq' = [irq EXCEPT ![c] = [from |-> s, at |-> "enter"]]
      BY <1>1, <2>1, TakeStep
    <3> QED BY <1>1, <3>1
  <2>2. CASE Returns(c)
    <3>1. irq' = [irq EXCEPT ![c] = NoCall]
      BY <2>2 DEF Returns, CallReturns
    <3> QED BY <1>1, <3>1 DEF NoCall
  <2>3. CASE GoesOn(c)
    <3>1. irq[c] \in [from : Sender, at : {"enter", "locked", "astray"}]
      BY <1>1, <2>3 DEF GoesOn, IrqType, NoCall
    <3>2. \/ irq' = [irq EXCEPT ![c] = [irq[c] EXCEPT !.at = "locked"]]
             /\ func = "spinlock"
          \/ irq' = [irq EXCEPT ![c] = [irq[c] EXCEPT !.at = "astray"]]
             /\ spc[irq[c].from] \in Over
      BY <2>3 DEF GoesOn
    <3>3. /\ [irq[c] EXCEPT !.at = "locked"].at = "locked"
          /\ [irq[c] EXCEPT !.at = "astray"].at = "astray"
          /\ [irq[c] EXCEPT !.at = "astray"].from = irq[c].from
      BY <3>1
    <3> QED BY <1>1, <3>2, <3>3
  <2> QED BY <1>1, <2>1, <2>2, <2>3, CallbackStep
<1> QED BY <1>2, <1>3 DEF BaseInv, PlaceInv

LEMMA CallBegins == CallInit => BaseInv /\ WaitInv
<1> SUFFICES ASSUME CallInit PROVE BaseInv /\ WaitInv
  OBVIOUS
<1>1. [func |-> func, loops |-> loops, target |-> target] \in CallCases
  <2>1. PICK case \in CallCases :
          func = case.func /\ loops = case.loops /\ target = case.target
    BY DEF CallInit
  <2>2. case = [func |-> case.func, loops |-> case.loops, target |-> case.target]
    <3>1. case \in CallCaseType
      BY CallCasesAssumption
    <3> QED BY <3>1 DEF CallCaseType
  <2> QED BY <2>1, <2>2
<1>2. loops \in Nat
  <2>1. [func |-> func, loops |-> loops, target |-> target] \in CallCaseType
    BY <1>1, CallCasesAssumption
  <2> QED BY <2>1 DEF CallCaseType
<1>3. CallTypeOK
  BY <1>1, <1>2, MaxClockAssumption DEF CallInit, CallTypeOK
<1>4. \A s \in Sender : QueuedOn(s) = {} /\ RunningOn(s) = {}
  <2>1. NoCall.from \notin Sender
    BY <1>3, CaseFacts
  <2> QED BY <2>1 DEF CallInit, QueuedOn, RunningOn
<1>5. QueueInv
  <2>1. queue \in [CallCpu -> Seq(Sender)] /\ \A c \in CallCpu : OnlyOnce(queue[c])
    BY DEF CallInit, OnlyOnce
  <2> QED BY <1>4, <2>1 DEF QueueInv
<1>6. PlaceInv
  BY DEF CallInit, PlaceInv, NoCall
<1>7. WaitInv
  BY <1>4 DEF WaitInv, WaitOk, Busy, CallInit
<1> QED BY <1>3, <1>5, <1>6, <1>7 DEF BaseInv

\* The clock, and a system that is over, leave all of it alone.
LEMMA IdleStep ==
  ASSUME CallTypeOK, Tick \/ CallsOver \/ UNCHANGED callVars
  PROVE  /\ UNCHANGED <<caseVars, sendVars, csd, now, holder, queue, irq, ran>>
         /\ clock' \in 0 .. MaxClock /\ clock' >= clock
         /\ Sender' = Sender /\ \A u : SameSets(u)
<1>1. UNCHANGED <<caseVars, sendVars, csd, now, holder, queue, irq, ran>>
  BY DEF Tick, CallsOver, callVars
<1>2. clock' = clock \/ (clock' = clock + 1 /\ clock < MaxClock)
  BY DEF Tick, CallsOver, callVars
<1>3. clock \in Nat /\ clock <= MaxClock
  BY MaxClockAssumption DEF CallTypeOK
<1>4. clock' \in 0 .. MaxClock /\ clock' >= clock
  BY <1>2, <1>3, MaxClockAssumption
<1> QED BY <1>1, <1>4 DEF caseVars, Sender, SameSets, QueuedOn, RunningOn

LEMMA CallStays ==
  ASSUME BaseInv, WaitInv, [CallNext]_callVars
  PROVE  (BaseInv /\ WaitInv)'
<1>1. CASE \E s \in Sender : Send(s)
  BY <1>1, TypeSend, QueueStep, PlaceSend, WaitSend DEF BaseInv
<1>2. CASE \E c \in CallCpu : Interrupt(c)
  BY <1>2, TypeInterrupt, QueueStep, PlaceInterrupt, WaitInterrupt DEF BaseInv
<1>3. CASE Tick \/ CallsOver \/ UNCHANGED callVars
  <2>1. /\ UNCHANGED <<caseVars, sendVars, csd, now, holder, queue, irq, ran>>
        /\ clock' \in 0 .. MaxClock /\ Sender' = Sender /\ \A u : SameSets(u)
        /\ CallTypeOK
    BY <1>3, IdleStep DEF BaseInv
  <2>2. CallTypeOK'
    BY <2>1, TypeKept DEF sendVars, CallTypeOK, IrqType
  <2>3. QueueInv' /\ PlaceInv'
    BY <2>1 DEF BaseInv, QueueInv, PlaceInv, caseVars, sendVars, SameSets
  <2>4. WaitInv'
    BY <2>1, WaitOther DEF WaitInv, caseVars, sendVars
  <2> QED BY <2>2, <2>3, <2>4 DEF BaseInv
<1> QED BY <1>1, <1>2, <1>3 DEF CallNext

LEMMA CallInductive == CallSpec => [](BaseInv /\ WaitInv)
<1>1. BaseInv /\ WaitInv /\ [CallNext]_callVars => (BaseInv /\ WaitInv)'
  BY CallStays
<1> QED BY <1>1, CallBegins, PTL DEF CallSpec

\* The loops, their calls and their callbacks keep their types, and no loop
\* variable falls below zero (ipi_bench.c:100, 185).
THEOREM CallTypeCorrect == CallSpec => []CallTypeOK
<1>1. BaseInv => CallTypeOK
  BY DEF BaseInv
<1> QED BY <1>1, CallInductive, PTL

\* With wait=1 no callback works on now or on the spinlock once the function
\* with this stack frame has returned, even if it returned with an error
\* (ipi_bench.c:90, 171).
THEOREM FramesOutlive == CallSpec => []FrameOutlivesCalls
<1>1. BaseInv /\ WaitInv => FrameOutlivesCalls
  <2> SUFFICES ASSUME WaitInv, wait, NEW s \in Sender, spc[s] \in Over
               PROVE  QueuedOn(s) \cup RunningOn(s) = {}
    BY DEF FrameOutlivesCalls
  <2>1. WaitOk(s) /\ spc[s] # "call"
    BY DEF WaitInv, Over
  <2> QED BY <2>1 DEF WaitOk, Busy
<1> QED BY <1>1, CallInductive, PTL


-----------------------------------------------------------------------------
\* The numbers that the times are compared with.
LEMMA TimeTypes ==
  ASSUME CallTypeOK
  PROVE  clock \in Nat /\ \A s \in Sender : /\ began[s] \in Nat /\ now[s] \in Nat
                                            /\ ipitime[s] \in Nat
  BY MaxClockAssumption DEF CallTypeOK

\* Time passes, or another sender or a callback of another sender moves.
LEMMA TimeOther ==
  ASSUME CallTypeOK, NEW u \in Sender, TimeOk(u), SameSets(u),
         UNCHANGED <<wait, func, spc[u], uncalled[u], now[u], ipitime[u], began[u]>>,
         clock' \in Nat, clock' >= clock
  PROVE  TimeOk(u)'
<1>1. /\ clock \in Nat /\ clock' \in Nat /\ clock' >= clock
      /\ began[u] \in Nat /\ now[u] \in Nat /\ ipitime[u] \in Nat
  BY TimeTypes
<1>2. Busy(u)' = Busy(u)
  BY DEF Busy, SameSets
<1>3. /\ began'[u] <= clock'
      /\ spc'[u] = "failed" \/ func' # "gettime" \/ ~wait' => ipitime'[u] = 0
      /\ spc'[u] \in {"loop", "done"} => ipitime'[u] <= clock' - began'[u]
  BY <1>1 DEF TimeOk
<1>4. ASSUME spc[u] = "call" /\ func = "gettime" /\ wait
      PROVE IF uncalled'[u] = {} /\ Busy(u)' = {}
              THEN ipitime'[u] + now'[u] <= clock' - began'[u]
              ELSE ipitime'[u] + began'[u] <= now'[u] /\ now'[u] <= clock'
  <2>1. CASE uncalled[u] = {} /\ Busy(u) = {}
    BY <1>1, <1>2, <1>4, <2>1 DEF TimeOk
  <2>2. CASE ~(uncalled[u] = {} /\ Busy(u) = {})
    BY <1>1, <1>2, <1>4, <2>2 DEF TimeOk
  <2> QED BY <2>1, <2>2
<1> QED BY <1>3, <1>4 DEF TimeOk

LEMMA TimeSend ==
  ASSUME BaseInv, WaitInv, TimeInv, NEW s \in Sender, Send(s)
  PROVE  TimeInv'
<1>1. /\ UNCHANGED <<wait, func, loops, target, clock>> /\ Sender' = Sender
      /\ irq[s] = NoCall /\ CallTypeOK
      /\ \A u \in Sender \ {s} :
           UNCHANGED <<spc[u], uncalled[u], now[u], ipitime[u], began[u]>>
  BY SendFrame DEF BaseInv, caseVars, Sender
<1>2. /\ clock \in Nat /\ began[s] \in Nat /\ now[s] \in Nat /\ ipitime[s] \in Nat
      /\ spc \in [Sender -> {"start", "loop", "call"} \cup Over]
      /\ now \in [Sender -> Nat] /\ ipitime \in [Sender -> Nat]
      /\ began \in [Sender -> Nat] /\ uncalled \in [Sender -> SUBSET CallCpu]
  BY <1>1, TimeTypes DEF CallTypeOK
<1>3. \A u \in Sender \ {s} : SameSets(u)
  <2>1. CASE Call(s)
    BY <2>1, SetsCall
  <2>2. CASE ~Call(s)
    BY <1>1, <2>2, SendFrame DEF SameSets, QueuedOn, RunningOn
  <2> QED BY <2>1, <2>2
<1>4. \A u \in Sender \ {s} :
        IF spc'[u] = "start" THEN ipitime'[u] = 0 ELSE TimeOk(u)'
  BY <1>1, <1>2, <1>3, TimeOther DEF TimeInv
<1>5. SUFFICES spc'[s] # "start" /\ TimeOk(s)'
  BY <1>1, <1>4 DEF TimeInv
<1>6. IF spc[s] = "start" THEN ipitime[s] = 0 ELSE TimeOk(s)
  BY DEF TimeInv
<1>7. CASE StartLoops(s)
  <2>1. /\ spc[s] = "start" /\ spc'[s] = "loop" /\ began'[s] = clock
        /\ ipitime'[s] = ipitime[s]
    BY <1>2, <1>7 DEF StartLoops, Moves
  <2> QED BY <1>1, <1>2, <1>6, <2>1 DEF TimeOk
<1>8. CASE NextLoop(s)
  <2>1. /\ spc[s] = "loop" /\ spc'[s] = "call" /\ began'[s] = began[s]
        /\ ipitime'[s] = ipitime[s] /\ uncalled'[s] = target[s]
        /\ func = "gettime" => now'[s] = clock
    BY <1>2, <1>8 DEF NextLoop, Moves
  <2>2. func = "gettime" => target[s] # {}
    BY <1>1, CaseFacts
  <2>3. /\ began[s] <= clock /\ ipitime[s] <= clock - began[s]
        /\ func # "gettime" \/ ~wait => ipitime[s] = 0
    BY <1>6, <2>1 DEF TimeOk
  <2>4. ipitime[s] + began[s] <= clock
    BY <1>2, <2>3
  <2> QED BY <1>1, <1>2, <2>1, <2>2, <2>3, <2>4 DEF TimeOk
<1>9. CASE Call(s)
  <2>1. PICK d \in uncalled[s] \ csd[s] : Queues(s, d) \/ CallsSelf(s, d)
    BY <1>9, SetsCall
  <2>2. Busy(s)' = Busy(s) \cup {d}
    BY <2>1 DEF Queues, CallsSelf, Busy
  <2>3. /\ spc[s] = "call" /\ spc'[s] = "call" /\ UNCHANGED <<now, ipitime, began>>
    BY <1>2, <1>9 DEF Call, Moves
  <2>4. uncalled[s] # {} /\ Busy(s)' # {}
    BY <2>1, <2>2
  <2> QED BY <1>1, <1>2, <1>6, <2>3, <2>4 DEF TimeOk
<1>10. CASE CallFails(s)
  <2>1. /\ spc[s] = "call" /\ spc'[s] = "failed" /\ ipitime'[s] = 0
        /\ began'[s] = began[s]
    BY <1>2, <1>10 DEF CallFails, Moves
  <2> QED BY <1>1, <1>2, <1>6, <2>1 DEF TimeOk
<1>11. CASE Called(s)
  <2>1. /\ spc[s] = "call" /\ spc'[s] = "loop" /\ uncalled[s] = {}
        /\ ipitime'[s] = ipitime[s] + Sample(s) /\ began'[s] = began[s]
    BY <1>2, <1>11 DEF Called, Moves
  <2>2. CASE func = "gettime" /\ wait
    <3>1. csd[s] = {} /\ WaitOk(s)
      BY <1>11, <2>2 DEF Called, Sync, WaitInv
    <3>2. Busy(s) = {}
      BY <1>1, <3>1, NoneLeft
    <3>3. ipitime[s] + now[s] <= clock - began[s] /\ began[s] <= clock
      BY <1>6, <2>1, <2>2, <3>2 DEF TimeOk
    <3>4. ipitime'[s] = ipitime[s] + now[s]
      BY <2>1, <2>2 DEF Sample
    <3> QED BY <1>1, <2>1, <2>2, <3>3, <3>4 DEF TimeOk
  <2>3. CASE ~(func = "gettime" /\ wait)
    <3>1. ipitime[s] = 0 /\ began[s] <= clock /\ Sample(s) = 0
      BY <1>6, <2>1, <2>3 DEF TimeOk, Sample
    <3> QED BY <1>1, <1>2, <2>1, <2>3, <3>1 DEF TimeOk
  <2> QED BY <2>2, <2>3
<1>12. CASE ReturnDone(s)
  <2>1. /\ spc[s] = "loop" /\ spc'[s] = "done" /\ UNCHANGED <<now, ipitime, began>>
    BY <1>2, <1>12 DEF ReturnDone, Moves
  <2> QED BY <1>1, <1>2, <1>6, <2>1 DEF TimeOk
<1> QED BY <1>7, <1>8, <1>9, <1>10, <1>11, <1>12 DEF Send

\* The callback turns the time stamp into the time the call has taken.
LEMMA TimeGettime ==
  ASSUME BaseInv, WaitInv, TimeInv, NEW c \in CallCpu, Gettime(c), wait,
         NEW s \in Sender, s = irq[c].from,
         Busy(s)' = Busy(s) \ {c}
  PROVE  TimeOk(s)'
<1>1. /\ CallTypeOK /\ func = "gettime" /\ c \in RunningOn(s)
      /\ UNCHANGED <<caseVars, sendVars, clock>>
      /\ now' = [now EXCEPT ![s] = IF clock > @ THEN clock - @ ELSE 0]
  BY DEF BaseInv, Gettime, CallAt, RunningOn
<1>2. WaitOk(s) /\ uncalled[s] \subseteq target[s]
  BY DEF WaitInv, BaseInv, PlaceInv
<1>3. spc[s] = "call" /\ c \in target[s] \ uncalled[s] /\ c \in Busy(s)
  BY <1>1, <1>2 DEF WaitOk, Busy
<1>4. PICK d : target[s] = {d}
  BY <1>1, CaseFacts
<1>5. uncalled[s] = {} /\ Busy(s) = {c}
  BY <1>2, <1>3, <1>4 DEF WaitOk
<1>6. ipitime[s] + began[s] <= now[s] /\ now[s] <= clock /\ began[s] <= clock
  BY <1>1, <1>3, <1>5 DEF TimeInv, TimeOk
<1>7. /\ clock \in Nat /\ began[s] \in Nat /\ now[s] \in Nat /\ ipitime[s] \in Nat
      /\ now \in [Sender -> Nat]
  BY <1>1, TimeTypes DEF CallTypeOK
<1>8. now'[s] = clock - now[s]
  BY <1>1, <1>6, <1>7
<1>9. ipitime[s] + now'[s] <= clock - began[s]
  BY <1>6, <1>7, <1>8
<1>10. /\ UNCHANGED <<wait, func, spc, uncalled, ipitime, began, clock>>
       /\ Busy(s)' = {}
  BY <1>1, <1>5 DEF caseVars, sendVars
<1> QED BY <1>1, <1>3, <1>5, <1>6, <1>9, <1>10 DEF TimeOk

LEMMA TimeInterrupt ==
  ASSUME BaseInv, WaitInv, TimeInv, NEW c \in CallCpu, Interrupt(c)
  PROVE  TimeInv'
<1>1. CallTypeOK /\ QueueInv
  BY DEF BaseInv
<1>2. /\ UNCHANGED <<wait, func, target, spc, uncalled, ipitime, began, clock>>
      /\ Sender' = Sender
  <2>1. UNCHANGED <<caseVars, sendVars, clock>>
    BY <1>1, CallbackStep DEF Take
  <2> QED BY <2>1 DEF caseVars, sendVars, Sender
<1>3. /\ clock \in Nat /\ now \in [Sender -> Nat]
      /\ \A u \in Sender : began[u] \in Nat /\ now[u] \in Nat /\ ipitime[u] \in Nat
  BY <1>1, TimeTypes DEF CallTypeOK
<1>4. SUFFICES ASSUME NEW u \in Sender, spc[u] # "start" PROVE TimeOk(u)'
  BY <1>2 DEF TimeInv
<1>5. TimeOk(u)
  BY <1>4 DEF TimeInv
<1>6. CASE ~(func = "gettime" /\ wait)
  BY <1>2, <1>5, <1>6 DEF TimeOk
<1>7. CASE func = "gettime" /\ wait /\ Take(c)
  <2>1. now' = now
    BY <1>7 DEF Take
  <2>2. Busy(u)' = Busy(u)
    <3>1. PICK s \in Sender :
              /\ c \in QueuedOn(s) /\ QueuedOn(s)' = QueuedOn(s) \ {c}
              /\ RunningOn(s)' = RunningOn(s) \cup {c}
              /\ \A v \in Sender \ {s} : SameSets(v)
      BY <1>7, SetsTake
    <3> QED BY <3>1 DEF Busy, SameSets
  <2> QED BY <1>2, <1>5, <2>1, <2>2 DEF TimeOk
<1>8. CASE func = "gettime" /\ wait /\ ~Take(c)
  <2>1. PICK s \in Sender :
           /\ s = irq[c].from /\ c \in RunningOn(s)
           /\ \A v : QueuedOn(v)' = QueuedOn(v)
           /\ \A v \in Sender \ {s} : RunningOn(v)' = RunningOn(v)
           /\ RunningOn(s)' = RunningOn(s) \ {c} \/ GoesOn(c)
    BY <1>8, SetsCallback
  <2>2. WaitOk(s) /\ spc[s] = "call"
    BY <1>8, <2>1 DEF WaitInv, WaitOk, Busy
  <2>3. Gettime(c)
    BY <1>8, <2>1, <2>2 DEF Interrupt, Empty, SpinLock, SpinUnlock, CallAstray,
       CallAt, BaseInv, PlaceInv, Over
  <2>4. CASE u = s
    <3>1. RunningOn(s)' = RunningOn(s) \ {c}
      <4>1. irq' = [irq EXCEPT ![c] = NoCall] /\ irq \in [CallCpu -> IrqType]
        BY <1>1, <2>3 DEF Gettime, CallReturns, CallTypeOK, IrqType
      <4>2. irq'[c].from \notin Sender /\ \A d \in CallCpu \ {c} : irq'[d] = irq[d]
        BY <1>1, <4>1, CaseFacts
      <4> QED BY <4>2 DEF RunningOn
    <3>2. Busy(s)' = Busy(s) \ {c}
      BY <2>1, <2>2, <3>1 DEF Busy, WaitOk
    <3> QED BY <1>8, <2>1, <2>3, <2>4, <3>2, TimeGettime
  <2>5. CASE u # s
    <3>1. now'[u] = now[u] /\ SameSets(u)
      BY <1>3, <2>1, <2>3, <2>5 DEF Gettime, SameSets
    <3> QED BY <1>1, <1>2, <1>3, <1>5, <3>1, TimeOther
  <2> QED BY <2>4, <2>5
<1> QED BY <1>6, <1>7, <1>8


LEMMA TimeInductive == CallSpec => []TimeInv
<1>1. CallInit => TimeInv
  BY DEF CallInit, TimeInv
<1>2. ASSUME BaseInv, WaitInv, TimeInv, [CallNext]_callVars PROVE TimeInv'
  <2>1. CASE Tick \/ CallsOver \/ UNCHANGED callVars
    <3>1. /\ UNCHANGED <<caseVars, sendVars, now>> /\ CallTypeOK
          /\ clock' \in Nat /\ clock' >= clock
          /\ Sender' = Sender /\ \A u : SameSets(u)
      BY <1>2, <2>1, IdleStep, MaxClockAssumption DEF BaseInv
    <3>2. \A u \in Sender : TimeOk(u) => TimeOk(u)'
      BY <3>1, TimeOther DEF caseVars, sendVars
    <3> QED BY <1>2, <3>1, <3>2 DEF TimeInv, sendVars
  <2> QED BY <1>2, <2>1, TimeSend, TimeInterrupt DEF CallNext
<1> QED BY <1>1, <1>2, CallInductive, PTL DEF CallSpec

\* "ipi time" (ipi_bench.c:106) is a sum of stretches of a sender's own loop:
\* it is never longer than the loop, though the time stamps are taken on
\* other CPUs and the sender may come away with an error.
THEOREM TimeWithin == CallSpec => []TimeWithinElapsed
<1>1. BaseInv /\ TimeInv => TimeWithinElapsed
  <2> SUFFICES ASSUME BaseInv, TimeInv, NEW s \in Sender, spc[s] # "start"
               PROVE  ipitime[s] <= clock - began[s]
    BY DEF TimeWithinElapsed
  <2>1. /\ clock \in Nat /\ began[s] \in Nat /\ now[s] \in Nat /\ ipitime[s] \in Nat
        /\ spc[s] \in {"start", "loop", "call"} \cup Over
    BY TimeTypes DEF BaseInv, CallTypeOK
  <2>2. TimeOk(s)
    BY DEF TimeInv
  <2>3. CASE spc[s] \in {"loop", "done"}
    BY <2>2, <2>3 DEF TimeOk
  <2>4. CASE spc[s] = "failed" \/ func # "gettime" \/ ~wait
    <3>1. ipitime[s] = 0 /\ began[s] <= clock
      BY <2>2, <2>4 DEF TimeOk
    <3> QED BY <2>1, <3>1
  <2>5. CASE spc[s] = "call" /\ func = "gettime" /\ wait
    <3>1. \/ ipitime[s] + now[s] <= clock - began[s]
          \/ ipitime[s] + began[s] <= now[s] /\ now[s] <= clock
      BY <2>2, <2>5 DEF TimeOk
    <3> QED BY <2>1, <3>1
  <2> QED BY <2>1, <2>3, <2>4, <2>5 DEF Over
<1> QED BY <1>1, CallInductive, TimeInductive, PTL

-----------------------------------------------------------------------------
LEMMA OneLoopMore ==
  ASSUME NEW a \in Nat, NEW b \in Nat, NEW t \in Nat
  PROVE  /\ (a - (b - 1)) * t = (a - b) * t + t
         /\ (a - a) * t = 0
  OBVIOUS

\* The callbacks of a sender are on finitely many CPUs.
LEMMA FiniteCalls ==
  ASSUME CallTypeOK
  PROVE  \A s \in Sender :
           /\ IsFiniteSet(QueuedOn(s)) /\ Cardinality(QueuedOn(s)) \in Nat
           /\ IsFiniteSet(RunningOn(s)) /\ Cardinality(RunningOn(s)) \in Nat
           /\ IsFiniteSet(target[s]) /\ Cardinality(target[s]) \in Nat
           /\ ran[s] \in Nat /\ loop[s] \in Nat /\ loops \in Nat
<1>1. IsFiniteSet(CallCpu)
  BY CallCpuAssumption
<1>2. \A S \in SUBSET CallCpu : IsFiniteSet(S) /\ Cardinality(S) \in Nat
  BY <1>1, FS_Subset, FS_CardinalityType
<1>3. loops \in Nat /\ \A s \in Sender : target[s] \subseteq CallCpu
  BY CaseFacts
<1>4. \A s \in Sender : QueuedOn(s) \in SUBSET CallCpu /\ RunningOn(s) \in SUBSET CallCpu
  BY DEF QueuedOn, RunningOn
<1>5. \A s \in Sender : ran[s] \in Nat /\ loop[s] \in Nat
  BY <1>3 DEF CallTypeOK
<1> QED BY <1>2, <1>3, <1>4, <1>5

LEMMA MadeOther ==
  ASSUME NEW u, MadeOk(u), SameSets(u),
         UNCHANGED <<loops, target, spc[u], loop[u], uncalled[u], ran[u]>>
  PROVE  MadeOk(u)'
<1>1. Made(u)' = Made(u)
  BY DEF Made
<1>2. CallsOf(u)' = CallsOf(u)
  BY DEF CallsOf, SameSets
<1> QED BY <1>1, <1>2 DEF MadeOk

LEMMA MadeSend ==
  ASSUME BaseInv, MadeInv, NEW s \in Sender, Send(s)
  PROVE  MadeInv'
<1>1. /\ UNCHANGED <<loops, target, ran>> /\ Sender' = Sender
      /\ irq[s] = NoCall /\ CallTypeOK
      /\ \A u \in Sender \ {s} : UNCHANGED <<spc[u], loop[u], uncalled[u]>>
  BY SendFrame DEF BaseInv, caseVars, Sender
<1>2. /\ spc \in [Sender -> {"start", "loop", "call"} \cup Over]
      /\ loop \in [Sender -> 0 .. loops] /\ loops \in Nat /\ loop[s] \in Nat
      /\ uncalled \in [Sender -> SUBSET CallCpu] /\ ran[s] \in Nat
      /\ Cardinality(target[s]) \in Nat /\ IsFiniteSet(target[s])
      /\ Cardinality(QueuedOn(s)) \in Nat /\ IsFiniteSet(QueuedOn(s))
      /\ Cardinality(RunningOn(s)) \in Nat /\ IsFiniteSet(RunningOn(s))
  BY <1>1, FiniteCalls DEF CallTypeOK
<1>3. \A u \in Sender \ {s} : MadeOk(u)'
  <2>1. \A u \in Sender \ {s} : SameSets(u)
    <3>1. CASE Call(s)
      BY <3>1, SetsCall
    <3>2. CASE ~Call(s)
      BY <1>1, <3>2, SendFrame DEF SameSets, QueuedOn, RunningOn
    <3> QED BY <3>1, <3>2
  <2> QED BY <1>1, <2>1, MadeOther DEF MadeInv
<1>4. SUFFICES MadeOk(s)'
  BY <1>1, <1>3 DEF MadeInv
<1>5. spc[s] # "failed" /\ CallsOf(s) = Made(s)
  BY SendFrame, <1>1 DEF MadeInv, MadeOk, Over
<1>6. ~Call(s) => CallsOf(s)' = CallsOf(s)
  BY <1>1, SendFrame DEF CallsOf, QueuedOn, RunningOn
<1>7. CASE StartLoops(s)
  <2>1. /\ spc[s] = "start" /\ spc'[s] = "loop" /\ loop'[s] = loops /\ ~Call(s)
    BY <1>2, <1>7 DEF StartLoops, Moves, Call
  <2>2. Made(s) = 0 /\ Made(s)' = (loops - loops) * Cardinality(target[s])
    BY <1>1, <2>1 DEF Made
  <2>3. Made(s)' = 0
    BY <1>2, <2>2, OneLoopMore
  <2> QED BY <1>5, <1>6, <2>1, <2>2, <2>3 DEF MadeOk
<1>8. CASE NextLoop(s)
  <2>1. /\ spc[s] = "loop" /\ spc'[s] = "call" /\ UNCHANGED loop /\ ~Call(s)
        /\ uncalled'[s] = target[s]
    BY <1>2, <1>8 DEF NextLoop, Moves, Call
  <2>2. Cardinality(target[s] \ target[s]) = 0
    <3>1. target[s] \ target[s] = {}
      OBVIOUS
    <3> QED BY <3>1, FS_EmptySet
  <2>3. /\ Made(s) = (loops - loop[s]) * Cardinality(target[s])
        /\ Made(s)' = (loops - loop[s]) * Cardinality(target[s]) + 0
    BY <1>1, <2>1, <2>2 DEF Made
  <2>4. (loops - loop[s]) * Cardinality(target[s]) \in Int
    BY <1>2
  <2>5. Made(s)' = Made(s)
    BY <2>3, <2>4
  <2> QED BY <1>5, <1>6, <2>1, <2>5 DEF MadeOk
<1>9. CASE Call(s)
  <2>1. PICK d \in uncalled[s] \ csd[s] :
              /\ uncalled'[s] = uncalled[s] \ {d}
              /\ Queues(s, d) \/ CallsSelf(s, d)
    BY <1>9, SetsCall
  <2>2. spc[s] = "call" /\ spc'[s] = "call" /\ UNCHANGED loop
    BY <1>2, <1>9 DEF Call, Moves
  <2>3. uncalled[s] \subseteq target[s]
    BY DEF BaseInv, PlaceInv
  <2> DEFINE done == target[s] \ uncalled[s]
  <2>4. /\ target[s] \ uncalled'[s] = done \cup {d} /\ d \notin done
        /\ IsFiniteSet(done)
    BY <1>2, <2>1, <2>3, FS_Subset
  <2>5. Cardinality(target[s] \ uncalled'[s]) = Cardinality(done) + 1
        /\ Cardinality(done) \in Nat
    BY <2>4, FS_AddElement, FS_CardinalityType
  <2>6. CallsOf(s)' = CallsOf(s) + 1
    <3>1. CASE Queues(s, d)
      <4>1. Cardinality(QueuedOn(s)') = Cardinality(QueuedOn(s)) + 1
        BY <1>2, <3>1, FS_AddElement DEF Queues
      <4> QED BY <1>1, <1>2, <3>1, <4>1 DEF CallsOf, Queues
    <3>2. CASE CallsSelf(s, d)
      <4>1. Cardinality(RunningOn(s)') = Cardinality(RunningOn(s)) + 1
        BY <1>2, <3>2, FS_AddElement DEF CallsSelf
      <4> QED BY <1>1, <1>2, <3>2, <4>1 DEF CallsOf, CallsSelf
    <3> QED BY <2>1, <3>1, <3>2
  <2> HIDE DEF done
  <2>7. /\ Made(s) = (loops - loop[s]) * Cardinality(target[s]) + Cardinality(done)
        /\ Made(s)' = (loops - loop[s]) * Cardinality(target[s])
                      + (Cardinality(done) + 1)
    BY <1>1, <2>2, <2>5 DEF Made, done
  <2>8. (loops - loop[s]) * Cardinality(target[s]) \in Int
    BY <1>2
  <2>9. Made(s)' = Made(s) + 1
    BY <2>5, <2>7, <2>8
  <2> QED BY <1>5, <2>6, <2>9 DEF MadeOk
<1>10. CASE CallFails(s)
  <2>1. spc'[s] = "failed"
    BY <1>2, <1>10 DEF CallFails, Moves
  <2> QED BY <2>1 DEF MadeOk
<1>11. CASE Called(s)
  <2>1. /\ spc[s] = "call" /\ spc'[s] = "loop" /\ uncalled[s] = {} /\ ~Call(s)
        /\ loop'[s] = loop[s] - 1
    BY <1>2, <1>11 DEF Called, Moves, Call
  <2>2. target[s] \ uncalled[s] = target[s]
    BY <2>1
  <2>3. /\ Made(s) = (loops - loop[s]) * Cardinality(target[s])
                     + Cardinality(target[s])
        /\ Made(s)' = (loops - (loop[s] - 1)) * Cardinality(target[s])
    BY <1>1, <2>1, <2>2 DEF Made
  <2>4. Made(s)' = Made(s)
    BY <1>2, <2>3, OneLoopMore
  <2> QED BY <1>5, <1>6, <2>1, <2>4 DEF MadeOk
<1>12. CASE ReturnDone(s)
  <2>1. /\ spc[s] = "loop" /\ spc'[s] = "done" /\ UNCHANGED loop /\ ~Call(s)
    BY <1>2, <1>12 DEF ReturnDone, Moves, Call
  <2>2. Made(s)' = Made(s)
    BY <1>1, <2>1 DEF Made
  <2> QED BY <1>5, <1>6, <2>1, <2>2 DEF MadeOk
<1> QED BY <1>7, <1>8, <1>9, <1>10, <1>11, <1>12 DEF Send


LEMMA MadeInterrupt ==
  ASSUME BaseInv, MadeInv, NEW c \in CallCpu, Interrupt(c)
  PROVE  MadeInv'
<1>1. CallTypeOK /\ QueueInv /\ ran \in [Sender -> Nat]
  BY DEF BaseInv, CallTypeOK
<1>2. UNCHANGED <<loops, target, spc, loop, uncalled>> /\ Sender' = Sender
  <2>1. UNCHANGED <<caseVars, sendVars>>
    BY <1>1, CallbackStep DEF Take
  <2> QED BY <2>1 DEF caseVars, sendVars, Sender
<1>3. \A u \in Sender : MadeOk(u)
  BY DEF MadeInv
<1>4. \A u \in Sender : Made(u)' = Made(u)
  BY <1>2 DEF Made
<1>5. SUFFICES ASSUME NEW u \in Sender PROVE CallsOf(u)' = CallsOf(u)
  BY <1>2, <1>3, <1>4 DEF MadeInv, MadeOk
<1>6. CASE Take(c)
  <2>1. PICK s \in Sender \ {c} :
              /\ c \in QueuedOn(s) /\ QueuedOn(s)' = QueuedOn(s) \ {c}
              /\ c \notin RunningOn(s) /\ RunningOn(s)' = RunningOn(s) \cup {c}
              /\ \A v \in Sender \ {s} : SameSets(v)
    BY <1>6, SetsTake
  <2>2. ran' = ran
    BY <1>6 DEF Take
  <2>3. CASE u = s
    <3>1. /\ IsFiniteSet(QueuedOn(s)) /\ Cardinality(QueuedOn(s)) \in Nat
          /\ IsFiniteSet(RunningOn(s)) /\ Cardinality(RunningOn(s)) \in Nat
          /\ ran[s] \in Nat
      BY <1>1, FiniteCalls
    <3>2. Cardinality(QueuedOn(s)') = Cardinality(QueuedOn(s)) - 1
      BY <2>1, <3>1, FS_RemoveElement
    <3>3. Cardinality(RunningOn(s)') = Cardinality(RunningOn(s)) + 1
      BY <2>1, <3>1, FS_AddElement
    <3> QED BY <2>2, <2>3, <3>1, <3>2, <3>3 DEF CallsOf
  <2>4. CASE u # s
    BY <2>1, <2>2, <2>4 DEF CallsOf, SameSets
  <2> QED BY <2>3, <2>4
<1>7. CASE ~Take(c)
  <2>1. PICK s \in Sender :
           /\ c \in RunningOn(s) /\ \A v : QueuedOn(v)' = QueuedOn(v)
           /\ \A v \in Sender \ {s} : RunningOn(v)' = RunningOn(v)
           /\ \/ /\ RunningOn(s)' = RunningOn(s) \ {c}
                 /\ ran' = [ran EXCEPT ![s] = @ + 1]
              \/ ran' = ran /\ RunningOn(s)' = RunningOn(s)
    BY <1>7, SetsCallback DEF GoesOn
  <2>2. CASE u = s
    <3>1. /\ Cardinality(QueuedOn(s)) \in Nat /\ ran[s] \in Nat
          /\ IsFiniteSet(RunningOn(s)) /\ Cardinality(RunningOn(s)) \in Nat
      BY <1>1, FiniteCalls
    <3>2. CASE RunningOn(s)' = RunningOn(s) \ {c} /\ ran' = [ran EXCEPT ![s] = @ + 1]
      <4>1. Cardinality(RunningOn(s)') = Cardinality(RunningOn(s)) - 1
        BY <2>1, <3>1, <3>2, FS_RemoveElement
      <4>2. ran'[s] = ran[s] + 1
        BY <1>1, <3>2
      <4> QED BY <2>1, <2>2, <3>1, <4>1, <4>2 DEF CallsOf
    <3>3. CASE ran' = ran /\ RunningOn(s)' = RunningOn(s)
      BY <2>1, <2>2, <3>3 DEF CallsOf
    <3> QED BY <2>1, <3>2, <3>3
  <2>3. CASE u # s
    BY <1>1, <2>1, <2>3 DEF CallsOf
  <2> QED BY <2>2, <2>3
<1> QED BY <1>6, <1>7

LEMMA MadeInductive == CallSpec => []MadeInv
<1>1. CallInit => MadeInv
  <2> SUFFICES ASSUME CallInit PROVE MadeInv
    OBVIOUS
  <2>1. \A s \in Sender : QueuedOn(s) = {} /\ RunningOn(s) = {}
    <3>1. NoCall.from \notin Sender
      BY CallBegins, CaseFacts DEF BaseInv
    <3> QED BY <3>1 DEF CallInit, QueuedOn, RunningOn
  <2>2. \A s \in Sender : ran[s] = 0 /\ spc[s] = "start"
    BY DEF CallInit
  <2>3. Cardinality({}) = 0
    BY FS_EmptySet
  <2>4. \A s \in Sender : CallsOf(s) = 0 /\ Made(s) = 0
    BY <2>1, <2>2, <2>3 DEF CallsOf, Made
  <2> QED BY <2>4 DEF MadeInv, MadeOk
<1>2. ASSUME BaseInv, MadeInv, [CallNext]_callVars PROVE MadeInv'
  <2>1. CASE Tick \/ CallsOver \/ UNCHANGED callVars
    <3>1. /\ UNCHANGED <<caseVars, sendVars, ran>>
          /\ Sender' = Sender /\ \A u : SameSets(u)
      BY <1>2, <2>1, IdleStep DEF BaseInv
    <3>2. \A u \in Sender : MadeOk(u)'
      BY <1>2, <3>1, MadeOther DEF MadeInv, caseVars, sendVars
    <3> QED BY <3>1, <3>2 DEF MadeInv
  <2> QED BY <1>2, <2>1, MadeSend, MadeInterrupt DEF CallNext
<1> QED BY <1>1, <1>2, CallInductive, PTL DEF CallSpec

\* No call is lost or made twice: a loop that returns without an error has
\* had its callback run, or left it to run, on each CPU once in each of its
\* loops (ipi_bench.c:100, 185), whether it waits or not.
THEOREM CallsAreExact == CallSpec => []CallsExact
<1>1. BaseInv /\ MadeInv => CallsExact
  <2> SUFFICES ASSUME BaseInv, MadeInv, NEW s \in Sender, spc[s] = "done"
               PROVE  CallsOf(s) = loops * Cardinality(target[s])
    BY DEF CallsExact, CallsOf
  <2>1. CallsOf(s) = (loops - loop[s]) * Cardinality(target[s]) /\ loop[s] = 0
    BY DEF MadeInv, MadeOk, Made, BaseInv, PlaceInv
  <2>2. loops \in Nat /\ Cardinality(target[s]) \in Nat
    BY FiniteCalls DEF BaseInv
  <2>3. loops - loop[s] = loops
    BY <2>1, <2>2
  <2> QED BY <2>1, <2>3
<1> QED BY <1>1, CallInductive, MadeInductive, PTL
=============================================================================
