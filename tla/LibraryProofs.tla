---------------------------- MODULE LibraryProofs ----------------------------
(***************************************************************************)
(* The parts of the kernel that share no state, each with its own          *)
(* invariant, for any number of tasks, objects and nodes and any length of *)
(* a run.                                                                  *)
(***************************************************************************)
EXTENDS CpuTime, CxaGuard, LinkedList, Console, Logger, SequenceTheorems, WellFoundedInduction, TLAPS

(***************************************************************************)
(* CpuTime.  AccountsBalance says nothing of the moment between the two    *)
(* stores of tasks_get_self_time, nor why the interval that is charged     *)
(* there is the right one.                                                 *)
(***************************************************************************)
CallType == [at : {"out", "read", "charge", "store"}, time : Int, delta : Int]

TimesTyped ==
  /\ nanos \in Int /\ lastTime \in Int /\ idleTime \in Int /\ idleStart \in Int
  /\ onCpu \in Thread \cup {Idle} /\ raced \in BOOLEAN
  /\ phase = "run" => onCpu \in Thread
  /\ phase \in {"starting", "idle"} => onCpu = Idle
  /\ phase = "stopping" => onCpu \in Thread
  /\ timeUsed \in [Thread -> Int] /\ ran \in [Thread \cup {Idle} -> Int]
  /\ selfCall \in [Thread -> CallType]

(* A task that is off the CPU is in no call, and its account is closed.      *)
OffCpu(t) == selfCall[t] = NotInCall /\ timeUsed[t] = ran[t]

(* The one on the CPU: the interval that is still open begins at _last_time, *)
(* or, once it has been charged and not stored, at the time that was read.   *)
OpenCharge(t) ==
  LET c == selfCall[t]
  IN  /\ c.at = "out" => c = NotInCall
      /\ c.at = "read" => c.delta = 0
      /\ c.at = "charge" => c.delta = c.time - lastTime
      /\ c.at # "store" => timeUsed[t] + nanos - lastTime = ran[t]
      /\ c.at = "store" => timeUsed[t] + nanos - c.time = ran[t]

Charged ==
  ~raced => \A t \in Thread : IF onCpu = t THEN OpenCharge(t) ELSE OffCpu(t)

TimeInv == TimesTyped /\ Charged

LEMMA TimeInit == CpuTimeInit => TimeInv
<1> SUFFICES ASSUME CpuTimeInit PROVE TimeInv
  OBVIOUS
<1>1. NotInCall \in CallType /\ NotInCall.at = "out"
  BY DEF NotInCall, CallType
<1>2. TimesTyped
  <2>1. /\ nanos = 0 /\ lastTime = 0 /\ onCpu \in Thread /\ phase = "run" /\ idleTime = 0 /\ idleStart = 0
        /\ timeUsed = [t \in Thread |-> 0] /\ ran = [t \in Thread \cup {Idle} |-> 0]
        /\ selfCall = [t \in Thread |-> NotInCall]
    BY DEF CpuTimeInit
  <2>2. raced \in BOOLEAN
    BY DEF CpuTimeInit
  <2>3. timeUsed \in [Thread -> Int] /\ ran \in [Thread \cup {Idle} -> Int]
    BY <2>1
  <2>4. selfCall \in [Thread -> CallType]
    BY <1>1, <2>1
  <2> QED
    BY <2>1, <2>2, <2>3, <2>4 DEF TimesTyped
<1>3. ASSUME NEW t \in Thread PROVE OpenCharge(t) /\ OffCpu(t)
  <2>1. /\ selfCall[t] = NotInCall /\ timeUsed[t] = 0 /\ ran[t] = 0 /\ nanos = 0 /\ lastTime = 0
    BY DEF CpuTimeInit
  <2> QED
    BY <1>1, <2>1 DEF OpenCharge, OffCpu
<1>4. Charged
  BY <1>3 DEF Charged
<1> QED
  BY <1>2, <1>4 DEF TimeInv

LEMMA ElapsesKeepsTime ==
  ASSUME TimeInv, Elapses
  PROVE  TimeInv'
<1>1. /\ nanos' = nanos + 1 /\ ran' = [ran EXCEPT ![onCpu] = ran[onCpu] + 1]
      /\ UNCHANGED <<onCpu, phase, lastTime, timeUsed, idleTime, idleStart, selfCall, raced>>
  BY DEF Elapses
<1>2. TimesTyped /\ Charged
  BY DEF TimeInv
<1>3. TimesTyped'
  BY <1>1, <1>2 DEF TimesTyped
<1>4. Charged'
  <2> SUFFICES ASSUME ~raced, NEW t \in Thread
               PROVE  (IF onCpu = t THEN OpenCharge(t) ELSE OffCpu(t))'
    BY <1>1 DEF Charged
  <2>1. CASE onCpu = t
    <3>1. OpenCharge(t) /\ ran'[t] = ran[t] + 1
      BY <1>1, <1>2, <2>1 DEF Charged, TimesTyped
    <3>2. OpenCharge(t)'
      BY <1>1, <1>2, <3>1 DEF OpenCharge, TimesTyped, CallType
    <3> QED
      BY <1>1, <2>1, <3>2
  <2>2. CASE onCpu # t
    <3>1. OffCpu(t) /\ ran'[t] = ran[t]
      BY <1>1, <1>2, <2>2 DEF Charged, TimesTyped
    <3> QED
      BY <1>1, <2>2, <3>1 DEF OffCpu
  <2> QED
    BY <2>1, <2>2
<1> QED
  BY <1>3, <1>4 DEF TimeInv

(* Whoever switches, for whatever reason: the old account is closed, the new *)
(* one opens at this moment.                                                *)
LEMMA UpdateTimeCloses ==
  ASSUME TimeInv, UpdateTime, UNCHANGED <<nanos, selfCall, ran>>,
         ~raced', raced' = (raced \/ (onCpu \in Thread /\ selfCall[onCpu] # NotInCall)),
         onCpu' \in (Thread \cup {Idle}) \ {onCpu}
  PROVE  Charged'
<1>1. /\ timeUsed' = [t \in Thread |-> IF t = onCpu THEN timeUsed[t] + nanos - lastTime
                                      ELSE timeUsed[t]]
      /\ lastTime' = nanos /\ UNCHANGED <<nanos, selfCall, ran>>
  BY DEF UpdateTime
<1>2. TimesTyped /\ Charged /\ ~raced /\ (onCpu \in Thread => selfCall[onCpu] = NotInCall)
  BY DEF TimeInv, TimesTyped
<1>3. NotInCall.at = "out"
  BY DEF NotInCall
<1>4. ASSUME NEW t \in Thread PROVE selfCall[t] = NotInCall /\ timeUsed'[t] = ran[t]
  <2>1. CASE onCpu = t
    BY <1>1, <1>2, <1>3, <2>1 DEF Charged, OpenCharge
  <2>2. CASE onCpu # t
    BY <1>1, <1>2, <2>2 DEF Charged, OffCpu
  <2> QED
    BY <2>1, <2>2
<1>5. \A t \in Thread : timeUsed'[t] \in Int /\ nanos \in Int
  BY <1>2, <1>4 DEF TimesTyped
<1>6. ASSUME NEW t \in Thread PROVE OpenCharge(t)' /\ OffCpu(t)'
  BY <1>1, <1>3, <1>4, <1>5 DEF OpenCharge, OffCpu
<1> QED
  BY <1>6 DEF Charged

LEMMA UpdateTimeTyped ==
  ASSUME TimeInv, UpdateTime, UNCHANGED <<nanos, selfCall, ran>>,
         idleTime' \in Int, idleStart' \in Int, raced' \in BOOLEAN,
         \/ phase' \in {"run", "stopping"} /\ onCpu' \in Thread
         \/ phase' = "starting" /\ onCpu' = Idle
  PROVE  TimesTyped'
<1>1. TimesTyped
  BY DEF TimeInv
<1>2. timeUsed' \in [Thread -> Int] /\ lastTime' \in Int
  BY <1>1 DEF TimesTyped, UpdateTime
<1> QED
  BY <1>1, <1>2 DEF TimesTyped

LEMMA SwitchThreadKeepsTime ==
  ASSUME TimeInv, NEW t \in Thread, SwitchThread(t)
  PROVE  TimeInv'
<1>1. /\ onCpu \in Thread \ {t} /\ onCpu' = t /\ phase' = "run" /\ UpdateTime
      /\ UNCHANGED <<nanos, idleTime, idleStart, selfCall, ran>>
      /\ idleTime \in Int /\ idleStart \in Int
  BY DEF SwitchThread, TimeInv, TimesTyped
<1>2. raced' = (raced \/ selfCall[onCpu] # NotInCall) /\ raced' \in BOOLEAN
  BY DEF SwitchThread
<1>3. TimesTyped'
  BY <1>1, <1>2, UpdateTimeTyped
<1>4. Charged'
  <2>1. raced' = (raced \/ (onCpu \in Thread /\ selfCall[onCpu] # NotInCall))
    BY <1>1, <1>2
  <2>2. onCpu' \in (Thread \cup {Idle}) \ {onCpu}
    BY <1>1
  <2> QED
    BY <1>1, <2>1, <2>2, UpdateTimeCloses DEF Charged
<1> QED
  BY <1>3, <1>4 DEF TimeInv

LEMMA StartIdlingKeepsTime ==
  ASSUME TimeInv, StartIdling
  PROVE  TimeInv'
<1>1. /\ onCpu \in Thread /\ selfCall[onCpu] = NotInCall /\ UpdateTime
      /\ onCpu' = Idle /\ phase' = "starting"
      /\ UNCHANGED <<nanos, idleTime, idleStart, selfCall, ran>>
      /\ idleTime \in Int /\ idleStart \in Int
  BY DEF StartIdling, TimeInv, TimesTyped
<1>2. raced' = raced /\ raced' \in BOOLEAN
  BY DEF StartIdling, TimeInv, TimesTyped
<1>3. TimesTyped'
  BY <1>1, <1>2, UpdateTimeTyped
<1>4. Charged'
  <2>1. raced' = (raced \/ (onCpu \in Thread /\ selfCall[onCpu] # NotInCall))
    BY <1>1, <1>2
  <2>2. onCpu' \in (Thread \cup {Idle}) \ {onCpu}
    BY <1>1, CpuTimeAssumption
  <2> QED
    BY <1>1, <2>1, <2>2, UpdateTimeCloses DEF Charged
<1> QED
  BY <1>3, <1>4 DEF TimeInv

(* The readings of the idle branch that only _idle_start and _idle_time see. *)
LEMMA IdleReadingsKeepTime ==
  ASSUME TimeInv, IdleBegins \/ IdleSettles
  PROVE  TimeInv'
<1>1. /\ UNCHANGED <<nanos, onCpu, lastTime, timeUsed, selfCall, ran, raced>>
      /\ \/ phase = "starting" /\ phase' = "idle"
         \/ phase = "stopping" /\ phase' = "run"
      /\ TimesTyped /\ Charged
  BY DEF IdleBegins, IdleSettles, TimeInv
<1>2. idleStart' \in Int /\ idleTime' \in Int
  BY <1>1 DEF IdleBegins, IdleSettles, TimesTyped
<1>3. TimesTyped'
  BY <1>1, <1>2 DEF TimesTyped
<1>4. Charged'
  BY <1>1 DEF Charged, OpenCharge, OffCpu
<1> QED
  BY <1>3, <1>4 DEF TimeInv

(* Idling ends: no task's account changes, that of the next one opens now.   *)
LEMMA StopIdlingKeepsTime ==
  ASSUME TimeInv, NEW t \in Thread, StopIdling(t)
  PROVE  TimeInv'
<1>1. /\ onCpu = Idle /\ onCpu' = t /\ phase' = "stopping" /\ lastTime' = nanos
      /\ idleTime' = idleTime + nanos - lastTime
      /\ UNCHANGED <<nanos, idleStart, selfCall, ran, timeUsed>>
      /\ idleTime \in Int /\ idleStart \in Int /\ nanos \in Int /\ lastTime \in Int
      /\ \A u \in Thread : onCpu # u
  BY CpuTimeAssumption DEF StopIdling, TimeInv, TimesTyped
<1>2. raced' = raced /\ raced' \in BOOLEAN
  BY DEF StopIdling, TimeInv, TimesTyped
<1>3. UpdateTime /\ idleTime' \in Int
  <2>1. timeUsed \in [Thread -> Int]
    BY DEF TimeInv, TimesTyped
  <2>2. timeUsed = [u \in Thread |-> IF u = onCpu THEN timeUsed[u] + nanos - lastTime
                                     ELSE timeUsed[u]]
    BY <1>1, <2>1
  <2> QED
    BY <1>1, <2>2 DEF UpdateTime
<1>4. TimesTyped'
  BY <1>1, <1>2, <1>3, UpdateTimeTyped
<1>5. Charged'
  <2>1. raced' = (raced \/ (onCpu \in Thread /\ selfCall[onCpu] # NotInCall))
    BY <1>1, <1>2, CpuTimeAssumption
  <2>2. onCpu' \in (Thread \cup {Idle}) \ {onCpu}
    BY <1>1, CpuTimeAssumption
  <2> QED
    BY <1>1, <1>3, <2>1, <2>2, UpdateTimeCloses DEF Charged
<1> QED
  BY <1>4, <1>5 DEF TimeInv

LEMMA SelfTimeKeepsTime ==
  ASSUME TimeInv, NEW t \in Thread,
         SelfReadTime(t) \/ SelfDelta(t) \/ SelfCharge(t) \/ SelfStore(t)
  PROVE  TimeInv'
<1> DEFINE c == selfCall[t]
           d == selfCall'[t]
<1>1. /\ TimesTyped /\ Charged /\ onCpu = t /\ t # Idle
      /\ UNCHANGED <<nanos, onCpu, phase, idleTime, idleStart, ran, raced>>
      /\ c \in CallType
  BY CpuTimeAssumption
     DEF TimeInv, TimesTyped, SelfReadTime, SelfDelta, SelfCharge, SelfStore, SelfStep
<1>2. /\ c.time \in Int /\ c.delta \in Int /\ nanos \in Int /\ lastTime \in Int
      /\ timeUsed \in [Thread -> Int] /\ timeUsed[t] \in Int /\ ran[t] \in Int
  BY <1>1 DEF TimesTyped, CallType
<1>3. /\ d \in CallType /\ \A u \in Thread \ {t} : selfCall'[u] = selfCall[u] /\ timeUsed'[u] = timeUsed[u]
      /\ selfCall' \in [Thread -> CallType]
      /\ timeUsed' \in [Thread -> Int] /\ lastTime' \in Int
      /\ ~raced => OpenCharge(t)'
  <2>0. ~raced => OpenCharge(t)
    BY <1>1 DEF Charged
  <2>1. CASE SelfReadTime(t)
    <3>1. /\ c.at = "out"
          /\ selfCall' = [selfCall EXCEPT ![t] = [at |-> "read", time |-> nanos, delta |-> 0]]
          /\ UNCHANGED <<lastTime, timeUsed>>
      BY <2>1 DEF SelfReadTime, SelfStep
    <3>2. /\ d = [at |-> "read", time |-> nanos, delta |-> 0] /\ d \in CallType
          /\ selfCall' \in [Thread -> CallType] /\ \A u \in Thread \ {t} : selfCall'[u] = selfCall[u]
      BY <1>1, <1>2, <3>1 DEF TimesTyped, CallType
    <3> QED
      BY <1>1, <1>2, <2>0, <3>1, <3>2 DEF OpenCharge
  <2>2. CASE SelfDelta(t)
    <3>1. /\ c.at = "read"
          /\ selfCall' = [selfCall EXCEPT
               ![t] = [at |-> "charge", time |-> c.time, delta |-> c.delta + c.time - lastTime]]
          /\ UNCHANGED <<lastTime, timeUsed>>
      BY <2>2 DEF SelfDelta, SelfStep
    <3>2. /\ d = [at |-> "charge", time |-> c.time, delta |-> c.delta + c.time - lastTime]
          /\ d \in CallType /\ d.at = "charge" /\ d.time = c.time
          /\ d.delta = c.delta + c.time - lastTime
          /\ selfCall' \in [Thread -> CallType] /\ \A u \in Thread \ {t} : selfCall'[u] = selfCall[u]
      <4> DEFINE e == [at |-> "charge", time |-> c.time, delta |-> c.delta + c.time - lastTime]
      <4>1. /\ e \in CallType /\ e.at = "charge" /\ e.time = c.time
            /\ e.delta = c.delta + c.time - lastTime
        BY <1>1, <1>2 DEF CallType
      <4>2. selfCall' = [selfCall EXCEPT ![t] = e] /\ selfCall \in [Thread -> CallType]
        BY <1>1, <3>1 DEF TimesTyped
      <4> HIDE DEF e
      <4>3. /\ d = e /\ selfCall' \in [Thread -> CallType]
            /\ \A u \in Thread \ {t} : selfCall'[u] = selfCall[u]
        BY <4>1, <4>2
      <4> QED
        BY <4>1, <4>3 DEF e
    <3> QED
      BY <1>1, <1>2, <2>0, <3>1, <3>2 DEF OpenCharge
  <2>3. CASE SelfCharge(t)
    <3>1. /\ c.at = "charge" /\ selfCall' = [selfCall EXCEPT ![t] = [c EXCEPT !.at = "store"]]
          /\ timeUsed' = [timeUsed EXCEPT ![t] = timeUsed[t] + c.delta] /\ lastTime' = lastTime
      BY <2>3 DEF SelfCharge, SelfStep
    <3>2. /\ d = [c EXCEPT !.at = "store"]
          /\ d \in CallType /\ d.at = "store" /\ d.time = c.time
          /\ selfCall' \in [Thread -> CallType] /\ \A u \in Thread \ {t} : selfCall'[u] = selfCall[u]
      BY <1>1, <1>2, <3>1 DEF TimesTyped, CallType
    <3>3. /\ timeUsed' \in [Thread -> Int] /\ timeUsed'[t] = timeUsed[t] + c.delta
          /\ \A u \in Thread \ {t} : timeUsed'[u] = timeUsed[u]
      BY <1>2, <3>1
    <3> QED
      BY <1>1, <1>2, <2>0, <3>1, <3>2, <3>3 DEF OpenCharge
  <2>4. CASE SelfStore(t)
    <3>1. /\ c.at = "store" /\ selfCall' = [selfCall EXCEPT ![t] = NotInCall]
          /\ timeUsed' = timeUsed /\ lastTime' = c.time
      BY <2>4 DEF SelfStore, SelfStep
    <3>2. /\ d = NotInCall /\ d \in CallType /\ d.at = "out"
          /\ selfCall' \in [Thread -> CallType] /\ \A u \in Thread \ {t} : selfCall'[u] = selfCall[u]
      BY <1>1, <1>2, <3>1 DEF TimesTyped, CallType, NotInCall
    <3> QED
      BY <1>1, <1>2, <2>0, <3>1, <3>2 DEF OpenCharge
  <2> QED
    BY <2>1, <2>2, <2>3, <2>4
<1>4. TimesTyped'
  BY <1>1, <1>3 DEF TimesTyped
<1>5. Charged'
  BY <1>1, <1>3 DEF Charged, OffCpu
<1> QED
  BY <1>4, <1>5 DEF TimeInv

(* Every task is charged what it ran, through any order of switches, idling  *)
(* with its four readings of the clock, and calls of tasks_get_self_time that *)
(* no switch falls into.                                                    *)
THEOREM AccountsStayBalanced == CpuTimeSpec => []AccountsBalance
<1>1. TimeInv /\ [CpuTimeNext]_timeVars => TimeInv'
  <2> SUFFICES ASSUME TimeInv, [CpuTimeNext]_timeVars PROVE TimeInv'
    OBVIOUS
  <2>1. CASE CpuTimeNext
    BY <2>1, ElapsesKeepsTime, StartIdlingKeepsTime, SwitchThreadKeepsTime, StopIdlingKeepsTime,
       IdleReadingsKeepTime, SelfTimeKeepsTime DEF CpuTimeNext
  <2>2. CASE UNCHANGED timeVars
    BY <2>2 DEF timeVars, TimeInv, TimesTyped, Charged, OpenCharge, OffCpu
  <2> QED
    BY <2>1, <2>2
<1>2. TimeInv => AccountsBalance
  <2> SUFFICES ASSUME TimeInv, ~raced, NEW t \in Thread, onCpu = t => selfCall[t].at # "store"
               PROVE  timeUsed[t] + (IF onCpu = t THEN nanos - lastTime ELSE 0) = ran[t]
    BY DEF AccountsBalance
  <2>1. /\ timeUsed[t] \in Int /\ nanos \in Int /\ lastTime \in Int
        /\ IF onCpu = t THEN OpenCharge(t) ELSE OffCpu(t)
    BY DEF TimeInv, TimesTyped, Charged
  <2> QED
    BY <2>1 DEF OpenCharge, OffCpu
<1> QED
  BY <1>1, <1>2, TimeInit, PTL DEF CpuTimeSpec

(***************************************************************************)
(* LinkedList.  The walks say where the pointers of listed nodes lead; the *)
(* steps also need that no node is listed twice, and that a node handed    *)
(* back by Remove is not listed any more.                                  *)
(***************************************************************************)
Once(s) == \A i, j \in 1..Len(s) : s[i] = s[j] => i = j

(* The pointers of the nodes of s, in both directions.                       *)
ForwardOf(s, nx) == \A i \in 1..Len(s) : nx[s[i]] = IF i = Len(s) THEN NullNode ELSE s[i + 1]
BackwardOf(s, pv) == \A i \in 1..Len(s) : pv[s[i]] = IF i = 1 THEN NullNode ELSE s[i - 1]

ListTyped ==
  /\ order \in Seq(Node) /\ Once(order)
  /\ next \in [Node -> Node \cup {NullNode}] /\ prev \in [Node -> Node \cup {NullNode}]

NoneReached == removed \cap Listed = {}

ListInv == ListTyped /\ NoneReached /\ BothWalksAgree

LEMMA InsertAtIs ==
  ASSUME NEW S, NEW s \in Seq(S), NEW p \in 1..(Len(s) + 1), NEW e \in S
  PROVE  /\ LX!InsertAt(s, p, e) \in Seq(S) /\ Len(LX!InsertAt(s, p, e)) = Len(s) + 1
         /\ \A i \in 1..(Len(s) + 1) :
              LX!InsertAt(s, p, e)[i] = IF i < p THEN s[i] ELSE IF i = p THEN e ELSE s[i - 1]
<1> DEFINE a == SubSeq(s, 1, p - 1)  b == SubSeq(s, p, Len(s))  c == a \o <<e>>
<1>1. /\ a \in Seq(S) /\ Len(a) = p - 1 /\ \A i \in 1..(p - 1) : a[i] = s[i]
  OBVIOUS
<1>2. b \in Seq(S) /\ Len(b) = Len(s) - p + 1 /\ \A i \in 1..(Len(s) - p + 1) : b[i] = s[p + i - 1]
  OBVIOUS
<1>3. <<e>> \in Seq(S) /\ Len(<<e>>) = 1 /\ <<e>>[1] = e
  OBVIOUS
<1> HIDE DEF a, b
<1>4. c \in Seq(S) /\ Len(c) = p /\ \A i \in 1..p : c[i] = IF i < p THEN s[i] ELSE e
  BY <1>1, <1>3
<1> HIDE DEF c
<1>5. LX!InsertAt(s, p, e) = c \o b
  BY DEF LX!InsertAt, a, b, c
<1>6. (c \o b) \in Seq(S) /\ Len(c \o b) = Len(s) + 1
  <2>1. (c \o b) \in Seq(S) /\ Len(c \o b) = Len(c) + Len(b)
    BY <1>2, <1>4, ConcatProperties
  <2> QED
    BY <1>2, <1>4, <2>1
<1>7. ASSUME NEW i \in 1..(Len(s) + 1)
      PROVE  (c \o b)[i] = IF i < p THEN s[i] ELSE IF i = p THEN e ELSE s[i - 1]
  <2>1. (c \o b)[i] = IF i <= p THEN c[i] ELSE b[i - p]
    BY <1>2, <1>4
  <2>2. CASE i <= p
    BY <1>4, <2>1, <2>2
  <2>3. CASE i > p
    <3>1. i - p \in 1..(Len(s) - p + 1) /\ p + (i - p) - 1 = i - 1
      BY <2>3
    <3>2. b[i - p] = s[p + (i - p) - 1]
      BY <1>2, <3>1
    <3> QED
      BY <2>1, <2>3, <3>1, <3>2
  <2>4. i <= p \/ i > p
    OBVIOUS
  <2> QED
    BY <2>2, <2>3, <2>4, Zenon
<1> QED
  BY <1>5, <1>6, <1>7

LEMMA RemoveAtIs ==
  ASSUME NEW S, NEW s \in Seq(S), NEW p \in 1..Len(s)
  PROVE  /\ LX!RemoveAt(s, p) \in Seq(S) /\ Len(LX!RemoveAt(s, p)) = Len(s) - 1
         /\ \A i \in 1..(Len(s) - 1) : LX!RemoveAt(s, p)[i] = IF i < p THEN s[i] ELSE s[i + 1]
<1> DEFINE a == SubSeq(s, 1, p - 1)  b == SubSeq(s, p + 1, Len(s))
<1>1. /\ a \in Seq(S) /\ Len(a) = p - 1 /\ \A i \in 1..(p - 1) : a[i] = s[i]
  OBVIOUS
<1>2. b \in Seq(S) /\ Len(b) = Len(s) - p /\ \A i \in 1..(Len(s) - p) : b[i] = s[p + i]
  OBVIOUS
<1> HIDE DEF a, b
<1>3. LX!RemoveAt(s, p) = a \o b
  BY DEF LX!RemoveAt, a, b
<1>4. (a \o b) \in Seq(S) /\ Len(a \o b) = Len(s) - 1
  <2>1. (a \o b) \in Seq(S) /\ Len(a \o b) = Len(a) + Len(b)
    BY <1>1, <1>2, ConcatProperties
  <2> QED
    BY <1>1, <1>2, <2>1
<1>5. ASSUME NEW i \in 1..(Len(s) - 1)
      PROVE  (a \o b)[i] = IF i < p THEN s[i] ELSE s[i + 1]
  <2>1. (a \o b)[i] = IF i <= p - 1 THEN a[i] ELSE b[i - (p - 1)]
    BY <1>1, <1>2
  <2>2. i >= p => i - (p - 1) \in 1..(Len(s) - p) /\ p + (i - (p - 1)) = i + 1
    OBVIOUS
  <2> QED
    BY <1>1, <1>2, <2>1, <2>2
<1> QED
  BY <1>3, <1>4, <1>5

(* A fresh node linked between place p - 1 and place p of a list: nx and pv   *)
(* are the pointers before, mx and mv those after.                          *)
LinksIn(s, p, new, nx, pv, mx, mv) ==
  /\ ForwardOf(s, nx) /\ BackwardOf(s, pv)
  /\ mx[new] = (IF p = Len(s) + 1 THEN NullNode ELSE s[p])
  /\ mv[new] = (IF p = 1 THEN NullNode ELSE s[p - 1])
  /\ \A i \in 1..Len(s) : s[i] # new
  /\ \A i \in 1..Len(s) : mx[s[i]] = IF i = p - 1 THEN new ELSE nx[s[i]]
  /\ \A i \in 1..Len(s) : mv[s[i]] = IF i = p THEN new ELSE pv[s[i]]

LEMMA LinkIn ==
  ASSUME NEW s \in Seq(Node), Once(s), NEW p \in 1..(Len(s) + 1), NEW new \in Node,
         NEW nx, NEW pv, NEW mx, NEW mv, LinksIn(s, p, new, nx, pv, mx, mv)
  PROVE  /\ LX!InsertAt(s, p, new) \in Seq(Node) /\ Len(LX!InsertAt(s, p, new)) = Len(s) + 1
         /\ Once(LX!InsertAt(s, p, new))
         /\ ForwardOf(LX!InsertAt(s, p, new), mx) /\ BackwardOf(LX!InsertAt(s, p, new), mv)
         /\ LX!InsertAt(s, p, new)[1] = (IF p = 1 THEN new ELSE s[1])
         /\ LX!InsertAt(s, p, new)[Len(s) + 1] = (IF p = Len(s) + 1 THEN new ELSE s[Len(s)])
         /\ LX!ToSet(LX!InsertAt(s, p, new)) = LX!ToSet(s) \cup {new}
<1> DEFINE r == LX!InsertAt(s, p, new)
<1> /\ ForwardOf(s, nx) /\ BackwardOf(s, pv)
    /\ mx[new] = (IF p = Len(s) + 1 THEN NullNode ELSE s[p])
    /\ mv[new] = (IF p = 1 THEN NullNode ELSE s[p - 1])
  BY DEF LinksIn
<1> \A i \in 1..Len(s) : s[i] # new
  BY DEF LinksIn
<1> \A i \in 1..Len(s) : mx[s[i]] = IF i = p - 1 THEN new ELSE nx[s[i]]
  BY DEF LinksIn
<1> \A i \in 1..Len(s) : mv[s[i]] = IF i = p THEN new ELSE pv[s[i]]
  BY DEF LinksIn
<1>0. Len(s) \in Nat /\ p \in Nat
  OBVIOUS
<1>1. /\ r \in Seq(Node) /\ Len(r) = Len(s) + 1
      /\ \A i \in 1..(Len(s) + 1) : r[i] = IF i < p THEN s[i] ELSE IF i = p THEN new ELSE s[i - 1]
  BY InsertAtIs
<1> HIDE DEF r
<1>2. Once(r)
  <2> SUFFICES ASSUME NEW i \in 1..Len(r), NEW j \in 1..Len(r), r[i] = r[j] PROVE i = j
    BY DEF Once
  <2>1. /\ i < p => i \in 1..Len(s) /\ r[i] = s[i]
        /\ i > p => i - 1 \in 1..Len(s) /\ r[i] = s[i - 1]
        /\ i = p => r[i] = new
    BY <1>0, <1>1
  <2>2. /\ j < p => j \in 1..Len(s) /\ r[j] = s[j]
        /\ j > p => j - 1 \in 1..Len(s) /\ r[j] = s[j - 1]
        /\ j = p => r[j] = new
    BY <1>0, <1>1
  <2> QED
    <3>1. CASE i = p \/ j = p
      BY <1>0, <1>1, <2>1, <2>2, <3>1
    <3>2. CASE i < p /\ j < p
      BY <2>1, <2>2, <3>2 DEF Once
    <3>3. CASE i > p /\ j > p
      <4>1. i - 1 = j - 1
        BY <2>1, <2>2, <3>3 DEF Once
      <4> QED
        BY <1>0, <1>1, <4>1
    <3>4. CASE i < p /\ j > p
      <4>1. i = j - 1
        BY <2>1, <2>2, <3>4 DEF Once
      <4> QED
        BY <1>0, <1>1, <3>4, <4>1
    <3>5. CASE i > p /\ j < p
      <4>1. i - 1 = j
        BY <2>1, <2>2, <3>5 DEF Once
      <4> QED
        BY <1>0, <1>1, <3>5, <4>1
    <3> QED
      BY <1>0, <1>1, <3>1, <3>2, <3>3, <3>4, <3>5
<1>3. ForwardOf(r, mx)
  <2> SUFFICES ASSUME NEW i \in 1..Len(r)
               PROVE  mx[r[i]] = IF i = Len(r) THEN NullNode ELSE r[i + 1]
    BY DEF ForwardOf
  <2>1. CASE i < p - 1
    <3>1. i \in 1..Len(s) /\ i + 1 \in 1..Len(s) /\ r[i] = s[i] /\ r[i + 1] = s[i + 1] /\ i # Len(r)
      BY <1>0, <1>1, <2>1
    <3>2. mx[s[i]] = s[i + 1]
      BY <1>0, <2>1, <3>1 DEF ForwardOf
    <3> QED
      BY <3>1, <3>2
  <2>2. CASE i = p - 1
    <3>1. i \in 1..Len(s) /\ r[i] = s[i] /\ r[i + 1] = new /\ i # Len(r)
      BY <1>0, <1>1, <2>2
    <3> QED
      BY <2>2, <3>1
  <2>3. CASE i = p
    <3>1. r[i] = new /\ (i # Len(r) => r[i + 1] = s[i]) /\ (i = Len(r) <=> p = Len(s) + 1)
      BY <1>0, <1>1, <2>3
    <3> QED
      BY <2>3, <3>1
  <2>4. CASE i > p
    <3>a. i \in 1..(Len(s) + 1) /\ Len(r) = Len(s) + 1
      BY <1>1
    <3>b. i - 1 \in 1..Len(s) /\ (i = Len(r) <=> i - 1 = Len(s)) /\ ~(i < p) /\ i # p
      BY <1>0, <2>4, <3>a
    <3>0. i - 1 \in 1..Len(s) /\ r[i] = s[i - 1] /\ (i = Len(r) <=> i - 1 = Len(s))
      BY <1>1, <3>a, <3>b
    <3>1. i # Len(r) => r[i + 1] = s[i]
      <4>1. i # Len(r) => i + 1 \in 1..(Len(s) + 1) /\ i + 1 > p /\ (i + 1) - 1 = i
        <5> DEFINE n == Len(s)  m == Len(r)
        <5>1. n \in Nat /\ p \in Nat /\ m = n + 1 /\ i \in 1..m /\ i > p
          BY <1>0, <1>1, <2>4
        <5> HIDE DEF n, m
        <5>2. i # m => i + 1 \in 1..(n + 1) /\ i + 1 > p /\ (i + 1) - 1 = i
          BY <5>1
        <5> QED
          BY <5>2 DEF n, m
      <4> QED
        BY <1>1, <4>1
    <3>2. mx[s[i - 1]] = nx[s[i - 1]] /\ (i - 1) + 1 = i
      BY <1>0, <2>4, <3>0
    <3>3. nx[s[i - 1]] = IF i - 1 = Len(s) THEN NullNode ELSE s[(i - 1) + 1]
      BY <3>0 DEF ForwardOf
    <3>4. CASE i = Len(r)
      BY <3>0, <3>2, <3>3, <3>4
    <3>5. CASE i # Len(r)
      BY <3>0, <3>1, <3>2, <3>3, <3>5
    <3> QED
      BY <3>4, <3>5
  <2> QED
    BY <1>0, <1>1, <2>1, <2>2, <2>3, <2>4
<1>4. BackwardOf(r, mv)
  <2> SUFFICES ASSUME NEW i \in 1..Len(r)
               PROVE  mv[r[i]] = IF i = 1 THEN NullNode ELSE r[i - 1]
    BY DEF BackwardOf
  <2>1. CASE i < p
    <3>1. i \in 1..Len(s) /\ r[i] = s[i] /\ (i # 1 => r[i - 1] = s[i - 1])
      BY <1>0, <1>1, <2>1
    <3>2. mv[s[i]] = pv[s[i]]
      <4>1. i # p
        BY <1>0, <2>1, <3>1
      <4> QED
        BY <3>1, <4>1
    <3> QED
      BY <3>1, <3>2 DEF BackwardOf
  <2>2. CASE i = p
    <3>1. r[i] = new /\ (i # 1 => r[i - 1] = s[i - 1])
      BY <1>0, <1>1, <2>2
    <3> QED
      BY <2>2, <3>1
  <2>3. CASE i = p + 1
    <3>1. i - 1 \in 1..Len(s) /\ r[i] = s[i - 1] /\ r[i - 1] = new /\ i # 1 /\ i - 1 = p
      BY <1>0, <1>1, <2>3
    <3> QED
      BY <3>1
  <2>4. CASE i > p + 1
    <3>1. /\ i - 1 \in 1..Len(s) /\ r[i] = s[i - 1] /\ r[i - 1] = s[(i - 1) - 1] /\ i # 1
          /\ i - 1 # 1 /\ i - 1 # p
      BY <1>0, <1>1, <2>4
    <3>2. mv[s[i - 1]] = pv[s[i - 1]]
      BY <3>1
    <3> QED
      BY <3>1, <3>2 DEF BackwardOf
  <2> QED
    BY <1>0, <1>1, <2>1, <2>2, <2>3, <2>4
<1>5. LX!ToSet(r) = LX!ToSet(s) \cup {new}
  <2>1. DOMAIN r = 1..(Len(s) + 1) /\ DOMAIN s = 1..Len(s)
    BY <1>1
  <2>2. r[p] = new
    BY <1>0, <1>1
  <2>3. \A i \in 1..Len(s) : (i < p => r[i] = s[i] /\ i \in DOMAIN r)
                             /\ (i >= p => r[i + 1] = s[i] /\ i + 1 \in DOMAIN r)
    BY <1>0, <1>1, <2>1
  <2>4. \A i \in 1..(Len(s) + 1) : (i < p => r[i] = s[i] /\ i \in DOMAIN s)
                             /\ (i > p => r[i] = s[i - 1] /\ i - 1 \in DOMAIN s)
    BY <1>0, <1>1, <2>1
  <2>5. ASSUME NEW i \in DOMAIN s
        PROVE  s[i] \in {r[j] : j \in DOMAIN r}
    <3> HIDE DEF r
    <3>1. CASE i < p
      BY <2>1, <2>3, <3>1
    <3>2. CASE i >= p
      BY <2>1, <2>3, <3>2
    <3> QED BY <1>0, <2>1, <3>1, <3>2
  <2>6. ASSUME NEW j \in DOMAIN r
        PROVE  r[j] \in {s[i] : i \in DOMAIN s} \cup {new}
    <3> HIDE DEF r
    <3>1. CASE j < p
      BY <2>1, <2>4, <3>1
    <3>2. CASE j = p
      BY <2>2, <3>2
    <3>3. CASE j > p
      BY <2>1, <2>4, <3>3
    <3> QED BY <1>0, <2>1, <3>1, <3>2, <3>3
  <2> QED
    BY <1>0, <2>1, <2>2, <2>5, <2>6 DEF LX!ToSet
<1> QED
  BY <1>0, <1>1, <1>2, <1>3, <1>4, <1>5 DEF r

(* A node taken out at place p: its neighbours are linked to each other.      *)
LinksOut(s, p, nx, pv, mx, mv) ==
  /\ ForwardOf(s, nx) /\ BackwardOf(s, pv)
  /\ \A i \in 1..Len(s) : mx[s[i]] = IF i = p - 1 THEN nx[s[p]] ELSE nx[s[i]]
  /\ \A i \in 1..Len(s) : mv[s[i]] = IF i = p + 1 THEN pv[s[p]] ELSE pv[s[i]]

LEMMA LinkOut ==
  ASSUME NEW s \in Seq(Node), Once(s), NEW p \in 1..Len(s),
         NEW nx, NEW pv, NEW mx, NEW mv, LinksOut(s, p, nx, pv, mx, mv)
  PROVE  /\ LX!RemoveAt(s, p) \in Seq(Node) /\ Len(LX!RemoveAt(s, p)) = Len(s) - 1
         /\ Once(LX!RemoveAt(s, p))
         /\ ForwardOf(LX!RemoveAt(s, p), mx) /\ BackwardOf(LX!RemoveAt(s, p), mv)
         /\ Len(s) > 1 => /\ LX!RemoveAt(s, p)[1] = (IF p = 1 THEN s[2] ELSE s[1])
                          /\ LX!RemoveAt(s, p)[Len(s) - 1] = (IF p = Len(s) THEN s[p - 1] ELSE s[Len(s)])
         /\ LX!ToSet(LX!RemoveAt(s, p)) = LX!ToSet(s) \ {s[p]}
<1> DEFINE r == LX!RemoveAt(s, p)
<1> ForwardOf(s, nx) /\ BackwardOf(s, pv)
  BY DEF LinksOut
<1> \A i \in 1..Len(s) : mx[s[i]] = IF i = p - 1 THEN nx[s[p]] ELSE nx[s[i]]
  BY DEF LinksOut
<1> \A i \in 1..Len(s) : mv[s[i]] = IF i = p + 1 THEN pv[s[p]] ELSE pv[s[i]]
  BY DEF LinksOut
<1>0. Len(s) \in Nat /\ p \in Nat /\ p >= 1 /\ p <= Len(s)
  OBVIOUS
<1>1. /\ r \in Seq(Node) /\ Len(r) = Len(s) - 1
      /\ \A i \in 1..(Len(s) - 1) : r[i] = IF i < p THEN s[i] ELSE s[i + 1]
  BY RemoveAtIs
<1> HIDE DEF r
<1>2. \A i \in 1..(Len(s) - 1) : /\ i < p => i \in 1..Len(s) /\ r[i] = s[i]
                                 /\ i >= p => i + 1 \in 1..Len(s) /\ r[i] = s[i + 1]
  BY <1>0, <1>1
<1>3. Once(r)
  <2> SUFFICES ASSUME NEW i \in 1..(Len(s) - 1), NEW j \in 1..(Len(s) - 1), r[i] = r[j] PROVE i = j
    BY <1>1 DEF Once
  <2>1. CASE i < p /\ j < p
    <3>1. i \in 1..Len(s) /\ j \in 1..Len(s) /\ r[i] = s[i] /\ r[j] = s[j]
      BY <1>2, <2>1
    <3>2. s[i] = s[j]
      BY <3>1
    <3> QED
      BY <3>1, <3>2 DEF Once
  <2>2. CASE i >= p /\ j >= p
    <3>1. i + 1 \in 1..Len(s) /\ j + 1 \in 1..Len(s) /\ r[i] = s[i + 1] /\ r[j] = s[j + 1]
      BY <1>2, <2>2
    <3>2. s[i + 1] = s[j + 1]
      BY <3>1
    <3>3. i + 1 = j + 1
      BY <3>1, <3>2 DEF Once
    <3> QED
      BY <3>3
  <2>3. CASE i < p /\ j >= p
    <3>1. i \in 1..Len(s) /\ j + 1 \in 1..Len(s) /\ s[i] = s[j + 1]
      <4>1. j + 1 \in 1..Len(s) /\ r[j] = s[j + 1]
        BY <1>2, <2>3
      <4>2. i \in 1..Len(s) /\ r[i] = s[i]
        BY <1>2, <2>3
      <4> QED
        BY <4>1, <4>2
    <3>2. i = j + 1
      BY <3>1 DEF Once
    <3> QED
      BY <1>0, <2>3, <3>2
  <2>4. CASE i >= p /\ j < p
    <3>1. i + 1 \in 1..Len(s) /\ j \in 1..Len(s) /\ s[i + 1] = s[j]
      <4>1. i + 1 \in 1..Len(s) /\ r[i] = s[i + 1]
        BY <1>2, <2>4
      <4>2. j \in 1..Len(s) /\ r[j] = s[j]
        BY <1>2, <2>4
      <4> QED
        BY <4>1, <4>2
    <3>2. i + 1 = j
      BY <3>1 DEF Once
    <3> QED
      BY <1>0, <2>4, <3>2
  <2> QED
    BY <1>0, <2>1, <2>2, <2>3, <2>4
<1>4. ForwardOf(r, mx)
  <2> SUFFICES ASSUME NEW i \in 1..(Len(s) - 1)
               PROVE  mx[r[i]] = IF i = Len(s) - 1 THEN NullNode ELSE r[i + 1]
    BY <1>1 DEF ForwardOf
  <2>1. i # Len(s) - 1 => i + 1 \in 1..(Len(s) - 1)
    BY <1>0
  <2>2. CASE i < p - 1
    <3>1. i \in 1..Len(s) /\ i + 1 < p /\ i < p /\ i # Len(s) /\ i # Len(s) - 1
      BY <1>0, <2>2
    <3>2. mx[s[i]] = s[i + 1]
      <4>1. mx[s[i]] = nx[s[i]]
        BY <2>2, <3>1
      <4>2. nx[s[i]] = s[i + 1]
        BY <3>1 DEF ForwardOf
      <4> QED
        BY <4>1, <4>2
    <3> QED
      BY <1>2, <2>1, <3>1, <3>2
  <2>3. CASE i = p - 1
    <3>1. i \in 1..Len(s) /\ i < p /\ i + 1 = p /\ (i = Len(s) - 1 <=> p = Len(s))
      BY <1>0, <2>3
    <3>2. r[i] = s[i] /\ mx[s[i]] = nx[s[p]]
      BY <1>2, <2>3, <3>1
    <3>3. i # Len(s) - 1 => r[i + 1] = s[p + 1]
      BY <1>2, <2>1, <3>1
    <3> QED
      BY <3>1, <3>2, <3>3 DEF ForwardOf
  <2>4. CASE i >= p
    <3>1. i + 1 \in 1..Len(s) /\ i + 1 # p - 1 /\ (i = Len(s) - 1 <=> i + 1 = Len(s)) /\ i + 1 >= p
      BY <1>0, <2>4
    <3>2. r[i] = s[i + 1] /\ mx[s[i + 1]] = nx[s[i + 1]]
      BY <1>2, <2>4, <3>1
    <3>3. i # Len(s) - 1 => r[i + 1] = s[(i + 1) + 1]
      BY <1>2, <2>1, <3>1
    <3> QED
      BY <3>1, <3>2, <3>3 DEF ForwardOf
  <2> QED
    BY <1>0, <2>2, <2>3, <2>4
<1>5. BackwardOf(r, mv)
  <2> SUFFICES ASSUME NEW i \in 1..(Len(s) - 1)
               PROVE  mv[r[i]] = IF i = 1 THEN NullNode ELSE r[i - 1]
    BY <1>1 DEF BackwardOf
  <2>1. i # 1 => i - 1 \in 1..(Len(s) - 1)
    BY <1>0
  <2>2. CASE i < p
    <3>1. i \in 1..Len(s) /\ i # p + 1 /\ (i # 1 => i - 1 < p)
      BY <1>0, <2>2
    <3>2. r[i] = s[i] /\ mv[s[i]] = pv[s[i]]
      BY <1>2, <2>2, <3>1
    <3>3. i # 1 => r[i - 1] = s[i - 1]
      BY <1>2, <2>1, <3>1
    <3> QED
      BY <3>1, <3>2, <3>3 DEF BackwardOf
  <2>3. CASE i = p
    <3>1. i + 1 \in 1..Len(s) /\ i + 1 = p + 1 /\ (i # 1 => i - 1 < p)
      BY <1>0, <2>3
    <3>2. r[i] = s[i + 1] /\ mv[s[i + 1]] = pv[s[p]]
      BY <1>2, <2>3, <3>1
    <3>3. i # 1 => r[i - 1] = s[i - 1]
      BY <1>2, <2>1, <3>1
    <3> QED
      BY <2>3, <3>1, <3>2, <3>3 DEF BackwardOf
  <2>4. CASE i > p
    <3>1. i + 1 \in 1..Len(s) /\ i + 1 # p + 1 /\ i # 1 /\ i - 1 >= p /\ (i - 1) + 1 = i /\ (i + 1) - 1 = i
          /\ i + 1 # 1
      BY <1>0, <2>4
    <3>2. r[i] = s[i + 1] /\ mv[s[i + 1]] = pv[s[i + 1]]
      BY <1>0, <1>2, <2>4, <3>1
    <3>3. r[i - 1] = s[i]
      BY <1>2, <2>1, <3>1
    <3> QED
      BY <3>1, <3>2, <3>3 DEF BackwardOf
  <2> QED
    BY <1>0, <2>2, <2>3, <2>4
<1>6. LX!ToSet(r) = LX!ToSet(s) \ {s[p]}
  <2>1. DOMAIN r = 1..(Len(s) - 1) /\ DOMAIN s = 1..Len(s)
    BY <1>1
  <2>2. \A j \in DOMAIN r : r[j] \in {s[i] : i \in DOMAIN s} /\ r[j] # s[p]
    <3> SUFFICES ASSUME NEW j \in 1..(Len(s) - 1)
                 PROVE  \E i \in 1..Len(s) : i # p /\ r[j] = s[i]
      BY <1>0, <2>1 DEF Once
    <3>1. CASE j < p
      BY <1>0, <1>2, <3>1
    <3>2. CASE j >= p
      <4>1. j + 1 \in 1..Len(s) /\ j + 1 # p /\ r[j] = s[j + 1]
        BY <1>0, <1>2, <3>2
      <4> QED
        BY <4>1
    <3> QED
      BY <1>0, <3>1, <3>2
  <2>3. \A i \in 1..Len(s) : i # p => s[i] \in {r[j] : j \in DOMAIN r}
    <3> SUFFICES ASSUME NEW i \in 1..Len(s), i # p
                 PROVE  \E j \in 1..(Len(s) - 1) : r[j] = s[i]
      BY <2>1
    <3>1. CASE i < p
      BY <1>0, <1>2, <3>1
    <3>2. CASE i > p
      <4>1. i - 1 \in 1..(Len(s) - 1) /\ i - 1 >= p /\ (i - 1) + 1 = i
        BY <1>0, <3>2
      <4>2. r[i - 1] = s[i]
        BY <1>2, <4>1
      <4> QED
        BY <4>1, <4>2
    <3> QED
      BY <1>0, <3>1, <3>2
  <2> QED
    BY <2>1, <2>2, <2>3 DEF LX!ToSet
<1>7. Len(s) > 1 => /\ r[1] = (IF p = 1 THEN s[2] ELSE s[1])
                    /\ r[Len(s) - 1] = (IF p = Len(s) THEN s[p - 1] ELSE s[Len(s)])
  <2> SUFFICES ASSUME Len(s) > 1
               PROVE  /\ r[1] = (IF p = 1 THEN s[2] ELSE s[1])
                      /\ r[Len(s) - 1] = (IF p = Len(s) THEN s[p - 1] ELSE s[Len(s)])
    OBVIOUS
  <2>1. 1 \in 1..(Len(s) - 1) /\ Len(s) - 1 \in 1..(Len(s) - 1) /\ (Len(s) - 1) + 1 = Len(s)
        /\ (Len(s) - 1 < p <=> p = Len(s)) /\ (1 < p <=> p # 1)
    BY <1>0
  <2> QED
    BY <1>0, <1>1, <2>1
<1> QED
  BY <1>1, <1>3, <1>4, <1>5, <1>6, <1>7 DEF r

(* What the invariant says of the pointers, in the terms of the lemmas.      *)
LEMMA WalksOf ==
  /\ BothWalksAgree <=>
       /\ count = Len(order) /\ ForwardOf(order, next) /\ BackwardOf(order, prev)
       /\ first = (IF order = <<>> THEN NullNode ELSE order[1])
       /\ last = (IF order = <<>> THEN NullNode ELSE order[Len(order)])
BY DEF BothWalksAgree, ForwardWalk, BackwardWalk, ForwardOf, BackwardOf, ListLen

LEMMA WalksOfNext ==
  /\ BothWalksAgree' <=>
       /\ count' = Len(order') /\ ForwardOf(order', next') /\ BackwardOf(order', prev')
       /\ first' = (IF order' = <<>> THEN NullNode ELSE order'[1])
       /\ last' = (IF order' = <<>> THEN NullNode ELSE order'[Len(order')])
BY DEF BothWalksAgree, ForwardWalk, BackwardWalk, ForwardOf, BackwardOf, ListLen

(* The place of a node of the list.                                         *)
LEMMA PositionIs ==
  ASSUME order \in Seq(Node), NEW n \in Listed
  PROVE  n \in Node /\ Position(n) \in 1..Len(order) /\ order[Position(n)] = n
<1>1. \E i \in DOMAIN order : order[i] = n
  BY DEF Listed, LX!ToSet
<1>2. Position(n) \in DOMAIN order /\ order[Position(n)] = n
  BY <1>1 DEF Position
<1> QED
  BY <1>2

(* Every insertion, seen from the place where the node goes.                 *)
LEMMA InsertedAt ==
  ASSUME ListInv, NEW new \in Fresh, NEW p \in 1..(Len(order) + 1),
         next' \in [Node -> Node \cup {NullNode}], prev' \in [Node -> Node \cup {NullNode}],
         LinksIn(order, p, new, next, prev, next', prev'),
         order' = LX!InsertAt(order, p, new), count' = count + 1, removed' = removed,
         first' = (IF p = 1 THEN new ELSE first),
         last' = (IF p = Len(order) + 1 THEN new ELSE last)
  PROVE  ListInv'
<1>1. /\ order \in Seq(Node) /\ Once(order) /\ removed \cap Listed = {}
      /\ next \in [Node -> Node \cup {NullNode}] /\ prev \in [Node -> Node \cup {NullNode}]
  BY DEF ListInv, ListTyped, NoneReached
<1>2. /\ count = Len(order) /\ ForwardOf(order, next) /\ BackwardOf(order, prev)
      /\ first = (IF order = <<>> THEN NullNode ELSE order[1])
      /\ last = (IF order = <<>> THEN NullNode ELSE order[Len(order)])
  BY WalksOf DEF ListInv
<1>3. new \in Node /\ new \notin Listed /\ new \notin removed
  BY DEF Fresh
<1>5. /\ order' \in Seq(Node) /\ Len(order') = Len(order) + 1 /\ Once(order')
      /\ ForwardOf(order', next') /\ BackwardOf(order', prev')
      /\ order'[1] = (IF p = 1 THEN new ELSE order[1])
      /\ order'[Len(order) + 1] = (IF p = Len(order) + 1 THEN new ELSE order[Len(order)])
      /\ LX!ToSet(order') = LX!ToSet(order) \cup {new}
  BY <1>1, <1>3, LinkIn
<1>6. order' # <<>> /\ (p # 1 => order # <<>>) /\ (p # Len(order) + 1 => order # <<>>)
  <2>1. Len(order') # 0 /\ Len(order) \in Nat
    BY <1>1, <1>5
  <2>2. (p # 1 \/ p # Len(order) + 1) => Len(order) # 0
    BY <2>1
  <2> QED
    BY <2>1, <2>2
<1>7. BothWalksAgree'
  BY <1>2, <1>5, <1>6, WalksOfNext
<1>8. NoneReached'
  BY <1>1, <1>3, <1>5 DEF NoneReached, Listed
<1> QED
  BY <1>5, <1>7, <1>8 DEF ListInv, ListTyped

LEMMA InsertBeforeKeeps ==
  ASSUME ListInv, NEW new \in Fresh, NEW n \in Listed, InsertBefore(n, new)
  PROVE  ListInv'
<1> DEFINE p == Position(n)
<1>1. /\ order \in Seq(Node) /\ Once(order)
      /\ next \in [Node -> Node \cup {NullNode}] /\ prev \in [Node -> Node \cup {NullNode}]
  BY DEF ListInv, ListTyped
<1>2. n \in Node /\ p \in 1..Len(order) /\ order[p] = n
  BY <1>1, PositionIs
<1>3. new \in Node /\ new # n /\ \A i \in 1..Len(order) : order[i] # new /\ order[i] \in Node /\ order[i] # NullNode
  BY <1>1, NullNodeAssumption DEF Fresh, Listed, LX!ToSet
<1>4. ForwardOf(order, next) /\ BackwardOf(order, prev)
      /\ first = (IF order = <<>> THEN NullNode ELSE order[1])
  BY WalksOf DEF ListInv
<1>5. /\ next' = [m \in Node |-> IF m = new THEN n ELSE IF m = prev[n] THEN new ELSE next[m]]
      /\ prev' = [m \in Node |-> IF m = new THEN prev[n] ELSE IF m = n THEN new ELSE prev[m]]
      /\ first' = (IF prev[n] = NullNode THEN new ELSE first) /\ last' = last
      /\ count' = count + 1 /\ removed' = removed /\ order' = LX!InsertAt(order, p, new)
  BY DEF InsertBefore
<1> HIDE DEF p
<1>6. Len(order) \in Nat /\ p # Len(order) + 1 /\ p \in 1..(Len(order) + 1) /\ (p # 1 => p - 1 \in 1..Len(order))
  BY <1>1, <1>2
<1>7. prev[n] = IF p = 1 THEN NullNode ELSE order[p - 1]
  BY <1>2, <1>4 DEF BackwardOf
<1>8. /\ next' \in [Node -> Node \cup {NullNode}] /\ prev' \in [Node -> Node \cup {NullNode}]
      /\ next'[new] = order[p] /\ prev'[new] = prev[n]
  BY <1>1, <1>2, <1>3, <1>5
<1>9. \A i \in 1..Len(order) : next'[order[i]] = IF i = p - 1 THEN new ELSE next[order[i]]
  <2> SUFFICES ASSUME NEW i \in 1..Len(order) PROVE order[i] = prev[n] <=> i = p - 1
    BY <1>3, <1>5
  <2> QED
    BY <1>1, <1>3, <1>6, <1>7 DEF Once
<1>10. \A i \in 1..Len(order) : prev'[order[i]] = IF i = p THEN new ELSE prev[order[i]]
  BY <1>1, <1>2, <1>3, <1>5 DEF Once
<1>11. first' = (IF p = 1 THEN new ELSE first)
  BY <1>3, <1>5, <1>6, <1>7
<1>12. LinksIn(order, p, new, next, prev, next', prev')
  <2>1. next'[new] = (IF p = Len(order) + 1 THEN NullNode ELSE order[p])
    BY <1>6, <1>8
  <2>2. prev'[new] = (IF p = 1 THEN NullNode ELSE order[p - 1])
    BY <1>7, <1>8
  <2> QED
    BY <1>3, <1>4, <1>9, <1>10, <2>1, <2>2 DEF LinksIn
<1>13. last' = (IF p = Len(order) + 1 THEN new ELSE last)
  BY <1>5, <1>6
<1> QED
  BY <1>5, <1>6, <1>8, <1>11, <1>12, <1>13, InsertedAt

LEMMA InsertAfterKeeps ==
  ASSUME ListInv, NEW new \in Fresh, NEW n \in Listed, InsertAfter(n, new)
  PROVE  ListInv'
<1> DEFINE q == Position(n)
<1>1. /\ order \in Seq(Node) /\ Once(order)
      /\ next \in [Node -> Node \cup {NullNode}] /\ prev \in [Node -> Node \cup {NullNode}]
  BY DEF ListInv, ListTyped
<1>2. n \in Node /\ q \in 1..Len(order) /\ order[q] = n
  BY <1>1, PositionIs
<1>3. new \in Node /\ new # n /\ \A i \in 1..Len(order) : order[i] # new /\ order[i] \in Node /\ order[i] # NullNode
  BY <1>1, NullNodeAssumption DEF Fresh, Listed, LX!ToSet
<1>4. ForwardOf(order, next) /\ BackwardOf(order, prev)
  BY WalksOf DEF ListInv
<1>5. /\ prev' = [m \in Node |-> IF m = new THEN n ELSE IF m = next[n] THEN new ELSE prev[m]]
      /\ next' = [m \in Node |-> IF m = new THEN next[n] ELSE IF m = n THEN new ELSE next[m]]
      /\ last' = (IF next[n] = NullNode THEN new ELSE last) /\ first' = first
      /\ count' = count + 1 /\ removed' = removed /\ order' = LX!InsertAt(order, q + 1, new)
  BY DEF InsertAfter
<1> HIDE DEF q
<1> DEFINE p == q + 1
<1>6. Len(order) \in Nat /\ p # 1 /\ p - 1 = q /\ p \in 1..(Len(order) + 1)
      /\ (p # Len(order) + 1 => p \in 1..Len(order)) /\ (p = Len(order) + 1 <=> q = Len(order))
  BY <1>1, <1>2
<1>7. next[n] = IF p = Len(order) + 1 THEN NullNode ELSE order[p]
  BY <1>2, <1>4, <1>6 DEF ForwardOf
<1>8. /\ next' \in [Node -> Node \cup {NullNode}] /\ prev' \in [Node -> Node \cup {NullNode}]
      /\ prev'[new] = order[q] /\ next'[new] = next[n]
  BY <1>1, <1>2, <1>3, <1>5
<1>9. \A i \in 1..Len(order) : prev'[order[i]] = IF i = p THEN new ELSE prev[order[i]]
  <2> SUFFICES ASSUME NEW i \in 1..Len(order) PROVE order[i] = next[n] <=> i = p
    BY <1>3, <1>5
  <2> QED
    BY <1>1, <1>3, <1>6, <1>7 DEF Once
<1>10. \A i \in 1..Len(order) : next'[order[i]] = IF i = p - 1 THEN new ELSE next[order[i]]
  BY <1>1, <1>2, <1>3, <1>5, <1>6 DEF Once
<1>11. last' = (IF p = Len(order) + 1 THEN new ELSE last)
  BY <1>3, <1>5, <1>6, <1>7
<1>12. order' = LX!InsertAt(order, p, new) /\ first' = (IF p = 1 THEN new ELSE first)
       /\ prev'[new] = (IF p = 1 THEN NullNode ELSE order[p - 1])
  BY <1>5, <1>6, <1>8
<1> HIDE DEF p
<1>13. LinksIn(order, p, new, next, prev, next', prev')
  <2>1. next'[new] = (IF p = Len(order) + 1 THEN NullNode ELSE order[p])
    BY <1>7, <1>8
  <2> QED
    BY <1>3, <1>4, <1>9, <1>10, <1>12, <2>1 DEF LinksIn
<1> QED
  BY <1>5, <1>6, <1>8, <1>11, <1>12, <1>13, InsertedAt

(* The list is empty exactly when head is NULL, and head and tail are nodes   *)
(* of the list otherwise.                                                   *)
LEMMA EndsListed ==
  ASSUME ListInv
  PROVE  /\ first = NullNode <=> order = <<>>
         /\ last = NullNode <=> order = <<>>
         /\ first # NullNode => first \in Listed
         /\ last # NullNode => last \in Listed
<1>1. /\ order \in Seq(Node)
      /\ first = (IF order = <<>> THEN NullNode ELSE order[1])
      /\ last = (IF order = <<>> THEN NullNode ELSE order[Len(order)])
  BY WalksOf DEF ListInv, ListTyped
<1>2. order # <<>> => 1 \in DOMAIN order /\ Len(order) \in DOMAIN order
  BY <1>1
<1>3. \A i \in DOMAIN order : order[i] \in Listed /\ order[i] # NullNode
  BY <1>1, NullNodeAssumption DEF Listed, LX!ToSet
<1> QED
  BY <1>1, <1>2, <1>3

(* The neighbours of a listed node are NULL or listed.                       *)
LEMMA NeighboursListed ==
  ASSUME ListInv, NEW n \in Listed
  PROVE  /\ next[n] # NullNode => next[n] \in Listed
         /\ prev[n] # NullNode => prev[n] \in Listed
<1>1. order \in Seq(Node) /\ ForwardOf(order, next) /\ BackwardOf(order, prev)
  BY WalksOf DEF ListInv, ListTyped
<1>2. PICK i \in 1..Len(order) : n = order[i]
  BY <1>1 DEF Listed, LX!ToSet
<1>3. /\ next[n] # NullNode => i + 1 \in DOMAIN order /\ next[n] = order[i + 1]
      /\ prev[n] # NullNode => i - 1 \in DOMAIN order /\ prev[n] = order[i - 1]
  BY <1>1, <1>2 DEF ForwardOf, BackwardOf
<1> QED
  BY <1>3 DEF Listed, LX!ToSet

LEMMA InsertFirstKeeps ==
  ASSUME ListInv, NEW new \in Fresh, InsertFirst(new)
  PROVE  ListInv'
<1>1. /\ order = <<>> /\ order' = <<new>> /\ first' = new /\ last' = new
      /\ count' = count + 1 /\ removed' = removed /\ new \in Node /\ new \notin removed
  BY EndsListed DEF InsertFirst, Fresh
<1>2. count = 0
  BY <1>1, WalksOf DEF ListInv
<1>3. /\ next' \in [Node -> Node \cup {NullNode}] /\ prev' \in [Node -> Node \cup {NullNode}]
      /\ next'[new] = NullNode /\ prev'[new] = NullNode
  BY <1>1 DEF ListInv, ListTyped, InsertFirst
<1>4. order' \in Seq(Node) /\ Len(order') = 1 /\ order'[1] = new /\ order' # <<>> /\ DOMAIN order' = 1..1
  BY <1>1
<1>5. /\ Once(order') /\ ForwardOf(order', next') /\ BackwardOf(order', prev')
  BY <1>3, <1>4 DEF Once, ForwardOf, BackwardOf
<1>6. BothWalksAgree'
  BY <1>1, <1>2, <1>4, <1>5, WalksOfNext
<1>7. NoneReached'
  <2>1. LX!ToSet(order') = {new}
    BY <1>4 DEF LX!ToSet
  <2> QED
    BY <1>1, <2>1 DEF NoneReached, Listed
<1> QED
  BY <1>3, <1>4, <1>5, <1>6, <1>7 DEF ListInv, ListTyped

LEMMA RemoveKeeps ==
  ASSUME ListInv, NEW del \in Listed, Remove(del)
  PROVE  ListInv'
<1> DEFINE p == Position(del)
<1>1. /\ order \in Seq(Node) /\ Once(order) /\ removed \cap Listed = {}
      /\ next \in [Node -> Node \cup {NullNode}] /\ prev \in [Node -> Node \cup {NullNode}]
  BY DEF ListInv, ListTyped, NoneReached
<1>2. del \in Node /\ p \in 1..Len(order) /\ order[p] = del
  BY <1>1, PositionIs
<1>3. /\ count = Len(order) /\ ForwardOf(order, next) /\ BackwardOf(order, prev)
      /\ first = (IF order = <<>> THEN NullNode ELSE order[1])
      /\ last = (IF order = <<>> THEN NullNode ELSE order[Len(order)])
  BY WalksOf DEF ListInv
<1>4. /\ first' = (IF del = first THEN next[del] ELSE first)
      /\ last' = (IF del = last THEN prev[del] ELSE last)
      /\ prev' = [m \in Node |-> IF m = next[del] THEN prev[del] ELSE prev[m]]
      /\ next' = [m \in Node |-> IF m = prev[del] THEN next[del] ELSE next[m]]
      /\ count' = count - 1 /\ removed' = removed \cup {del}
      /\ order' = LX!RemoveAt(order, p)
  BY DEF Remove
<1> HIDE DEF p
<1>5. /\ Len(order) \in Nat /\ Len(order) >= 1 /\ order # <<>>
      /\ (p # 1 => p - 1 \in 1..Len(order)) /\ (p # Len(order) => p + 1 \in 1..Len(order))
      /\ 1 \in 1..Len(order) /\ Len(order) \in 1..Len(order)
  BY <1>1, <1>2
<1>6. \A i \in 1..Len(order) : order[i] \in Node /\ order[i] # NullNode
  BY <1>1, NullNodeAssumption
<1>7. /\ next[del] = (IF p = Len(order) THEN NullNode ELSE order[p + 1])
      /\ prev[del] = (IF p = 1 THEN NullNode ELSE order[p - 1])
  BY <1>2, <1>3 DEF ForwardOf, BackwardOf
<1>8. next' \in [Node -> Node \cup {NullNode}] /\ prev' \in [Node -> Node \cup {NullNode}]
  BY <1>1, <1>2, <1>4
<1>9. \A i \in 1..Len(order) : next'[order[i]] = IF i = p - 1 THEN next[order[p]] ELSE next[order[i]]
  <2> SUFFICES ASSUME NEW i \in 1..Len(order) PROVE order[i] = prev[del] <=> i = p - 1
    BY <1>2, <1>4, <1>6
  <2> QED
    BY <1>1, <1>2, <1>5, <1>6, <1>7 DEF Once
<1>10. \A i \in 1..Len(order) : prev'[order[i]] = IF i = p + 1 THEN prev[order[p]] ELSE prev[order[i]]
  <2> SUFFICES ASSUME NEW i \in 1..Len(order) PROVE order[i] = next[del] <=> i = p + 1
    BY <1>2, <1>4, <1>6
  <2> QED
    BY <1>1, <1>2, <1>5, <1>6, <1>7 DEF Once
<1>11. LinksOut(order, p, next, prev, next', prev')
  BY <1>3, <1>9, <1>10 DEF LinksOut
<1>12. /\ order' \in Seq(Node) /\ Len(order') = Len(order) - 1 /\ Once(order')
       /\ ForwardOf(order', next') /\ BackwardOf(order', prev')
       /\ Len(order) > 1 => /\ order'[1] = (IF p = 1 THEN order[2] ELSE order[1])
                            /\ order'[Len(order) - 1] = (IF p = Len(order) THEN order[p - 1]
                                                         ELSE order[Len(order)])
       /\ LX!ToSet(order') = LX!ToSet(order) \ {order[p]}
  BY <1>1, <1>2, <1>4, <1>11, LinkOut
<1>13. (del = first <=> p = 1) /\ (del = last <=> p = Len(order))
  BY <1>1, <1>2, <1>3, <1>5 DEF Once
<1>14. (order' = <<>> <=> Len(order) = 1)
  <2>1. Len(order') = 0 <=> Len(order) = 1
    BY <1>5, <1>12
  <2> QED
    BY <1>12, <2>1
<1>15. first' = (IF order' = <<>> THEN NullNode ELSE order'[1])
  BY <1>2, <1>3, <1>4, <1>5, <1>7, <1>12, <1>13, <1>14
<1>16. last' = (IF order' = <<>> THEN NullNode ELSE order'[Len(order')])
  BY <1>2, <1>3, <1>4, <1>5, <1>7, <1>12, <1>13, <1>14
<1>17. count' = Len(order')
  BY <1>3, <1>4, <1>12
<1>18. BothWalksAgree'
  BY <1>12, <1>15, <1>16, <1>17, WalksOfNext
<1>19. NoneReached'
  BY <1>1, <1>2, <1>4, <1>12 DEF NoneReached, Listed
<1> QED
  BY <1>8, <1>12, <1>18, <1>19 DEF ListInv, ListTyped

LEMMA DestroyKeeps == ListInv /\ Destroy => ListInv'
<1> SUFFICES ASSUME ListInv, Destroy PROVE ListInv'
  OBVIOUS
<1>1. /\ order' = <<>> /\ first' = NullNode /\ last' = NullNode /\ count' = 0
      /\ UNCHANGED <<next, prev, removed>>
  BY DEF Destroy
<1>2. order' \in Seq(Node) /\ Len(order') = 0 /\ DOMAIN order' = {}
  BY <1>1
<1>3. Once(order') /\ ForwardOf(order', next') /\ BackwardOf(order', prev')
  BY <1>2 DEF Once, ForwardOf, BackwardOf
<1>4. NoneReached'
  BY <1>2 DEF NoneReached, Listed, LX!ToSet
<1> QED
  BY <1>1, <1>2, <1>3, <1>4, WalksOfNext DEF ListInv, ListTyped

(***************************************************************************)
(* Through any sequence of the calls of LinkedList.hpp, for any number of   *)
(* nodes, walking next from head() and walking prev from tail() visit the   *)
(* same nodes in opposite orders, Count() is their number, and no removed   *)
(* node is met.                                                            *)
(***************************************************************************)
THEOREM WalksAlwaysAgree == ListSpec => [](BothWalksAgree /\ NoneReached)
<1>1. ListInit => ListInv
  <2> SUFFICES ASSUME ListInit PROVE ListInv
    OBVIOUS
  <2>1. /\ order = <<>> /\ first = NullNode /\ last = NullNode /\ count = 0 /\ removed = {}
        /\ next = [n \in Node |-> NullNode] /\ prev = [n \in Node |-> NullNode]
    BY DEF ListInit
  <2>2. order \in Seq(Node) /\ Len(order) = 0
    BY <2>1
  <2>3. Once(order) /\ ForwardOf(order, next) /\ BackwardOf(order, prev)
    BY <2>2 DEF Once, ForwardOf, BackwardOf
  <2>4. next \in [Node -> Node \cup {NullNode}] /\ prev \in [Node -> Node \cup {NullNode}]
    BY <2>1
  <2> QED
    BY <2>1, <2>2, <2>3, <2>4, WalksOf DEF ListInv, ListTyped, NoneReached
<1>2. ListInv /\ [ListNext]_listVars => ListInv'
  <2> SUFFICES ASSUME ListInv, [ListNext]_listVars PROVE ListInv'
    OBVIOUS
  <2>1. ASSUME NEW new \in Fresh, InsertFirst(new) PROVE ListInv'
    BY <2>1, InsertFirstKeeps
  <2>2. ASSUME NEW new \in Fresh, InsertFront(new) PROVE ListInv'
    BY <2>2, EndsListed, InsertBeforeKeeps DEF InsertFront
  <2>3. ASSUME NEW new \in Fresh, InsertBack(new) PROVE ListInv'
    BY <2>3, EndsListed, InsertAfterKeeps DEF InsertBack
  <2>4. ASSUME NEW new \in Fresh, NEW n \in Listed, InsertBefore(n, new) \/ InsertAfter(n, new)
        PROVE  ListInv'
    BY <2>4, InsertBeforeKeeps, InsertAfterKeeps
  <2>5. ASSUME NEW n \in Listed, Remove(n) \/ RemoveBefore(n) \/ RemoveAfter(n) PROVE ListInv'
    BY <2>5, NeighboursListed, RemoveKeeps DEF RemoveBefore, RemoveAfter
  <2>6. CASE RemoveFront \/ RemoveBack
    BY <2>6, EndsListed, RemoveKeeps DEF RemoveFront, RemoveBack
  <2>7. CASE Destroy
    BY <2>7, DestroyKeeps
  <2>8. ASSUME NEW n \in removed, Delete(n) PROVE ListInv'
    BY <2>8 DEF Delete, ListInv, ListTyped, NoneReached, Listed, BothWalksAgree, ForwardWalk,
                BackwardWalk, ListLen
  <2>9. CASE UNCHANGED listVars
    BY <2>9 DEF listVars, ListInv, ListTyped, NoneReached, Listed, BothWalksAgree, ForwardWalk,
                BackwardWalk, ListLen
  <2> QED
    BY <2>1, <2>2, <2>3, <2>4, <2>5, <2>6, <2>7, <2>8, <2>9 DEF ListNext
<1>3. ListInv => BothWalksAgree /\ NoneReached
  BY DEF ListInv
<1> QED
  BY <1>1, <1>2, <1>3, PTL DEF ListSpec

(***************************************************************************)
(* CxaGuard.  Everything rests on the mutex: it is held exactly while one   *)
(* frame of one stack is inside an initialisation, so that no two are.      *)
(***************************************************************************)
GuardSteps == {"lock", "check", "construct", "release", "unlock", "use", "abort"}
Holding == {"check", "construct", "release", "unlock"}

Depth(t) == Len(doing[t])
Obj(t, i) == doing[t][i][1]
At(t, i) == doing[t][i][2]

GuardTyped ==
  /\ doing \in [User -> Seq(Object \X GuardSteps)] /\ cxaGuard \in User \cup {NoUser}
  /\ built \in [Object -> Int]

(* Only a running constructor reaches further objects.                       *)
OuterConstruct == \A t \in User : \A i \in 1..(Depth(t) - 1) : At(t, i) = "construct"

(* The mutex is held by the task with a frame inside an initialisation, and   *)
(* that task has only one.                                                  *)
HolderInside ==
  /\ \A t \in User : \A i \in 1..Depth(t) : At(t, i) \in Holding => cxaGuard = t
  /\ \A t \in User : \A i, j \in 1..Depth(t) :
       At(t, i) \in Holding /\ At(t, j) \in Holding => i = j
  /\ \A t \in User : cxaGuard = t => \E i \in 1..Depth(t) : At(t, i) \in Holding

(* The initialised bit, as the steps around it know it.                      *)
BitKnown ==
  \A t \in User : \A i \in 1..Depth(t) :
    /\ At(t, i) \in {"construct", "release"} => Obj(t, i) \notin initialized
    /\ At(t, i) \in {"unlock", "use"} => Obj(t, i) \in initialized

Released(o) == \E t \in User : \E i \in 1..Depth(t) : Obj(t, i) = o /\ At(t, i) = "release"

BuiltKnown ==
  \A o \in Object : built[o] = IF o \in initialized \/ Released(o) THEN 1 ELSE 0

(* Without an abort the in-use bit of an object that is not initialised is    *)
(* that of the initialisation under way.                                    *)
InUseKnown ==
  ~aborts => /\ ~guardPanic
             /\ \A o \in inuse \ initialized : \E t \in User : \E i \in 1..Depth(t) :
                  Obj(t, i) = o /\ At(t, i) \in {"construct", "release"}
             /\ \A t \in User : \A i \in 1..Depth(t) : At(t, i) # "abort"

GuardInv == GuardTyped /\ OuterConstruct /\ HolderInside /\ BitKnown /\ BuiltKnown /\ InUseKnown

LEMMA FrontIs ==
  ASSUME NEW S, NEW s \in Seq(S), s # <<>>
  PROVE  /\ GX!Front(s) \in Seq(S) /\ Len(GX!Front(s)) = Len(s) - 1
         /\ \A i \in 1..(Len(s) - 1) : GX!Front(s)[i] = s[i]
<1>1. Len(s) \in Nat /\ Len(s) >= 1
  OBVIOUS
<1> DEFINE n == Len(s) - 1
<1>2. n \in Nat /\ n <= Len(s)
  BY <1>1
<1>3. SubSeq(s, 1, n) \in Seq(S) /\ Len(SubSeq(s, 1, n)) = n /\ \A i \in 1..n : SubSeq(s, 1, n)[i] = s[i]
  <2> HIDE DEF n
  <2> QED
    BY <1>2
<1> QED
  BY <1>3 DEF GX!Front

(* The innermost frame of t goes from one step to another.                  *)
Replaced(t, o, from, to) ==
  /\ doing' \in [User -> Seq(Object \X GuardSteps)]
  /\ Depth(t) \in Nat /\ Depth(t) >= 1 /\ from \in GuardSteps
  /\ \A u \in User : Depth(u)' = Depth(u)
  /\ Obj(t, Depth(t)) = o /\ At(t, Depth(t)) = from
  /\ Obj(t, Depth(t))' = o /\ At(t, Depth(t))' = to
  /\ \A u \in User : \A i \in 1..Depth(u) :
       Obj(u, i)' = Obj(u, i) /\ ((u # t \/ i # Depth(t)) => At(u, i)' = At(u, i))

LEMMA GotoFrames ==
  ASSUME GuardTyped, NEW t \in User, NEW o \in Object, NEW from, NEW to \in GuardSteps,
         In(t, o, from), Goto(t, o, to)
  PROVE  Replaced(t, o, from, to)
<1> DEFINE s == doing[t]  F == Object \X GuardSteps  r == Append(GX!Front(s), <<o, to>>)  n == Len(s)
<1>1. doing \in [User -> Seq(F)] /\ s \in Seq(F) /\ s # <<>> /\ s[n] = <<o, from>>
  BY DEF GuardTyped, In, GX!Last
<1>2. n \in Nat /\ n >= 1 /\ <<o, from>> \in F
  BY <1>1
<1>3. GX!Front(s) \in Seq(F) /\ Len(GX!Front(s)) = n - 1 /\ \A i \in 1..(n - 1) : GX!Front(s)[i] = s[i]
  BY <1>1, FrontIs
<1>4. doing' = [doing EXCEPT ![t] = r]
  BY DEF Goto
<1>5. <<o, to>> \in F
  OBVIOUS
<1> HIDE DEF F
<1>6. r \in Seq(F) /\ Len(r) = n /\ r[n] = <<o, to>> /\ \A i \in 1..(n - 1) : r[i] = s[i]
  BY <1>2, <1>3, <1>5
<1> HIDE DEF r
<1>7. doing' \in [User -> Seq(F)] /\ doing'[t] = r /\ \A u \in User \ {t} : doing'[u] = doing[u]
  BY <1>1, <1>4, <1>6
<1>8. \A i \in 1..n : i # n => i \in 1..(n - 1)
  BY <1>2
<1>9. /\ doing' \in [User -> Seq(Object \X GuardSteps)] /\ from \in GuardSteps
  BY <1>2, <1>7 DEF F
<1>10. /\ Depth(t) = n /\ Depth(t)' = Depth(t) /\ Obj(t, Depth(t)) = o /\ At(t, Depth(t)) = from
       /\ Obj(t, Depth(t))' = o /\ At(t, Depth(t))' = to
  BY <1>1, <1>6, <1>7 DEF Depth, Obj, At
<1>11. ASSUME NEW u \in User
       PROVE  /\ Depth(u)' = Depth(u)
              /\ \A i \in 1..Depth(u) :
                   Obj(u, i)' = Obj(u, i) /\ ((u # t \/ i # Depth(t)) => At(u, i)' = At(u, i))
  <2>1. CASE u = t
    BY <1>6, <1>7, <1>8, <1>10, <2>1 DEF Depth, Obj, At
  <2>2. CASE u # t
    BY <1>7, <2>2 DEF Depth, Obj, At
  <2> QED
    BY <2>1, <2>2
<1> QED
  BY <1>2, <1>9, <1>10, <1>11 DEF Replaced

(* The innermost frame of t is left.                                        *)
Left(t, o, from) ==
  /\ doing' \in [User -> Seq(Object \X GuardSteps)]
  /\ Depth(t) \in Nat /\ Depth(t) >= 1 /\ from \in GuardSteps
  /\ Obj(t, Depth(t)) = o /\ At(t, Depth(t)) = from
  /\ Depth(t)' = Depth(t) - 1 /\ \A u \in User : u # t => Depth(u)' = Depth(u)
  /\ \A u \in User : \A i \in 1..Depth(u) :
       (u # t \/ i # Depth(t)) => Obj(u, i)' = Obj(u, i) /\ At(u, i)' = At(u, i)

LEMMA LeaveFrames ==
  ASSUME GuardTyped, NEW t \in User, NEW o \in Object, NEW from, In(t, o, from), Leave(t)
  PROVE  Left(t, o, from)
<1> DEFINE s == doing[t]  F == Object \X GuardSteps  r == GX!Front(s)  n == Len(s)
<1>1. doing \in [User -> Seq(F)] /\ s \in Seq(F) /\ s # <<>> /\ s[n] = <<o, from>>
  BY DEF GuardTyped, In, GX!Last
<1>2. n \in Nat /\ n >= 1 /\ <<o, from>> \in F
  BY <1>1
<1>3. r \in Seq(F) /\ Len(r) = n - 1 /\ \A i \in 1..(n - 1) : r[i] = s[i]
  BY <1>1, FrontIs
<1>4. doing' = [doing EXCEPT ![t] = r]
  BY DEF Leave
<1> HIDE DEF F, r
<1>7. doing' \in [User -> Seq(F)] /\ doing'[t] = r /\ \A u \in User \ {t} : doing'[u] = doing[u]
  BY <1>1, <1>3, <1>4
<1>8. \A i \in 1..n : i # n => i \in 1..(n - 1)
  BY <1>2
<1>9. /\ doing' \in [User -> Seq(Object \X GuardSteps)] /\ from \in GuardSteps
  BY <1>2, <1>7 DEF F
<1>10. Depth(t) = n /\ Depth(t)' = n - 1 /\ Obj(t, n) = o /\ At(t, n) = from
  BY <1>1, <1>3, <1>7 DEF Depth, Obj, At
<1>11. ASSUME NEW u \in User
       PROVE  /\ u # t => Depth(u)' = Depth(u)
              /\ \A i \in 1..Depth(u) :
                   (u # t \/ i # n) => Obj(u, i)' = Obj(u, i) /\ At(u, i)' = At(u, i)
  <2>1. CASE u = t
    BY <1>3, <1>7, <1>8, <1>10, <2>1 DEF Depth, Obj, At
  <2>2. CASE u # t
    BY <1>7, <2>2 DEF Depth, Obj, At
  <2> QED
    BY <2>1, <2>2
<1> QED
  BY <1>2, <1>9, <1>10, <1>11 DEF Left

(* A frame is entered.                                                      *)
Entered(t, o, to) ==
  /\ doing' \in [User -> Seq(Object \X GuardSteps)]
  /\ Depth(t) \in Nat
  /\ Depth(t)' = Depth(t) + 1 /\ \A u \in User : u # t => Depth(u)' = Depth(u)
  /\ Obj(t, Depth(t))' = o /\ At(t, Depth(t))' = to
  /\ \A u \in User : \A i \in 1..Depth(u) : Obj(u, i)' = Obj(u, i) /\ At(u, i)' = At(u, i)

LEMMA ReachFrames ==
  ASSUME GuardTyped, NEW t \in User, NEW o \in Object, NEW to \in GuardSteps,
         doing' = [doing EXCEPT ![t] = Append(doing[t], <<o, to>>)]
  PROVE  Entered(t, o, to)
<1> DEFINE s == doing[t]  F == Object \X GuardSteps  r == Append(s, <<o, to>>)  n == Len(s)
<1>1. doing \in [User -> Seq(F)] /\ s \in Seq(F) /\ n \in Nat /\ <<o, to>> \in F
  BY DEF GuardTyped
<1> HIDE DEF F
<1>2. r \in Seq(F) /\ Len(r) = n + 1 /\ r[n + 1] = <<o, to>> /\ \A i \in 1..n : r[i] = s[i]
  BY <1>1
<1> HIDE DEF r
<1>3. doing' \in [User -> Seq(F)] /\ doing'[t] = r /\ \A u \in User \ {t} : doing'[u] = doing[u]
  BY <1>1, <1>2 DEF r
<1>4. /\ Depth(t) = n /\ Depth(t)' = Depth(t) + 1
      /\ Obj(t, Depth(t))' = o /\ At(t, Depth(t))' = to
  BY <1>2, <1>3 DEF Depth, Obj, At
<1>5. ASSUME NEW u \in User
      PROVE  /\ u # t => Depth(u)' = Depth(u)
             /\ \A i \in 1..Depth(u) : Obj(u, i)' = Obj(u, i) /\ At(u, i)' = At(u, i)
  <2>1. CASE u = t
    BY <1>2, <1>3, <1>4, <2>1 DEF Depth, Obj, At
  <2>2. CASE u # t
    BY <1>3, <2>2 DEF Depth, Obj, At
  <2> QED
    BY <2>1, <2>2
<1> QED
  BY <1>1, <1>3, <1>4, <1>5 DEF F, Entered

(* A step inside the innermost frame of t keeps the mutex, frees it on the     *)
(* way out of an initialisation, or takes it when it is free on the way in.   *)
LEMMA HolderMoves ==
  ASSUME GuardInv, NEW t \in User, NEW o \in Object, NEW from, NEW to \in GuardSteps,
         In(t, o, from), Goto(t, o, to),
         \/ (from \in Holding <=> to \in Holding) /\ cxaGuard' = cxaGuard
         \/ from \in Holding /\ to \notin Holding /\ cxaGuard' = NoUser
         \/ from \notin Holding /\ to \in Holding /\ cxaGuard = NoUser /\ cxaGuard' = t
  PROVE  /\ OuterConstruct' /\ HolderInside'
         /\ doing' \in [User -> Seq(Object \X GuardSteps)] /\ cxaGuard' \in User \cup {NoUser}
<1>1. GuardTyped /\ OuterConstruct /\ HolderInside
  BY DEF GuardInv
<1>2. /\ doing' \in [User -> Seq(Object \X GuardSteps)]
      /\ Depth(t) \in Nat /\ Depth(t) >= 1
      /\ \A u \in User : Depth(u)' = Depth(u)
      /\ At(t, Depth(t)) = from /\ At(t, Depth(t))' = to
      /\ \A u \in User : \A i \in 1..Depth(u) :
           (u # t \/ i # Depth(t)) => At(u, i)' = At(u, i)
  <2>1. Replaced(t, o, from, to)
    BY <1>1, GotoFrames
  <2> QED
    BY <2>1 DEF Replaced
<1>3. \A u \in User : Depth(u) \in Nat
  BY <1>1 DEF GuardTyped, Depth
<1>4. At(t, Depth(t))' = doing'[t][Depth(t)][2]
  BY <1>2 DEF At
<1>5. cxaGuard' \in User \cup {NoUser}
  BY <1>1 DEF GuardTyped
<1>6. OuterConstruct'
  <2> SUFFICES ASSUME NEW u \in User, NEW i \in 1..(Depth(u) - 1) PROVE At(u, i)' = "construct"
    BY <1>2 DEF OuterConstruct
  <2>1. i \in 1..Depth(u) /\ i # Depth(u)
    BY <1>3
  <2> QED
    BY <1>1, <1>2, <2>1 DEF OuterConstruct
<1>7. \A i \in 1..Depth(t) : i = Depth(t) => At(t, i) = from /\ At(t, i)' = to
  BY <1>2, <1>4 DEF At
<1>8. \A u \in User : \A i \in 1..Depth(u) : At(u, i)' \in Holding => cxaGuard' = u
  <2> SUFFICES ASSUME NEW u \in User, NEW i \in 1..Depth(u), At(u, i)' \in Holding
               PROVE  cxaGuard' = u
    OBVIOUS
  <2>1. CASE u = t /\ i = Depth(t)
    <3>1. to \in Holding /\ Depth(t) \in 1..Depth(t)
      BY <1>2, <1>7, <2>1
    <3> QED
      BY <1>1, <1>2, <2>1, <3>1 DEF HolderInside
  <2>2. CASE u # t \/ i # Depth(t)
    <3>1. At(u, i) \in Holding /\ cxaGuard = u
      BY <1>1, <1>2, <2>2 DEF HolderInside
    <3>2. from \notin Holding
      BY <1>1, <1>2, <2>2, <3>1 DEF HolderInside
    <3> QED
      BY <3>1, <3>2, GuardAssumption
  <2> QED
    BY <2>1, <2>2
<1>9. ASSUME NEW u \in User, NEW i \in 1..Depth(u), NEW j \in 1..Depth(u),
             At(u, i)' \in Holding, At(u, j)' \in Holding, i # j
      PROVE  FALSE
  <2>1. PICK k \in {i, j} : u # t \/ k # Depth(t)
    BY <1>9
  <2>2. At(u, k) \in Holding /\ cxaGuard = u
    BY <1>1, <1>2, <1>9, <2>1 DEF HolderInside
  <2>3. from \notin Holding
    BY <1>1, <1>2, <2>1, <2>2 DEF HolderInside
  <2>4. to \notin Holding
    BY <2>2, <2>3, GuardAssumption
  <2> QED
    BY <1>1, <1>2, <1>7, <1>9, <2>4 DEF HolderInside
<1>10. ASSUME NEW u \in User, cxaGuard' = u
       PROVE  \E i \in 1..Depth(u) : At(u, i)' \in Holding
  <2>1. CASE to \in Holding /\ u = t
    BY <1>2, <1>7, <2>1
  <2>2. CASE to \notin Holding \/ u # t
    <3>1. cxaGuard = u
      BY <1>10, <2>2, GuardAssumption
    <3>2. PICK i \in 1..Depth(u) : At(u, i) \in Holding
      BY <1>1, <3>1 DEF HolderInside
    <3>3. u # t \/ i # Depth(t)
      BY <1>2, <1>10, <2>2, <3>2, GuardAssumption
    <3> QED
      BY <1>2, <3>2, <3>3
  <2> QED
    BY <2>1, <2>2
<1>11. HolderInside'
  BY <1>2, <1>8, <1>9, <1>10 DEF HolderInside
<1> QED
  BY <1>2, <1>5, <1>6, <1>11

(* No two frames are inside an initialisation.                              *)
LEMMA OneInside ==
  ASSUME GuardInv, NEW t \in User, NEW u \in User, NEW i \in 1..Depth(t), NEW j \in 1..Depth(u),
         At(t, i) \in Holding, At(u, j) \in Holding
  PROVE  t = u /\ i = j
BY DEF GuardInv, HolderInside

(* Every frame but the innermost of t is what it was.                        *)
LEMMA OthersKept ==
  ASSUME NEW t \in User, NEW o \in Object, NEW from, NEW to, Replaced(t, o, from, to)
  PROVE  /\ Depth(t) \in 1..Depth(t) /\ Obj(t, Depth(t)) = o /\ At(t, Depth(t)) = from
         /\ \A u \in User : Depth(u)' = Depth(u)
         /\ \A u \in User : \A i \in 1..Depth(u) :
              /\ Obj(u, i)' = Obj(u, i)
              /\ \/ At(u, i)' = At(u, i)
                 \/ u = t /\ i = Depth(t) /\ Obj(u, i) = o /\ At(u, i) = from /\ At(u, i)' = to
<1>1. Depth(t)' = Depth(t) /\ At(t, Depth(t))' = doing'[t][Depth(t)][2]
  BY DEF Replaced, At
<1> QED
  BY <1>1 DEF Replaced, At

LEMMA BitMoves ==
  ASSUME GuardInv, NEW t \in User, NEW o \in Object, NEW from, NEW to,
         Replaced(t, o, from, to), initialized' = initialized,
         to \in {"construct", "release"} => o \notin initialized,
         to \in {"unlock", "use"} => o \in initialized
  PROVE  BitKnown'
<1>1. BitKnown
  BY DEF GuardInv
<1> SUFFICES ASSUME NEW u \in User, NEW i \in 1..Depth(u)
             PROVE  /\ At(u, i)' \in {"construct", "release"} => Obj(u, i)' \notin initialized
                    /\ At(u, i)' \in {"unlock", "use"} => Obj(u, i)' \in initialized
  BY OthersKept DEF BitKnown
<1>2. /\ Obj(u, i)' = Obj(u, i)
      /\ At(u, i)' = At(u, i) \/ (Obj(u, i) = o /\ At(u, i)' = to)
  BY OthersKept
<1> QED
  BY <1>1, <1>2 DEF BitKnown

LEMMA ReleasedKept ==
  ASSUME NEW t \in User, NEW o \in Object, NEW from, NEW to,
         Replaced(t, o, from, to), NEW p \in Object,
         p = o => from # "release" /\ to # "release"
  PROVE  Released(p)' <=> Released(p)
<1>1. Released(p)' <=> \E u \in User : \E i \in 1..Depth(u) : Obj(u, i)' = p /\ At(u, i)' = "release"
  BY OthersKept DEF Released
<1>2. ASSUME NEW u \in User, NEW i \in 1..Depth(u)
      PROVE  (Obj(u, i)' = p /\ At(u, i)' = "release") <=> (Obj(u, i) = p /\ At(u, i) = "release")
  <2>1. /\ Obj(u, i)' = Obj(u, i)
        /\ At(u, i)' = At(u, i) \/ (Obj(u, i) = o /\ At(u, i) = from /\ At(u, i)' = to)
    BY OthersKept
  <2> QED
    BY <2>1
<1> QED
  BY <1>1, <1>2 DEF Released

(* The in-use bits: the initialisation under way goes on, or one that was     *)
(* not under way takes a step.                                               *)
UnderWay == {"construct", "release"}

LEMMA InUseMoves ==
  ASSUME GuardInv, NEW t \in User, NEW o \in Object, NEW from, NEW to,
         Replaced(t, o, from, to), guardPanic' = guardPanic, aborts' = aborts, to # "abort",
         from \in UnderWay => to \in UnderWay \/ o \in initialized',
         initialized \subseteq initialized',
         inuse' \ inuse \subseteq {o}, inuse' # inuse => to \in UnderWay
  PROVE  InUseKnown'
<1> SUFFICES ASSUME ~aborts
             PROVE  /\ ~guardPanic
                    /\ \A p \in inuse' \ initialized' : \E u \in User : \E i \in 1..Depth(u) :
                         Obj(u, i)' = p /\ At(u, i)' \in UnderWay
                    /\ \A u \in User : \A i \in 1..Depth(u) : At(u, i)' # "abort"
  BY OthersKept DEF InUseKnown, UnderWay
<1>1. InUseKnown
  BY DEF GuardInv
<1>2. \A u \in User : \A i \in 1..Depth(u) : At(u, i)' # "abort"
  BY <1>1, OthersKept DEF InUseKnown
<1>3. ASSUME NEW p \in inuse' \ initialized'
      PROVE  \E u \in User : \E i \in 1..Depth(u) : Obj(u, i)' = p /\ At(u, i)' \in UnderWay
  <2>1. CASE p \in inuse
    <3>1. PICK u \in User : \E i \in 1..Depth(u) : Obj(u, i) = p /\ At(u, i) \in UnderWay
      BY <1>1, <1>3, <2>1 DEF InUseKnown, UnderWay
    <3>2. PICK i \in 1..Depth(u) : Obj(u, i) = p /\ At(u, i) \in UnderWay
      BY <3>1
    <3>3. /\ Obj(u, i)' = Obj(u, i)
          /\ At(u, i)' = At(u, i) \/ (Obj(u, i) = o /\ At(u, i) = from /\ At(u, i)' = to)
      BY OthersKept
    <3> QED
      BY <1>3, <3>2, <3>3
  <2>2. CASE p \notin inuse
    <3>1. p = o /\ to \in UnderWay
      BY <1>3, <2>2
    <3>2. Depth(t) \in 1..Depth(t) /\ Depth(t)' = Depth(t) /\ Obj(t, Depth(t))' = o /\ At(t, Depth(t))' = to
      BY OthersKept DEF Replaced
    <3>3. doing'[t][Depth(t)][1] = o /\ doing'[t][Depth(t)][2] = to
      BY <3>2 DEF Obj, At
    <3> QED
      BY <3>1, <3>2, <3>3 DEF Obj, At
  <2> QED
    BY <2>1, <2>2
<1> QED
  BY <1>1, <1>2, <1>3 DEF InUseKnown

(* What the moves share: a replaced frame keeps the whole invariant.          *)
LEMMA FrameStep ==
  ASSUME GuardInv, NEW t \in User, NEW o \in Object, NEW from, NEW to \in GuardSteps,
         In(t, o, from), Goto(t, o, to),
         \/ (from \in Holding <=> to \in Holding) /\ cxaGuard' = cxaGuard
         \/ from \in Holding /\ to \notin Holding /\ cxaGuard' = NoUser
         \/ from \notin Holding /\ to \in Holding /\ cxaGuard = NoUser /\ cxaGuard' = t,
         built' \in [Object -> Int], BitKnown', BuiltKnown', InUseKnown'
  PROVE  GuardInv'
BY HolderMoves DEF GuardInv, GuardTyped

LEMMA InFrame ==
  ASSUME GuardInv, NEW t \in User, NEW o \in Object, NEW step, In(t, o, step)
  PROVE  /\ Depth(t) \in Nat /\ Depth(t) \in 1..Depth(t)
         /\ Obj(t, Depth(t)) = o /\ At(t, Depth(t)) = step
<1>1. doing[t] \in Seq(Object \X GuardSteps) /\ doing[t] # <<>>
  BY DEF GuardInv, GuardTyped, In
<1>2. Depth(t) \in Nat /\ Depth(t) \in 1..Depth(t)
  BY <1>1 DEF Depth
<1>3. doing[t][Depth(t)] = <<o, step>>
  BY DEF In, Depth, GX!Last
<1> QED
  BY <1>2, <1>3 DEF Obj, At

LEMMA GuardLockKeeps ==
  ASSUME GuardInv, NEW t \in User, NEW o \in Object, GuardLock(t, o)
  PROVE  GuardInv'
<1>1. /\ In(t, o, "lock") /\ Goto(t, o, "check") /\ cxaGuard = NoUser /\ cxaGuard' = t
      /\ UNCHANGED <<initialized, inuse, built, aborts, guardPanic>>
  BY DEF GuardLock
<1>2. Replaced(t, o, "lock", "check")
  BY <1>1, GotoFrames DEF GuardInv, GuardSteps
<1>3. BitKnown'
  BY <1>1, <1>2, BitMoves
<1>4. BuiltKnown'
  BY <1>1, <1>2, ReleasedKept DEF GuardInv, BuiltKnown
<1>5. InUseKnown'
  BY <1>1, <1>2, InUseMoves DEF UnderWay
<1>6. built' \in [Object -> Int]
  BY <1>1 DEF GuardInv, GuardTyped
<1> QED
  BY <1>1, <1>3, <1>4, <1>5, <1>6, FrameStep DEF Holding, GuardSteps

LEMMA CheckKeeps ==
  ASSUME GuardInv, NEW t \in User, NEW o \in Object, Check(t, o)
  PROVE  GuardInv'
<1>1. In(t, o, "check") /\ UNCHANGED <<initialized, built, aborts>>
  BY DEF Check
<1>2. built' \in [Object -> Int]
  BY <1>1 DEF GuardInv, GuardTyped
<1>3. CASE o \in initialized /\ cxaGuard' = NoUser /\ Goto(t, o, "use") /\ UNCHANGED <<inuse, guardPanic>>
  <2>1. Replaced(t, o, "check", "use")
    BY <1>1, <1>3, GotoFrames DEF GuardInv, GuardSteps
  <2>2. BitKnown'
    BY <1>1, <1>3, <2>1, BitMoves
  <2>3. BuiltKnown'
    BY <1>1, <2>1, ReleasedKept DEF GuardInv, BuiltKnown
  <2>4. InUseKnown'
    BY <1>1, <1>3, <2>1, InUseMoves DEF UnderWay
  <2> QED
    BY <1>1, <1>2, <1>3, <2>2, <2>3, <2>4, FrameStep DEF Holding, GuardSteps
<1>4. CASE o \notin initialized /\ o \in inuse /\ guardPanic' = TRUE /\ UNCHANGED <<cxaGuard, inuse, doing>>
  <2>1. aborts
    <3> SUFFICES ASSUME ~aborts PROVE FALSE
      OBVIOUS
    <3>1. PICK u \in User : \E i \in 1..Depth(u) : Obj(u, i) = o /\ At(u, i) \in {"construct", "release"}
      BY <1>4 DEF GuardInv, InUseKnown
    <3>2. PICK i \in 1..Depth(u) : Obj(u, i) = o /\ At(u, i) \in {"construct", "release"}
      BY <3>1
    <3>3. Depth(t) \in 1..Depth(t) /\ At(t, Depth(t)) = "check"
      BY <1>1, InFrame
    <3>4. At(u, i) \in Holding /\ At(t, Depth(t)) \in Holding
      BY <3>2, <3>3 DEF Holding
    <3>5. t = u /\ Depth(t) = i
      BY <3>3, <3>4, OneInside
    <3> QED
      BY <3>2, <3>3, <3>5
  <2>2. /\ doing' = doing /\ cxaGuard' = cxaGuard /\ built' = built /\ initialized' = initialized
        /\ aborts' = aborts
    BY <1>1, <1>4
  <2>3. GuardTyped' /\ OuterConstruct'
    BY <2>2 DEF GuardInv, GuardTyped, OuterConstruct, Depth, At
  <2>4. HolderInside' /\ BitKnown'
    BY <2>2 DEF GuardInv, HolderInside, BitKnown, Depth, Obj, At
  <2>5. BuiltKnown'
    BY <2>2 DEF GuardInv, BuiltKnown, Released, Depth, Obj, At
  <2>6. InUseKnown'
    BY <2>1, <2>2 DEF InUseKnown
  <2> QED
    BY <2>3, <2>4, <2>5, <2>6 DEF GuardInv
<1>5. CASE /\ o \notin initialized /\ o \notin inuse
           /\ inuse' = inuse \cup {o} /\ Goto(t, o, "construct") /\ UNCHANGED <<cxaGuard, guardPanic>>
  <2>1. Replaced(t, o, "check", "construct")
    BY <1>1, <1>5, GotoFrames DEF GuardInv, GuardSteps
  <2>2. BitKnown'
    BY <1>1, <1>5, <2>1, BitMoves
  <2>3. BuiltKnown'
    BY <1>1, <2>1, ReleasedKept DEF GuardInv, BuiltKnown
  <2>4. InUseKnown'
    BY <1>1, <1>5, <2>1, InUseMoves DEF UnderWay
  <2> QED
    BY <1>1, <1>2, <1>5, <2>2, <2>3, <2>4, FrameStep DEF Holding, GuardSteps
<1> QED
  BY <1>3, <1>4, <1>5 DEF Check

LEMMA ConstructedKeeps ==
  ASSUME GuardInv, NEW t \in User, NEW o \in Object, Constructed(t, o)
  PROVE  GuardInv'
<1>1. /\ In(t, o, "construct") /\ Goto(t, o, "release")
      /\ built' = [built EXCEPT ![o] = built[o] + 1]
      /\ UNCHANGED <<cxaGuard, initialized, inuse, aborts, guardPanic>>
  BY DEF Constructed
<1>2. Replaced(t, o, "construct", "release")
  BY <1>1, GotoFrames DEF GuardInv, GuardSteps
<1>3. Depth(t) \in 1..Depth(t) /\ Obj(t, Depth(t)) = o /\ At(t, Depth(t)) = "construct"
  BY <1>1, InFrame
<1>4. o \notin initialized
  BY <1>3 DEF GuardInv, BitKnown
<1>5. BitKnown'
  BY <1>1, <1>2, <1>4, BitMoves
<1>6. ~Released(o)
  <2> SUFFICES ASSUME NEW u \in User, NEW i \in 1..Depth(u), At(u, i) = "release" PROVE FALSE
    BY DEF Released
  <2>1. At(u, i) \in Holding /\ At(t, Depth(t)) \in Holding
    BY <1>3 DEF Holding
  <2>2. t = u /\ Depth(t) = i
    BY <1>3, <2>1, OneInside
  <2> QED
    BY <1>3, <2>2
<1>7. Released(o)'
  <2>1. Depth(t)' \in 1..Depth(t)' /\ Obj(t, Depth(t))' = o /\ At(t, Depth(t))' = "release"
    BY <1>2, <1>3 DEF Replaced
  <2> QED
    BY <2>1 DEF Released
<1>8. built \in [Object -> Int] /\ built[o] = 0
  BY <1>4, <1>6 DEF GuardInv, GuardTyped, BuiltKnown
<1>9. built' \in [Object -> Int] /\ built'[o] = 1 /\ \A p \in Object \ {o} : built'[p] = built[p]
  BY <1>1, <1>8
<1>10. BuiltKnown'
  <2> SUFFICES ASSUME NEW p \in Object
               PROVE  built'[p] = IF p \in initialized \/ Released(p)' THEN 1 ELSE 0
    BY <1>1 DEF BuiltKnown
  <2>1. p # o => (Released(p)' <=> Released(p))
    BY <1>2, ReleasedKept
  <2> QED
    BY <1>7, <1>9, <2>1 DEF GuardInv, BuiltKnown
<1>11. InUseKnown'
  BY <1>1, <1>2, InUseMoves DEF UnderWay
<1> QED
  BY <1>1, <1>5, <1>9, <1>10, <1>11, FrameStep DEF Holding, GuardSteps

LEMMA GuardReleaseKeeps ==
  ASSUME GuardInv, NEW t \in User, NEW o \in Object, GuardRelease(t, o)
  PROVE  GuardInv'
<1>1. UNCHANGED <<inuse, built, aborts, guardPanic>>
  BY DEF GuardRelease
<1>2. built' \in [Object -> Int]
  BY <1>1 DEF GuardInv, GuardTyped
<1>3. CASE /\ In(t, o, "release") /\ Goto(t, o, "unlock")
           /\ initialized' = initialized \cup {o} /\ cxaGuard' = cxaGuard
  <2>1. Replaced(t, o, "release", "unlock")
    BY <1>3, GotoFrames DEF GuardInv, GuardSteps
  <2>2. Depth(t) \in 1..Depth(t) /\ Obj(t, Depth(t)) = o /\ At(t, Depth(t)) = "release"
    BY <1>3, InFrame
  <2>3. BitKnown'
    <3> SUFFICES ASSUME NEW u \in User, NEW i \in 1..Depth(u)
                 PROVE  /\ At(u, i)' \in {"construct", "release"} => Obj(u, i)' \notin initialized'
                        /\ At(u, i)' \in {"unlock", "use"} => Obj(u, i)' \in initialized'
      BY <2>1, OthersKept DEF BitKnown
    <3>1. /\ Obj(u, i)' = Obj(u, i)
          /\ \/ At(u, i)' = At(u, i) /\ (u # t \/ i # Depth(t))
             \/ Obj(u, i) = o /\ At(u, i)' = "unlock"
      BY <2>1, OthersKept DEF Replaced
    <3>2. (At(u, i) \in {"construct", "release"}) => u = t /\ i = Depth(t)
      BY <2>2, OneInside DEF Holding
    <3> QED
      BY <1>3, <3>1, <3>2 DEF GuardInv, BitKnown
  <2>4. Released(o)
    BY <2>2 DEF Released
  <2>5. BuiltKnown'
    <3> SUFFICES ASSUME NEW p \in Object
                 PROVE  built[p] = IF p \in initialized' \/ Released(p)' THEN 1 ELSE 0
      BY <1>1 DEF BuiltKnown
    <3>1. p # o => (Released(p)' <=> Released(p))
      BY <2>1, ReleasedKept
    <3> QED
      BY <1>3, <2>4, <3>1 DEF GuardInv, BuiltKnown
  <2>6. InUseKnown'
    BY <1>1, <1>3, <2>1, InUseMoves DEF UnderWay
  <2> QED
    BY <1>2, <1>3, <2>3, <2>5, <2>6, FrameStep DEF Holding, GuardSteps
<1>4. CASE In(t, o, "unlock") /\ Goto(t, o, "use") /\ cxaGuard' = NoUser /\ initialized' = initialized
  <2>1. Replaced(t, o, "unlock", "use")
    BY <1>4, GotoFrames DEF GuardInv, GuardSteps
  <2>2. o \in initialized
    BY <1>4, InFrame DEF GuardInv, BitKnown
  <2>3. BitKnown'
    BY <1>4, <2>1, <2>2, BitMoves
  <2>4. BuiltKnown'
    BY <1>1, <1>4, <2>1, ReleasedKept DEF GuardInv, BuiltKnown
  <2>5. InUseKnown'
    BY <1>1, <1>4, <2>1, InUseMoves DEF UnderWay
  <2> QED
    BY <1>2, <1>4, <2>3, <2>4, <2>5, FrameStep DEF Holding, GuardSteps
<1> QED
  BY <1>3, <1>4 DEF GuardRelease

(* A frame that is not inside an initialisation is left.                     *)
LEMMA LeaveKeeps ==
  ASSUME GuardInv, NEW t \in User, NEW o \in Object, NEW from \in {"use", "abort"},
         In(t, o, from), Leave(t),
         UNCHANGED <<cxaGuard, initialized, built, aborts, guardPanic>>,
         inuse' \subseteq inuse
  PROVE  GuardInv'
<1>1. /\ GuardTyped /\ OuterConstruct /\ HolderInside /\ BitKnown /\ BuiltKnown /\ InUseKnown
  BY DEF GuardInv
<1>2. Left(t, o, from)
  BY <1>1, LeaveFrames
<1>3. /\ Depth(t) \in Nat /\ Depth(t) >= 1 /\ At(t, Depth(t)) = from
      /\ Depth(t)' = Depth(t) - 1 /\ \A u \in User : u # t => Depth(u)' = Depth(u)
      /\ \A u \in User : \A i \in 1..Depth(u) :
           (u # t \/ i # Depth(t)) => Obj(u, i)' = Obj(u, i) /\ At(u, i)' = At(u, i)
  BY <1>2 DEF Left
<1>4. \A u \in User : Depth(u) \in Nat
  BY <1>1 DEF GuardTyped, Depth
<1>5. \A u \in User : \A i \in 1..Depth(u)' :
        i \in 1..Depth(u) /\ (i \in 1..(Depth(u)' - 1) => i \in 1..(Depth(u) - 1))
        /\ Obj(u, i)' = Obj(u, i) /\ At(u, i)' = At(u, i)
  <2> SUFFICES ASSUME NEW u \in User, NEW i \in 1..Depth(u)'
               PROVE  i \in 1..Depth(u) /\ (i \in 1..(Depth(u)' - 1) => i \in 1..(Depth(u) - 1))
                      /\ Obj(u, i)' = Obj(u, i) /\ At(u, i)' = At(u, i)
    OBVIOUS
  <2>1. CASE u = t
    <3>1. i \in 1..Depth(t) /\ i # Depth(t) /\ i \in 1..(Depth(t) - 1)
      BY <1>3, <2>1
    <3> QED
      BY <1>3, <2>1, <3>1
  <2>2. CASE u # t
    BY <1>3, <2>2
  <2> QED
    BY <2>1, <2>2
<1>6. \A u \in User : \A i \in 1..Depth(u) :
        At(u, i) \in Holding => i \in 1..Depth(u)' /\ Obj(u, i)' = Obj(u, i) /\ At(u, i)' = At(u, i)
  <2> SUFFICES ASSUME NEW u \in User, NEW i \in 1..Depth(u), At(u, i) \in Holding
               PROVE  i \in 1..Depth(u)' /\ Obj(u, i)' = Obj(u, i) /\ At(u, i)' = At(u, i)
    OBVIOUS
  <2>1. u # t \/ i # Depth(t)
    BY <1>3 DEF Holding
  <2>2. i \in 1..Depth(u)'
    <3>1. CASE u = t
      BY <1>3, <2>1, <3>1
    <3>2. CASE u # t
      BY <1>3, <3>2
    <3> QED
      BY <3>1, <3>2
  <2> QED
    BY <1>3, <2>1, <2>2
<1>7. GuardTyped'
  BY <1>1, <1>2 DEF GuardTyped, Left
<1>8. OuterConstruct'
  <2> SUFFICES ASSUME NEW u \in User, NEW i \in 1..(Depth(u)' - 1) PROVE At(u, i)' = "construct"
    BY DEF OuterConstruct
  <2>1. Depth(u)' \in Int
    BY <1>3, <1>4
  <2>2. i \in 1..Depth(u)'
    BY <2>1
  <2> QED
    BY <1>1, <1>5, <2>2 DEF OuterConstruct
<1>9. HolderInside'
  <2>1. \A u \in User : \A i \in 1..Depth(u)' : At(u, i)' \in Holding => cxaGuard' = u
    BY <1>1, <1>5 DEF HolderInside
  <2>2. \A u \in User : \A i, j \in 1..Depth(u)' :
          At(u, i)' \in Holding /\ At(u, j)' \in Holding => i = j
    BY <1>1, <1>5 DEF HolderInside
  <2>3. \A u \in User : cxaGuard' = u => \E i \in 1..Depth(u)' : At(u, i)' \in Holding
    <3> SUFFICES ASSUME NEW u \in User, cxaGuard = u PROVE \E i \in 1..Depth(u)' : At(u, i)' \in Holding
      OBVIOUS
    <3>1. PICK i \in 1..Depth(u) : At(u, i) \in Holding
      BY <1>1 DEF HolderInside
    <3> QED
      BY <1>6, <3>1
  <2> QED
    BY <2>1, <2>2, <2>3 DEF HolderInside
<1>10. BitKnown'
  BY <1>1, <1>5 DEF BitKnown
<1>11. ASSUME NEW p \in Object PROVE Released(p)' <=> Released(p)
  <2>1. Released(p)' <=> \E u \in User : \E i \in 1..Depth(u)' : Obj(u, i)' = p /\ At(u, i)' = "release"
    BY DEF Released
  <2>2. "release" \in Holding
    BY DEF Holding
  <2> QED
    BY <1>5, <1>6, <2>1, <2>2 DEF Released
<1>12. BuiltKnown'
  BY <1>1, <1>11 DEF BuiltKnown
<1>13. InUseKnown'
  <2> SUFFICES ASSUME ~aborts
               PROVE  /\ ~guardPanic
                      /\ \A p \in inuse' \ initialized : \E u \in User : \E i \in 1..Depth(u)' :
                           Obj(u, i)' = p /\ At(u, i)' \in {"construct", "release"}
                      /\ \A u \in User : \A i \in 1..Depth(u)' : At(u, i)' # "abort"
    BY DEF InUseKnown
  <2>1. ASSUME NEW p \in inuse' \ initialized
        PROVE  \E u \in User : \E i \in 1..Depth(u)' :
                 Obj(u, i)' = p /\ At(u, i)' \in {"construct", "release"}
    <3>1. PICK u \in User : \E i \in 1..Depth(u) : Obj(u, i) = p /\ At(u, i) \in {"construct", "release"}
      BY <1>1, <2>1 DEF InUseKnown
    <3>2. PICK i \in 1..Depth(u) : Obj(u, i) = p /\ At(u, i) \in {"construct", "release"}
      BY <3>1
    <3>3. At(u, i) \in Holding
      BY <3>2 DEF Holding
    <3> QED
      BY <1>6, <3>2, <3>3
  <2> QED
    BY <1>1, <1>5, <2>1 DEF InUseKnown
<1> QED
  BY <1>7, <1>8, <1>9, <1>10, <1>12, <1>13 DEF GuardInv

LEMMA GuardAbortKeeps ==
  ASSUME GuardInv, NEW t \in User, NEW o \in Object, GuardAbort(t, o)
  PROVE  GuardInv'
<1>1. CASE /\ In(t, o, "construct") /\ Goto(t, o, "abort") /\ cxaGuard' = NoUser /\ aborts' = TRUE
           /\ UNCHANGED <<initialized, inuse, built, guardPanic>>
  <2>1. Replaced(t, o, "construct", "abort")
    BY <1>1, GotoFrames DEF GuardInv, GuardSteps
  <2>2. BitKnown'
    BY <1>1, <2>1, BitMoves
  <2>3. BuiltKnown'
    BY <1>1, <2>1, ReleasedKept DEF GuardInv, BuiltKnown
  <2>4. InUseKnown'
    BY <1>1 DEF InUseKnown
  <2>5. built' \in [Object -> Int]
    BY <1>1 DEF GuardInv, GuardTyped
  <2> QED
    BY <1>1, <2>2, <2>3, <2>4, <2>5, FrameStep DEF Holding, GuardSteps
<1>2. CASE /\ In(t, o, "abort") /\ Leave(t) /\ inuse' = inuse \ {o}
           /\ UNCHANGED <<cxaGuard, initialized, built, aborts, guardPanic>>
  BY <1>2, LeaveKeeps
<1> QED
  BY <1>1, <1>2 DEF GuardAbort

LEMMA ReachKeeps ==
  ASSUME GuardInv, NEW t \in User, NEW o \in Object, Reach(t, o)
  PROVE  GuardInv'
<1> DEFINE to == IF o \in initialized THEN "use" ELSE "lock"
<1>1. /\ GuardTyped /\ OuterConstruct /\ HolderInside /\ BitKnown /\ BuiltKnown /\ InUseKnown
  BY DEF GuardInv
<1>2. /\ doing[t] # <<>> => GX!Last(doing[t])[2] = "construct"
      /\ doing' = [doing EXCEPT ![t] = Append(doing[t], <<o, to>>)]
      /\ UNCHANGED <<cxaGuard, initialized, inuse, built, aborts, guardPanic>>
  BY DEF Reach
<1>3. to \in GuardSteps /\ to \in {"use", "lock"} /\ (to = "use" => o \in initialized)
  BY DEF GuardSteps
<1> HIDE DEF to
<1>4. Entered(t, o, to)
  BY <1>1, <1>2, <1>3, ReachFrames
<1>5. /\ Depth(t) \in Nat /\ Depth(t)' = Depth(t) + 1 /\ \A u \in User : u # t => Depth(u)' = Depth(u)
      /\ Obj(t, Depth(t))' = o /\ At(t, Depth(t))' = to
      /\ \A u \in User : \A i \in 1..Depth(u) : Obj(u, i)' = Obj(u, i) /\ At(u, i)' = At(u, i)
  BY <1>4 DEF Entered
<1>6. \A u \in User : Depth(u) \in Nat
  BY <1>1 DEF GuardTyped, Depth
<1>7. Depth(t) # 0 => At(t, Depth(t)) = "construct"
  <2>1. doing[t] \in Seq(Object \X GuardSteps)
    BY <1>1 DEF GuardTyped
  <2>2. Depth(t) # 0 => doing[t] # <<>>
    BY <2>1 DEF Depth
  <2> QED
    BY <1>2, <2>2 DEF At, Depth, GX!Last
<1>8. doing'[t][Depth(t) + 1][1] = o /\ doing'[t][Depth(t) + 1][2] = to
  BY <1>5 DEF Obj, At
<1>9. \A u \in User : \A i \in 1..Depth(u)' :
        \/ i \in 1..Depth(u) /\ Obj(u, i)' = Obj(u, i) /\ At(u, i)' = At(u, i)
        \/ u = t /\ i = Depth(t) + 1 /\ Obj(u, i)' = o /\ At(u, i)' = to
  <2> SUFFICES ASSUME NEW u \in User, NEW i \in 1..Depth(u)'
               PROVE  \/ i \in 1..Depth(u) /\ Obj(u, i)' = Obj(u, i) /\ At(u, i)' = At(u, i)
                      \/ u = t /\ i = Depth(t) + 1 /\ Obj(u, i)' = o /\ At(u, i)' = to
    OBVIOUS
  <2>1. CASE u = t /\ i = Depth(t) + 1
    BY <1>8, <2>1 DEF Obj, At
  <2>2. CASE ~(u = t /\ i = Depth(t) + 1)
    <3>1. i \in 1..Depth(u)
      <4>1. CASE u = t
        BY <1>5, <2>2, <4>1
      <4>2. CASE u # t
        BY <1>5, <4>2
      <4> QED
        BY <4>1, <4>2
    <3> QED
      BY <1>5, <3>1
  <2> QED
    BY <2>1, <2>2
<1>10. \A u \in User : \A i \in 1..Depth(u) :
         i \in 1..Depth(u)' /\ Obj(u, i)' = Obj(u, i) /\ At(u, i)' = At(u, i)
  <2> SUFFICES ASSUME NEW u \in User, NEW i \in 1..Depth(u) PROVE i \in 1..Depth(u)'
    BY <1>5
  <2>1. CASE u = t
    BY <1>5, <2>1
  <2>2. CASE u # t
    BY <1>5, <2>2
  <2> QED
    BY <2>1, <2>2
<1>11. to \notin Holding /\ to \notin {"construct", "release", "unlock", "abort"}
  BY <1>3 DEF Holding
<1>12. GuardTyped'
  BY <1>1, <1>2, <1>4 DEF GuardTyped, Entered
<1>13. OuterConstruct'
  <2> SUFFICES ASSUME NEW u \in User, NEW i \in 1..(Depth(u)' - 1) PROVE At(u, i)' = "construct"
    BY DEF OuterConstruct
  <2>1. CASE u = t /\ i = Depth(t)
    <3>1. Depth(t) # 0 /\ i \in 1..Depth(u)
      BY <1>5, <2>1
    <3> QED
      BY <1>7, <1>10, <2>1, <3>1
  <2>2. CASE u = t /\ i # Depth(t)
    <3>1. i \in 1..(Depth(u) - 1) /\ i \in 1..Depth(u)
      BY <1>5, <2>2
    <3> QED
      BY <1>1, <1>10, <3>1 DEF OuterConstruct
  <2>3. CASE u # t
    <3>1. i \in 1..(Depth(u) - 1) /\ i \in 1..Depth(u)
      BY <1>5, <1>6, <2>3
    <3> QED
      BY <1>1, <1>10, <3>1 DEF OuterConstruct
  <2> QED
    BY <2>1, <2>2, <2>3
<1>14. HolderInside'
  <2>1. \A u \in User : \A i \in 1..Depth(u)' : At(u, i)' \in Holding => cxaGuard' = u
    BY <1>1, <1>2, <1>9, <1>11 DEF HolderInside
  <2>2. \A u \in User : \A i, j \in 1..Depth(u)' :
          At(u, i)' \in Holding /\ At(u, j)' \in Holding => i = j
    BY <1>1, <1>9, <1>11 DEF HolderInside
  <2>3. \A u \in User : cxaGuard' = u => \E i \in 1..Depth(u)' : At(u, i)' \in Holding
    BY <1>1, <1>2, <1>10 DEF HolderInside
  <2> QED
    BY <2>1, <2>2, <2>3 DEF HolderInside
<1>15. BitKnown'
  BY <1>1, <1>2, <1>3, <1>9, <1>11 DEF BitKnown
<1>16. ASSUME NEW p \in Object PROVE Released(p)' <=> Released(p)
  <2>1. Released(p)' <=> \E u \in User : \E i \in 1..Depth(u)' : Obj(u, i)' = p /\ At(u, i)' = "release"
    BY DEF Released
  <2> QED
    BY <1>9, <1>10, <1>11, <2>1 DEF Released
<1>17. BuiltKnown'
  BY <1>1, <1>2, <1>16 DEF BuiltKnown
<1>18. InUseKnown'
  BY <1>1, <1>2, <1>9, <1>10, <1>11 DEF InUseKnown
<1> QED
  BY <1>12, <1>13, <1>14, <1>15, <1>17, <1>18 DEF GuardInv

LEMMA GuardInvariant == GuardSpec => []GuardInv
<1>1. GuardInit => GuardInv
  <2> SUFFICES ASSUME GuardInit PROVE GuardInv
    OBVIOUS
  <2>1. /\ doing = [t \in User |-> <<>>] /\ built = [o \in Object |-> 0] /\ initialized = {} /\ inuse = {}
        /\ cxaGuard = NoUser /\ ~guardPanic
    BY DEF GuardInit
  <2>2. GuardTyped
    BY <2>1 DEF GuardTyped
  <2>3. \A t \in User : Depth(t) = 0
    BY <2>1 DEF Depth
  <2> QED
    BY <2>1, <2>2, <2>3, GuardAssumption
       DEF GuardInv, OuterConstruct, HolderInside, BitKnown, BuiltKnown, InUseKnown, Released
<1>2. GuardInv /\ [GuardNext]_guardVars => GuardInv'
  <2> SUFFICES ASSUME GuardInv, [GuardNext]_guardVars PROVE GuardInv'
    OBVIOUS
  <2>1. ASSUME NEW t \in User, NEW o \in Object, Use(t, o) PROVE GuardInv'
    BY <2>1, LeaveKeeps DEF Use
  <2>2. CASE UNCHANGED guardVars
    <3>1. /\ doing' = doing /\ cxaGuard' = cxaGuard /\ built' = built /\ initialized' = initialized
          /\ aborts' = aborts /\ inuse' = inuse /\ guardPanic' = guardPanic
      BY <2>2 DEF guardVars
    <3>2. GuardTyped' /\ OuterConstruct'
      BY <3>1 DEF GuardInv, GuardTyped, OuterConstruct, Depth, At
    <3>3. HolderInside' /\ BitKnown'
      BY <3>1 DEF GuardInv, HolderInside, BitKnown, Depth, Obj, At
    <3>4. BuiltKnown' /\ InUseKnown'
      BY <3>1 DEF GuardInv, BuiltKnown, InUseKnown, Released, Depth, Obj, At
    <3> QED
      BY <3>2, <3>3, <3>4 DEF GuardInv
  <2> QED
    BY <2>1, <2>2, ReachKeeps, GuardLockKeeps, CheckKeeps, ConstructedKeeps, GuardReleaseKeeps,
       GuardAbortKeeps DEF GuardNext
<1> QED
  BY <1>1, <1>2, PTL DEF GuardSpec

(***************************************************************************)
(* However many tasks race for however many static objects, an object is    *)
(* constructed to its end once and not used before, the panic of            *)
(* __cxa_guard_acquire needs an aborted initialisation, and a task waits    *)
(* for its own mutex only from within a constructor.                        *)
(***************************************************************************)
THEOREM GuardsAlwaysHold == GuardSpec => []GuardsHold
<1>1. GuardInv => GuardsHold
  <2> SUFFICES ASSUME GuardInv PROVE GuardsHold
    OBVIOUS
  <2>1. BuiltOnceBeforeUse
    <3>1. \A o \in Object : built[o] <= 1
      BY DEF GuardInv, BuiltKnown
    <3>2. ASSUME NEW t \in User, NEW o \in Object, In(t, o, "use") PROVE built[o] = 1
      <4>1. o \in initialized
        BY <3>2, InFrame DEF GuardInv, BitKnown
      <4> QED
        BY <4>1 DEF GuardInv, BuiltKnown
    <3> QED
      BY <3>1, <3>2 DEF BuiltOnceBeforeUse
  <2>2. PanicNeedsAbort
    BY DEF GuardInv, InUseKnown, PanicNeedsAbort
  <2>3. ASSUME NEW t \in User, NEW o \in Object, In(t, o, "lock"), cxaGuard = t
        PROVE  \E i \in 1..(Len(doing[t]) - 1) : doing[t][i][2] = "construct"
    <3>1. PICK i \in 1..Depth(t) : At(t, i) \in Holding
      BY <2>3 DEF GuardInv, HolderInside
    <3>2. Depth(t) \in Nat /\ At(t, Depth(t)) = "lock"
      BY <2>3, InFrame
    <3>3. i # Depth(t)
      BY <3>1, <3>2 DEF Holding
    <3>4. i \in 1..(Depth(t) - 1)
      BY <3>2, <3>3
    <3> QED
      BY <3>4 DEF GuardInv, OuterConstruct, Depth, At
  <2> QED
    BY <2>1, <2>2, <2>3 DEF GuardsHold, SelfWaitNeedsNesting
<1> QED
  BY <1>1, GuardInvariant, PTL

(***************************************************************************)
(* Console.  Between two characters the parser is in one of four states;    *)
(* what a later character may use (the saved cursor, the reset colours, the *)
(* values given so far) has to be in range as well.                         *)
(***************************************************************************)
Word == 0..(WordMod - 1)
Colour == 0..15

LaterInRange ==
  /\ ansiCursorX \in Byte /\ ansiCursorY \in Byte
  /\ resetFore \in Colour /\ resetBack \in Colour
  /\ ansiValues \in Seq(Word)

(* Unless a sequence was cut short the index is not below the array, no       *)
(* value is there before the bracket, and no loop has left the array.       *)
ValuesOwned ==
  ~abandoned => /\ below = 0 /\ ~faulted
                /\ ansiState \in {"Normal", "Esc"} => ansiValues = <<>>

ConsoleInv == ConsoleTypeOK /\ LaterInRange /\ PrintedOnScreen /\ ValuesOwned

LEMMA LeastHit ==
  ASSUME NEW F, F \subseteq Nat, F # {}
  PROVE  \E i \in F : \A j \in F : i <= j
<1> DEFINE R == OpToRel(<, Nat)
<1>1. IsWellFoundedOn(R, Nat)
  BY NatLessThanWellFounded
<1>2. \A i, j \in Nat : <<j, i>> \in R <=> j < i
  BY DEF OpToRel
<1> HIDE DEF R
<1>3. PICK i \in F : \A j \in F : ~(<<j, i>> \in R)
  BY <1>1, WFMin
<1>4. \A j \in F : i \in Nat /\ j \in Nat /\ ~(j < i)
  BY <1>2, <1>3
<1> QED
  BY <1>4, SMT

LEMMA ModIn ==
  ASSUME NEW a \in Int, NEW m \in Nat \ {0}
  PROVE  a % m \in 0..(m - 1)
OBVIOUS

LEMMA Sizes ==
  /\ ByteMod \in Nat \ {0} /\ TabWidth \in Nat \ {0} /\ WordMod \in Nat \ {0} /\ WordMod >= 10
  /\ Columns \in 1..ByteMod /\ Rows \in 1..ByteMod
BY ConsoleAssumption

LEMMA CodeColour ==
  ASSUME NEW v \in Int, ForeCode(v)
  PROVE  ColorOf(v) \in Colour
<1>1. AnsiBlack \in Nat /\ BrightBlack \in Nat
  BY ConsoleAssumption
<1> QED
  BY <1>1 DEF ForeCode, Dark, ColorOf, Colour

(* The colour that the codes of a sequence leave behind.                     *)
LEMMA ForeWinner ==
  ASSUME NEW s \in Seq(Word), resetFore \in Colour, NEW old \in Colour
  PROVE  Winner(s, SetsFore, ForeOf, old) \in Colour
<1> DEFINE hits == {i \in DOMAIN s : SetsFore(s[i])}
<1>1. CASE hits = {}
  BY <1>1 DEF Winner
<1>2. CASE hits # {}
  <2> DEFINE w == CHOOSE i \in hits : \A j \in hits : i <= j
  <2>1. hits \subseteq Nat
    OBVIOUS
  <2>2. \E i \in hits : \A j \in hits : i <= j
    BY <1>2, <2>1, LeastHit
  <2>3. w \in hits
    BY <2>2
  <2>4. Winner(s, SetsFore, ForeOf, old) = ForeOf(s[w])
    BY <1>2 DEF Winner
  <2>5. s[w] \in Int /\ SetsFore(s[w])
    BY <2>3, Sizes DEF Word
  <2> HIDE DEF w
  <2> QED
    <3>1. ForeOf(s[w]) \in Colour
      BY <2>5, CodeColour DEF SetsFore, ForeOf
    <3> QED
      BY <2>4, <3>1, Zenon
<1> QED
  BY <1>1, <1>2

LEMMA BackWinner ==
  ASSUME NEW s \in Seq(Word), resetBack \in Colour, NEW old \in Colour
  PROVE  Winner(s, SetsBack, BackOf, old) \in Colour
<1> DEFINE hits == {i \in DOMAIN s : SetsBack(s[i])}
<1>1. CASE hits = {}
  BY <1>1 DEF Winner
<1>2. CASE hits # {}
  <2> DEFINE w == CHOOSE i \in hits : \A j \in hits : i <= j
  <2>1. hits \subseteq Nat
    OBVIOUS
  <2>2. \E i \in hits : \A j \in hits : i <= j
    BY <1>2, <2>1, LeastHit
  <2>3. w \in hits
    BY <2>2
  <2>4. Winner(s, SetsBack, BackOf, old) = BackOf(s[w])
    BY <1>2 DEF Winner
  <2>5. s[w] \in Int /\ SetsBack(s[w])
    BY <2>3, Sizes DEF Word
  <2> HIDE DEF w
  <2> QED
    <3>1. BackOf(s[w]) \in Colour
      <4>1. s[w] - Background \in Int
        BY <2>5, ConsoleAssumption
      <4> QED
        BY <2>5, <4>1, CodeColour DEF SetsBack, BackOf
    <3> QED
      BY <2>4, <3>1, Zenon
<1> QED
  BY <1>1, <1>2

(* The values with the one just read, and how far the index is below 0.      *)
LEMMA PushedValues ==
  ASSUME ConsoleInv
  PROVE  /\ Pushed \in Seq(Word) /\ BelowPushed \in 0..1
         /\ ~abandoned => BelowPushed = 0
<1>1. ansiValues \in Seq(Word) /\ ansiVal \in Word /\ below \in 0..2 /\ (~abandoned => below = 0)
  BY DEF ConsoleInv, ConsoleTypeOK, LaterInRange, ValuesOwned, Word
<1>2. Pushed \in Seq(Word)
  BY <1>1 DEF Pushed
<1> QED
  BY <1>1, <1>2 DEF BelowPushed

(* Where a printed character leaves the cursor.                              *)
LEMMA PlacedOnScreen ==
  ASSUME NEW x \in Byte, NEW y \in Byte
  PROVE  /\ Placed(x, y)[1] \in Byte /\ Placed(x, y)[1] < Columns
         /\ Placed(x, y)[2] \in Byte /\ Placed(x, y)[2] < Rows
<1>1. (y + 1) % ByteMod \in Byte
  BY Sizes, ModIn DEF Byte
<1> DEFINE y1 == IF x >= Columns THEN (y + 1) % ByteMod ELSE y
           x1 == IF x >= Columns THEN 0 ELSE x
<1>2. y1 \in Byte /\ x1 \in Byte /\ x1 < Columns
  BY <1>1, Sizes DEF Byte
<1> HIDE DEF x1, y1
<1>3. Placed(x, y) = IF y1 >= Rows THEN <<0, Rows - 1>> ELSE <<x1, y1>>
  BY DEF Placed, x1, y1
<1>4. CASE y1 >= Rows
  <2>1. Placed(x, y) = <<0, Rows - 1>>
    BY <1>3, <1>4
  <2>2. Placed(x, y)[1] = 0 /\ Placed(x, y)[2] = Rows - 1
    BY <2>1
  <2> QED
    BY <2>2, Sizes DEF Byte
<1>5. CASE ~(y1 >= Rows)
  <2>1. Placed(x, y) = <<x1, y1>>
    BY <1>3, <1>5
  <2>2. Placed(x, y)[1] = x1 /\ Placed(x, y)[2] = y1
    BY <2>1
  <2> QED
    BY <1>2, <1>5, <2>2, Sizes DEF Byte
<1> QED
  BY <1>4, <1>5

LEMMA ColumnLine ==
  ASSUME cursorX \in Byte, cursorY \in Byte,
         NEW kind \in {"backspace", "newline", "tab", "return", "glyph"}
  PROVE  Column(kind) \in Byte /\ Line(kind) \in Byte
<1>1. cursorX \in Nat /\ cursorX < ByteMod /\ cursorY \in Nat /\ cursorY < ByteMod
  BY Sizes DEF Byte
<1>2. /\ (cursorX + 1) % ByteMod \in Byte /\ (cursorY + 1) % ByteMod \in Byte
  BY <1>1, Sizes, ModIn DEF Byte
<1>3. (((cursorX \div TabWidth) + 1) * TabWidth) % ByteMod \in Byte
  <2>1. cursorX \div TabWidth \in Int
    BY <1>1, Sizes
  <2>2. ((cursorX \div TabWidth) + 1) * TabWidth \in Int
    BY <2>1, Sizes
  <2> QED
    BY <2>2, Sizes, ModIn DEF Byte
<1>4. 0 \in Byte /\ (cursorX > 0 => cursorX - 1 \in Byte)
  BY <1>1, Sizes DEF Byte
<1>5. Line(kind) \in Byte
  BY <1>2 DEF Line
<1>6. kind = "backspace" => Column(kind) \in Byte
  BY <1>4 DEF Column
<1>7. kind = "tab" => Column(kind) \in Byte
  BY <1>3 DEF Column
<1>8. kind = "glyph" => Column(kind) \in Byte
  BY <1>2 DEF Column
<1>9. kind \in {"newline", "return"} => Column(kind) \in Byte
  BY <1>4 DEF Column
<1> QED
  BY <1>5, <1>6, <1>7, <1>8, <1>9

(* Characters that only move the parser on.                                 *)
LEMMA DigitValue ==
  ASSUME ConsoleInv, NEW d \in Digit
  PROVE  d \in Word /\ (ansiVal * 10 + d) % WordMod \in Word
<1>1. ansiVal \in Word /\ d \in Nat /\ d < 10 /\ d \in Word
  BY ConsoleAssumption, Sizes DEF ConsoleInv, ConsoleTypeOK, Word
<1>2. ansiVal * 10 + d \in Int
  BY <1>1, Sizes DEF Word
<1> QED
  BY <1>1, <1>2, Sizes, ModIn DEF Word

LEMMA ParserStep ==
  ASSUME ConsoleInv, Escape \/ OpenBracket \/ ClearScreen \/ \E d \in Digit : FirstDigit(d) \/ NextDigit(d)
  PROVE  ConsoleInv'
<1>1. /\ UNCHANGED <<cursor, saved, colors, values, faulted>> /\ printed' = FALSE
      /\ (abandoned => abandoned')
      /\ ansiState' \in {"Normal", "Esc"} => ansiState = "Normal"
  BY DEF Escape, OpenBracket, FirstDigit, NextDigit, ClearScreen, Accept, history
<1>2. ansiVal' \in Word
  <2>1. CASE Escape \/ OpenBracket \/ ClearScreen
    BY <2>1 DEF Escape, OpenBracket, ClearScreen, Accept, ConsoleInv, ConsoleTypeOK, Word
  <2>2. ASSUME NEW d \in Digit, FirstDigit(d) \/ NextDigit(d) PROVE ansiVal' \in Word
    BY <2>2, DigitValue DEF FirstDigit, NextDigit, Accept
  <2> QED
    BY <2>1, <2>2
<1>3. ValuesOwned'
  BY <1>1 DEF ConsoleInv, ValuesOwned, values
<1> QED
  BY <1>1, <1>2, <1>3 DEF ConsoleInv, ConsoleTypeOK, LaterInRange, PrintedOnScreen, cursor, saved,
                          colors, values, Word

LEMMA SeparatorKeeps == ConsoleInv /\ Separator => ConsoleInv'
<1> SUFFICES ASSUME ConsoleInv, Separator PROVE ConsoleInv'
  OBVIOUS
<1>1. /\ ansiValues' = Pushed /\ below' = BelowPushed /\ ansiState' = "Bracket" /\ ansiVal' = 0
      /\ printed' = FALSE /\ UNCHANGED <<cursor, saved, colors, faulted>>
      /\ (abandoned => abandoned') /\ ~faulted
  BY DEF Separator, Accept
<1>2. 0 \in Word
  BY Sizes DEF Word
<1>3. below' \in 0..2 /\ ansiValues' \in Seq(Word) /\ (~abandoned' => below' = 0)
  BY <1>1, PushedValues
<1> QED
  BY <1>1, <1>2, <1>3 DEF ConsoleInv, ConsoleTypeOK, LaterInRange, PrintedOnScreen, ValuesOwned,
                          cursor, saved, colors, Word

(* 's' and 'u'.                                                             *)
LEMMA CursorSaves == ConsoleInv /\ (SaveCursor \/ RestoreCursor) => ConsoleInv'
<1> SUFFICES ASSUME ConsoleInv, SaveCursor \/ RestoreCursor PROVE ConsoleInv'
  OBVIOUS
<1>1. /\ ansiVal' = 0 /\ printed' = FALSE /\ UNCHANGED <<colors, values, faulted>> /\ ~faulted
      /\ abandoned' = (abandoned \/ ansiValues # <<>> \/ below > 0)
  BY DEF SaveCursor, RestoreCursor, Normal, Accept, TakesNoValue
<1>2. cursorX' \in Byte /\ cursorY' \in Byte /\ ansiCursorX' \in Byte /\ ansiCursorY' \in Byte
  BY DEF SaveCursor, RestoreCursor, ConsoleInv, ConsoleTypeOK, LaterInRange, cursor, saved
<1>3. 0 \in Word
  BY Sizes DEF Word
<1>4. below \in 0..2
  BY DEF ConsoleInv, ConsoleTypeOK
<1>5. ~abandoned' => ansiValues = <<>> /\ below = 0
  <2>1. ~abandoned' => ansiValues = <<>> /\ ~(below > 0)
    BY <1>1, Zenon
  <2>2. ~(below > 0) => below = 0
    BY <1>4
  <2> QED
    BY <2>1, <2>2
<1> QED
  BY <1>1, <1>2, <1>3, <1>5 DEF ConsoleInv, ConsoleTypeOK, LaterInRange, PrintedOnScreen, ValuesOwned,
                                colors, values, Word

LEMMA SetColorsKeeps == ConsoleInv /\ SetColors => ConsoleInv'
<1> SUFFICES ASSUME ConsoleInv, SetColors PROVE ConsoleInv'
  OBVIOUS
<1>1. /\ ansiVal' = 0 /\ printed' = FALSE /\ ansiValues' = <<>> /\ below' = 0
      /\ UNCHANGED <<cursor, saved, resetFore, resetBack, faulted>> /\ ~faulted
  BY DEF SetColors, Empties, Normal, Accept
<1>2. Pushed \in Seq(Word) /\ resetFore \in Colour /\ resetBack \in Colour
      /\ colorFore \in Colour /\ colorBack \in Colour
  BY PushedValues DEF ConsoleInv, ConsoleTypeOK, LaterInRange, Colour
<1>3. colorFore' \in Colour
  <2>1. Winner(Pushed, SetsFore, ForeOf, colorFore) \in Colour
    BY <1>2, ForeWinner
  <2> QED
    BY <2>1, Zenon DEF SetColors
<1>4. colorBack' \in Colour
  <2>1. Winner(Pushed, SetsBack, BackOf, colorBack) \in Colour
    BY <1>2, BackWinner
  <2> QED
    BY <2>1, Zenon DEF SetColors
<1>5. 0 \in Word /\ <<>> \in Seq(Word)
  BY Sizes DEF Word
<1> QED
  BY <1>1, <1>3, <1>4, <1>5 DEF ConsoleInv, ConsoleTypeOK, LaterInRange, PrintedOnScreen, ValuesOwned,
                                cursor, saved, Word, Colour

LEMMA SetCursorKeeps == ConsoleInv /\ SetCursor => ConsoleInv'
<1> SUFFICES ASSUME ConsoleInv, SetCursor PROVE ConsoleInv'
  OBVIOUS
<1>1. /\ ansiVal' = 0 /\ printed' = FALSE /\ ansiValues' = <<>> /\ below' = 2 - Len(Pushed)
      /\ Len(Pushed) <= 2 /\ abandoned' = (Len(Pushed) < 2)
      /\ UNCHANGED <<saved, colors, faulted>> /\ ~faulted
      /\ cursorX' = ansiVal % ByteMod
      /\ cursorY' \in (IF Len(Pushed) < 2 THEN Byte ELSE {Pushed[1] % ByteMod})
  BY DEF SetCursor, Normal, Accept
<1>2. Pushed \in Seq(Word) /\ Len(Pushed) \in Nat
  BY PushedValues
<1>3. \A v \in Word : v % ByteMod \in Byte
  <2> SUFFICES ASSUME NEW v \in Word PROVE v % ByteMod \in Byte
    OBVIOUS
  <2>1. v \in Int
    BY Sizes DEF Word
  <2> QED
    BY <2>1, Sizes, ModIn DEF Byte
<1>4. cursorX' \in Byte
  BY <1>1, <1>3 DEF ConsoleInv, ConsoleTypeOK, Word
<1>5. cursorY' \in Byte
  <2>1. CASE Len(Pushed) < 2
    BY <1>1, <2>1
  <2>2. CASE ~(Len(Pushed) < 2)
    <3>1. Pushed[1] \in Word
      BY <1>2, <2>2
    <3> QED
      BY <1>1, <1>3, <2>2, <3>1
  <2> QED
    BY <2>1, <2>2
<1>6. below' \in 0..2 /\ (~abandoned' => below' = 0)
  <2>1. ~abandoned' => ~(Len(Pushed) < 2)
    BY <1>1, Zenon
  <2>2. below' = 2 - Len(Pushed) /\ Len(Pushed) <= 2
    BY <1>1
  <2>3. below' \in 0..2 /\ (~(Len(Pushed) < 2) => below' = 0)
    <3>1. \A n \in Nat : n <= 2 => 2 - n \in 0..2 /\ (~(n < 2) => 2 - n = 0)
      OBVIOUS
    <3> QED
      BY <1>2, <2>2, <3>1, Zenon
  <2> QED
    BY <2>1, <2>3, Zenon
<1>7. 0 \in Word /\ <<>> \in Seq(Word)
  BY Sizes DEF Word
<1> QED
  BY <1>1, <1>4, <1>5, <1>6, <1>7 DEF ConsoleInv, ConsoleTypeOK, LaterInRange, PrintedOnScreen,
                                      ValuesOwned, saved, colors, Word

LEMMA RejectKeeps == ConsoleInv /\ Reject => ConsoleInv'
<1> SUFFICES ASSUME ConsoleInv, Reject PROVE ConsoleInv'
  OBVIOUS
<1>1. /\ ansiVal' = 0 /\ printed' = FALSE /\ ansiValues' = <<>> /\ below' = 0
      /\ UNCHANGED <<cursor, saved, colors, faulted>> /\ ~faulted
  BY DEF Reject, Empties, Normal, Accept
<1>2. 0 \in Word /\ <<>> \in Seq(Word)
  BY Sizes DEF Word
<1> QED
  BY <1>1, <1>2 DEF ConsoleInv, ConsoleTypeOK, LaterInRange, PrintedOnScreen, ValuesOwned,
                    cursor, saved, colors, Word

LEMMA PopThroughMemoryKeeps == ConsoleInv /\ PopThroughMemory => ConsoleInv'
<1> SUFFICES ASSUME ConsoleInv, PopThroughMemory PROVE ConsoleInv'
  OBVIOUS
<1>1. /\ BelowPushed > 0 /\ abandoned' = abandoned
      /\ UNCHANGED <<cursor, saved, colors, ansiState, ansiVal, values, printed>>
  BY DEF PopThroughMemory, history
<1>2. abandoned
  BY <1>1, PushedValues
<1> QED
  BY <1>1, <1>2 DEF ConsoleInv, ConsoleTypeOK, LaterInRange, PrintedOnScreen, ValuesOwned,
                    cursor, saved, colors, values

LEMMA PrintCharKeeps ==
  ASSUME ConsoleInv, NEW kind \in {"backspace", "newline", "tab", "return", "glyph"}, PrintChar(kind)
  PROVE  ConsoleInv'
<1>1. cursorX \in Byte /\ cursorY \in Byte
  BY DEF ConsoleInv, ConsoleTypeOK
<1>2. Column(kind) \in Byte /\ Line(kind) \in Byte
  BY <1>1, ColumnLine
<1>3. /\ cursorX' = Placed(Column(kind), Line(kind))[1] /\ cursorY' = Placed(Column(kind), Line(kind))[2]
      /\ abandoned' = (abandoned \/ ansiState # "Normal")
      /\ UNCHANGED <<saved, colors, ansiVal, values, faulted>>
  BY DEF PrintChar
<1>4. cursorX' \in Byte /\ cursorX' < Columns /\ cursorY' \in Byte /\ cursorY' < Rows
  BY <1>2, <1>3, PlacedOnScreen
<1>5. ValuesOwned'
  BY <1>3 DEF ConsoleInv, ValuesOwned, values
<1> QED
  BY <1>3, <1>4, <1>5 DEF ConsoleInv, ConsoleTypeOK, LaterInRange, PrintedOnScreen, saved, colors, values

LEMMA ResetKeeps ==
  ASSUME ConsoleInv, NEW fore \in Colour, NEW back \in Colour, ResetTo(fore, back)
  PROVE  ConsoleInv'
<1>1. /\ cursorX' = 0 /\ cursorY' = 0
      /\ colorFore' = fore /\ resetFore' = fore /\ colorBack' = back /\ resetBack' = back
      /\ UNCHANGED <<saved, ansiState, ansiVal, values, faulted, printed, abandoned>>
  BY DEF ResetTo, history
<1>2. 0 \in Byte /\ 0 < Columns /\ 0 < Rows
  BY Sizes DEF Byte
<1> QED
  BY <1>1, <1>2 DEF ConsoleInv, ConsoleTypeOK, LaterInRange, PrintedOnScreen, ValuesOwned, saved,
                    values, Colour

(***************************************************************************)
(* On a screen and with integers of any size, no sequence of characters     *)
(* leaves putchar with a cursor that the next character cannot be printed   *)
(* at or with a colour outside ansiVGATable; and while every sequence since  *)
(* the stack was last emptied ended as it is meant to, no value of an old   *)
(* sequence is left and the loop of 'm' has not left the array.  Malformed   *)
(* sequences do spoil the ones after them: ColorsApplied is violated.       *)
(***************************************************************************)
THEOREM ConsoleAlwaysRecovers == ConsoleSpec => []ConsoleRecovers
<1>1. ConsoleInit => ConsoleInv
  <2> SUFFICES ASSUME ConsoleInit PROVE ConsoleInv
    OBVIOUS
  <2>1. 0 \in Byte /\ 0 \in Word /\ <<>> \in Seq(Word)
    BY Sizes DEF Byte, Word
  <2> QED
    BY <2>1 DEF ConsoleInit, ConsoleInv, ConsoleTypeOK, LaterInRange, PrintedOnScreen, ValuesOwned,
                White, Black, Colour, Word
<1>2. ConsoleInv /\ [ConsoleNext]_consoleVars => ConsoleInv'
  <2> SUFFICES ASSUME ConsoleInv, [ConsoleNext]_consoleVars PROVE ConsoleInv'
    OBVIOUS
  <2>1. CASE Escape \/ OpenBracket \/ ClearScreen
    BY <2>1, ParserStep
  <2>2. ASSUME NEW d \in Digit, FirstDigit(d) \/ NextDigit(d) PROVE ConsoleInv'
    BY <2>2, ParserStep
  <2>3. CASE \/ Separator \/ SaveCursor \/ RestoreCursor \/ SetColors \/ SetCursor
             \/ PopThroughMemory \/ Reject
    BY <2>3, SeparatorKeeps, CursorSaves, SetColorsKeeps, SetCursorKeeps, PopThroughMemoryKeeps,
       RejectKeeps
  <2>4. ASSUME NEW kind \in {"backspace", "newline", "tab", "return", "glyph"}, PrintChar(kind)
        PROVE  ConsoleInv'
    BY <2>4, PrintCharKeeps
  <2>5. ASSUME NEW fore \in Palette, NEW back \in Palette, ResetTo(fore, back) PROVE ConsoleInv'
    BY <2>5, ResetKeeps, ConsoleAssumption DEF Colour
  <2>6. CASE Reset
    BY <2>6, ResetKeeps DEF Reset, ConsoleInv, LaterInRange
  <2>7. CASE UNCHANGED consoleVars
    BY <2>7 DEF consoleVars, ConsoleInv, ConsoleTypeOK, LaterInRange, PrintedOnScreen, ValuesOwned,
                cursor, saved, colors, values, history
  <2> QED
    BY <2>1, <2>2, <2>3, <2>4, <2>5, <2>6, <2>7 DEF ConsoleNext
<1>3. ConsoleInv => ConsoleRecovers
  BY DEF ConsoleInv, ConsoleRecovers, ValuesOwned, NoValueLeftOver
<1> QED
  BY <1>1, <1>2, <1>3, PTL DEF ConsoleSpec

(***************************************************************************)
(* Logger.  A call that nothing disturbed owns the buffer from its first    *)
(* half on, although it holds no lock.                                      *)
(***************************************************************************)
LogStages == {"idle", "lock", "unlock", "head", "tail", "print", "call"}
Author == Client \cup {NoOne}
LogLine == (Writer \cup {NoOne}) \X Author \X Author
LogTyped ==
  /\ m_writers \in Seq(Writer \cup {NoOne}) /\ m_logBuffer \in Author \X Author
  /\ stage \in [Client -> LogStages] /\ slot \in [Client -> Nat]
  /\ got \in [Client -> Seq(LogLine)]
  /\ disturbed \in [Client -> BOOLEAN]

(* Where a call stands, disturbed or not.                                   *)
CallKnown ==
  \A t \in Client :
    /\ stage[t] \in {"lock", "unlock", "head", "tail"} => got[t] = <<>>
    /\ stage[t] \in {"print", "call"} => slot[t] >= 1
    /\ stage[t] = "call" => slot[t] <= Len(m_writers)

(* What an undisturbed call knows of the buffer and of the next writer.     *)
BufferOwned ==
  \A t \in Client : ~disturbed[t] =>
    /\ stage[t] = "tail" => m_logBuffer[1] = t
    /\ stage[t] \in {"print", "call"} => m_logBuffer = <<t, t>>
    /\ stage[t] = "call" => m_writers[slot[t]] # NoOne

LogInv == LogTyped /\ CallKnown /\ BufferOwned /\ LineWhole

(* The line of t on the writers it has passed.                              *)
OnPassed(t) ==
  \E at \in [1..Len(got[t]) -> Passed(t)] :
    /\ \A i, j \in 1..Len(got[t]) : i < j => at[i] < at[j]
    /\ \A k \in Passed(t) : \E i \in 1..Len(got[t]) : at[i] = k
    /\ \A i \in 1..Len(got[t]) : got[t][i] = <<m_writers[at[i]], t, t>>

LEMMA WholeIs ==
  LineWhole <=> \A t \in Client : (stage[t] \in {"print", "call"} /\ ~disturbed[t]) => OnPassed(t)
  BY DEF LineWhole, OnPassed

LEMMA LogInit == LoggerInit => LogInv
<1> SUFFICES ASSUME LoggerInit PROVE LogInv
  OBVIOUS
<1>1. LogTyped
  BY DEF LoggerInit, LogTyped, LogStages, Author
<1>2. CallKnown /\ BufferOwned /\ LineWhole
  BY DEF LoggerInit, CallKnown, BufferOwned, LineWhole
<1> QED
  BY <1>1, <1>2 DEF LogInv

(* A call whose own state and whose buffer and writers stay keeps its line. *)
LEMMA OnPassedKept ==
  ASSUME NEW t \in Client, OnPassed(t), got'[t] = got[t], slot'[t] = slot[t], m_writers' = m_writers
  PROVE  OnPassed(t)'
  BY DEF OnPassed, Passed

(* Steps that touch neither the buffer nor the writers nor a printing call. *)
LEMMA LogStepKeeps ==
  ASSUME LogInv, NEW t \in Client, NEW from \in LogStages, NEW to \in LogStages,
         LogStep(t, from, to), UNCHANGED <<m_writers, m_logBuffer, slot>>,
         to \in {"idle", "lock", "unlock", "head"},
         got' = got \/ got' = [got EXCEPT ![t] = <<>>],
         from \in {"lock", "unlock"} => got' = got,
         to = "lock" => got'[t] = <<>>,
         disturbed' = disturbed \/ disturbed' = [disturbed EXCEPT ![t] = FALSE],
         from \in {"idle", "lock", "unlock", "print"}, from = "idle" => to = "lock",
         from = "print" => to = "idle"
  PROVE  LogInv'
<1>1. /\ stage[t] = from /\ stage' = [stage EXCEPT ![t] = to]
      /\ m_writers' = m_writers /\ m_logBuffer' = m_logBuffer /\ slot' = slot
  BY DEF LogStep
<1>2. /\ stage \in [Client -> LogStages] /\ disturbed \in [Client -> BOOLEAN]
      /\ got \in [Client -> Seq(LogLine)]
  BY DEF LogInv, LogTyped
<1>3. \A u \in Client \ {t} : stage'[u] = stage[u] /\ disturbed'[u] = disturbed[u] /\ got'[u] = got[u]
  BY <1>1, <1>2
<1>4. stage'[t] = to
  BY <1>1, <1>2
<1>5. LogTyped'
  <2>1. got' \in [Client -> Seq(LogLine)]
    <3>1. <<>> \in Seq(LogLine)
      OBVIOUS
    <3> QED
      BY <1>2, <3>1
  <2>2. stage' \in [Client -> LogStages] /\ disturbed' \in [Client -> BOOLEAN]
    BY <1>1, <1>2
  <2> QED
    BY <1>1, <2>1, <2>2 DEF LogInv, LogTyped
<1>6. CallKnown'
  <2>1. got'[t] = <<>> \/ to = "idle"
    BY <1>1, <1>2, <1>4 DEF LogInv, CallKnown
  <2>2. \A u \in Client \ {t} :
          /\ stage'[u] \in {"lock", "unlock", "head", "tail"} => got'[u] = <<>>
          /\ stage'[u] \in {"print", "call"} => slot'[u] >= 1
          /\ stage'[u] = "call" => slot'[u] <= Len(m_writers')
    BY <1>1, <1>3 DEF LogInv, CallKnown
  <2> QED
    BY <1>4, <2>1, <2>2 DEF CallKnown
<1>7. BufferOwned'
  BY <1>1, <1>3, <1>4 DEF LogInv, BufferOwned
<1>8. LineWhole'
  <2> SUFFICES ASSUME NEW u \in Client, stage'[u] \in {"print", "call"}, ~disturbed'[u]
               PROVE  OnPassed(u)'
    BY DEF LineWhole, OnPassed
  <2>1. u # t
    BY <1>4
  <2>2. OnPassed(u)
    BY <1>3, <2>1, WholeIs DEF LogInv
  <2> QED
    BY <1>1, <1>3, <2>1, <2>2, OnPassedKept
<1> QED
  BY <1>5, <1>6, <1>7, <1>8 DEF LogInv

(* ksprintf: whoever is past its first half is disturbed from now on.       *)
LEMMA FormatHeadKeeps ==
  ASSUME LogInv, NEW t \in Client, FormatHead(t)
  PROVE  LogInv'
<1>1. /\ stage[t] = "head" /\ stage' = [stage EXCEPT ![t] = "tail"]
      /\ m_logBuffer' = <<t, m_logBuffer[2]>>
      /\ disturbed' = [u \in Client |-> disturbed[u] \/ (u # t /\ Busy(u))]
      /\ m_writers' = m_writers /\ slot' = slot /\ got' = got
  BY DEF FormatHead, LogStep, Disturb
<1>2. stage \in [Client -> LogStages] /\ m_logBuffer[2] \in Author
  BY DEF LogInv, LogTyped
<1>3. /\ stage'[t] = "tail" /\ \A u \in Client \ {t} : stage'[u] = stage[u]
      /\ \A u \in Client \ {t} : ~disturbed'[u] => ~Busy(u)
  BY <1>1, <1>2
<1>4. LogTyped'
  <2>1. m_logBuffer' \in Author \X Author
    BY <1>1, <1>2 DEF Author
  <2>2. stage' \in [Client -> LogStages] /\ disturbed' \in [Client -> BOOLEAN]
    BY <1>1, <1>2 DEF LogStages, LogInv, LogTyped
  <2> QED
    BY <1>1, <2>1, <2>2 DEF LogInv, LogTyped
<1>5. CallKnown'
  BY <1>1, <1>3 DEF LogInv, CallKnown
<1>6. BufferOwned' /\ LineWhole'
  BY <1>1, <1>3 DEF BufferOwned, LineWhole, Busy
<1> QED
  BY <1>4, <1>5, <1>6 DEF LogInv

LEMMA FormatTailKeeps ==
  ASSUME LogInv, NEW t \in Client, FormatTail(t)
  PROVE  LogInv'
<1>1. /\ stage[t] = "tail" /\ stage' = [stage EXCEPT ![t] = "print"]
      /\ m_logBuffer' = <<m_logBuffer[1], t>> /\ slot' = [slot EXCEPT ![t] = 1]
      /\ disturbed' = [u \in Client |-> disturbed[u] \/ (u # t /\ Busy(u))]
      /\ m_writers' = m_writers /\ got' = got
  BY DEF FormatTail, LogStep, Disturb
<1>2. /\ stage \in [Client -> LogStages] /\ m_logBuffer[1] \in Author /\ slot \in [Client -> Nat]
      /\ disturbed \in [Client -> BOOLEAN]
  BY DEF LogInv, LogTyped
<1>3. /\ stage'[t] = "print" /\ slot'[t] = 1 /\ (~disturbed'[t] => ~disturbed[t])
      /\ \A u \in Client \ {t} : stage'[u] = stage[u] /\ slot'[u] = slot[u]
      /\ \A u \in Client \ {t} : ~disturbed'[u] => ~Busy(u)
  BY <1>1, <1>2
<1>4. LogTyped'
  <2>1. m_logBuffer' \in Author \X Author
    BY <1>1, <1>2 DEF Author
  <2>2. stage' \in [Client -> LogStages] /\ disturbed' \in [Client -> BOOLEAN] /\ slot' \in [Client -> Nat]
    BY <1>1, <1>2 DEF LogStages
  <2> QED
    BY <1>1, <2>1, <2>2 DEF LogInv, LogTyped
<1>5. CallKnown'
  BY <1>1, <1>3 DEF LogInv, CallKnown
<1>6. BufferOwned'
  BY <1>1, <1>3 DEF LogInv, BufferOwned, Busy
<1>7. OnPassed(t)'
  <2>1. got'[t] = <<>> /\ Len(got'[t]) = 0
    BY <1>1 DEF LogInv, CallKnown
  <2>2. Passed(t)' = {}
    BY <1>3 DEF Passed
  <2>3. [i \in {} |-> 1] \in [1..Len(got'[t]) -> Passed(t)']
    BY <2>1
  <2> QED
    BY <2>1, <2>2, <2>3 DEF OnPassed
<1>8. LineWhole'
  <2> SUFFICES ASSUME NEW u \in Client, stage'[u] \in {"print", "call"}, ~disturbed'[u]
               PROVE  OnPassed(u)'
    BY DEF LineWhole, OnPassed
  <2>1. u = t
    BY <1>3 DEF Busy
  <2> QED
    BY <1>7, <2>1
<1> QED
  BY <1>4, <1>5, <1>6, <1>8 DEF LogInv

(* LogHelperPrint, the test: an empty slot is passed without a line.        *)
LEMMA TestWriterKeeps ==
  ASSUME LogInv, NEW t \in Client, TestWriter(t)
  PROVE  LogInv'
<1>1. /\ slot[t] <= Len(m_writers) /\ stage[t] = "print"
      /\ m_writers' = m_writers /\ m_logBuffer' = m_logBuffer /\ got' = got /\ disturbed' = disturbed
  BY DEF TestWriter, LogStep
<1>2. /\ stage \in [Client -> LogStages] /\ slot \in [Client -> Nat] /\ slot[t] \in Nat /\ slot[t] >= 1
  BY <1>1 DEF LogInv, LogTyped, CallKnown
<1>3. \A u \in Client : stage[u] \in {"print", "call"} /\ ~disturbed[u] => OnPassed(u)
  BY WholeIs DEF LogInv
<1>4. CASE m_writers[slot[t]] # NoOne /\ stage' = [stage EXCEPT ![t] = "call"] /\ slot' = slot
  <2>1. stage'[t] = "call" /\ \A u \in Client \ {t} : stage'[u] = stage[u]
    BY <1>2, <1>4
  <2>2. LogTyped'
    BY <1>1, <1>2, <1>4 DEF LogInv, LogTyped, LogStages
  <2>3. CallKnown'
    BY <1>1, <1>2, <1>4, <2>1 DEF LogInv, CallKnown
  <2>4. BufferOwned'
    BY <1>1, <1>4, <2>1 DEF LogInv, BufferOwned
  <2>5. ASSUME NEW u \in Client, stage'[u] \in {"print", "call"}, ~disturbed'[u] PROVE OnPassed(u)'
    BY <1>1, <1>3, <1>4, <2>1, <2>5, OnPassedKept
  <2> QED
    BY <2>2, <2>3, <2>4, <2>5 DEF LogInv, LineWhole, OnPassed
<1>5. CASE m_writers[slot[t]] = NoOne /\ stage' = stage /\ slot' = [slot EXCEPT ![t] = @ + 1]
  <2>1. slot'[t] = slot[t] + 1 /\ \A u \in Client \ {t} : slot'[u] = slot[u]
    BY <1>2, <1>5
  <2>2. LogTyped'
    BY <1>1, <1>2, <1>5 DEF LogInv, LogTyped
  <2>3. CallKnown'
    BY <1>1, <1>2, <1>5, <2>1 DEF LogInv, CallKnown
  <2>4. BufferOwned'
    BY <1>1, <1>5, <2>1 DEF LogInv, BufferOwned
  <2>5. Passed(t)' = Passed(t)
    <3>1. \A k : k \in 1..(slot'[t] - 1) <=> (k \in 1..(slot[t] - 1) \/ k = slot[t])
      BY <1>2, <2>1
    <3> QED
      BY <1>1, <1>5, <3>1 DEF Passed
  <2>6. ASSUME NEW u \in Client, stage'[u] \in {"print", "call"}, ~disturbed'[u] PROVE OnPassed(u)'
    <3>1. OnPassed(u)
      BY <1>1, <1>3, <1>5, <2>6
    <3>2. CASE u = t
      BY <1>1, <2>5, <3>1, <3>2 DEF OnPassed
    <3>3. CASE u # t
      BY <1>1, <2>1, <3>1, <3>3, OnPassedKept
    <3> QED
      BY <3>2, <3>3
  <2> QED
    BY <2>2, <2>3, <2>4, <2>6 DEF LogInv, LineWhole, OnPassed
<1> QED
  BY <1>4, <1>5 DEF TestWriter, LogStep

(* LogHelperPrint, the call.                                                *)
LEMMA CallWriterKeeps ==
  ASSUME LogInv, NEW t \in Client, CallWriter(t)
  PROVE  LogInv'
<1> DEFINE l == <<m_writers[slot[t]], m_logBuffer[1], m_logBuffer[2]>>  g == got[t]  p == slot[t]
<1>1. /\ stage[t] = "call" /\ stage' = [stage EXCEPT ![t] = "print"]
      /\ got' = [got EXCEPT ![t] = Append(got[t], l)] /\ slot' = [slot EXCEPT ![t] = slot[t] + 1]
      /\ m_writers' = m_writers /\ m_logBuffer' = m_logBuffer /\ disturbed' = disturbed
  BY DEF CallWriter, LogStep
<1>2. /\ stage \in [Client -> LogStages] /\ slot \in [Client -> Nat] /\ p \in Nat /\ p >= 1
      /\ p <= Len(m_writers) /\ m_writers \in Seq(Writer \cup {NoOne})
      /\ got \in [Client -> Seq(LogLine)] /\ g \in Seq(LogLine)
  BY <1>1 DEF LogInv, LogTyped, CallKnown
<1>3. l \in LogLine
  <2>1. m_writers[p] \in Writer \cup {NoOne}
    BY <1>2
  <2>2. m_logBuffer[1] \in Author /\ m_logBuffer[2] \in Author
    BY DEF LogInv, LogTyped
  <2> QED
    BY <2>1, <2>2 DEF LogLine
<1> HIDE DEF LogLine
<1>4. /\ Append(g, l) \in Seq(LogLine) /\ Len(Append(g, l)) = Len(g) + 1 /\ Append(g, l)[Len(g) + 1] = l
      /\ (\A i \in 1..Len(g) : Append(g, l)[i] = g[i]) /\ Len(g) \in Nat
  <2> HIDE DEF l, g
  <2> QED
    BY <1>2, <1>3, AppendProperties
<1> DEFINE h == Append(g, l)
<1>5. /\ stage'[t] = "print" /\ slot'[t] = p + 1 /\ got'[t] = h
      /\ \A u \in Client \ {t} : stage'[u] = stage[u] /\ slot'[u] = slot[u] /\ got'[u] = got[u]
  BY <1>1, <1>2
<1>6. LogTyped'
  <2>1. got' \in [Client -> Seq(LogLine)]
    BY <1>1, <1>2, <1>4
  <2>2. slot' \in [Client -> Nat] /\ stage' \in [Client -> LogStages]
    BY <1>1, <1>2 DEF LogStages
  <2> QED
    BY <1>1, <2>1, <2>2 DEF LogInv, LogTyped
<1>7. CallKnown'
  BY <1>1, <1>2, <1>5 DEF LogInv, CallKnown
<1>8. BufferOwned'
  BY <1>1, <1>5 DEF LogInv, BufferOwned
<1>9. ASSUME ~disturbed[t] PROVE OnPassed(t)'
  <2>1. OnPassed(t)
    BY <1>1, <1>9, WholeIs DEF LogInv
  <2>2. m_writers[p] # NoOne /\ l = <<m_writers[p], t, t>>
    BY <1>1, <1>9 DEF LogInv, BufferOwned
  <2> DEFINE n == Len(g)  P == Passed(t)  Q == Passed(t)'
  <2>3. PICK at \in [1..n -> P] :
          /\ \A i, j \in 1..n : i < j => at[i] < at[j]
          /\ \A k \in P : \E i \in 1..n : at[i] = k
          /\ \A i \in 1..n : g[i] = <<m_writers[at[i]], t, t>>
    BY <2>1 DEF OnPassed
  <2>4. Q = P \cup {p} /\ \A k \in P : k \in Nat /\ k < p
    <3>1. \A k : k \in 1..(slot'[t] - 1) <=> (k \in 1..(p - 1) \/ k = p)
      BY <1>2, <1>5
    <3>2. \A k \in 1..(p - 1) : k \in Nat /\ k < p
      BY <1>2
    <3> QED
      BY <1>1, <2>2, <3>1, <3>2 DEF Passed
  <2> HIDE DEF P, Q, h, l, g, n, p
  <2>5. n \in Nat /\ Len(h) = n + 1 /\ h[n + 1] = l /\ \A i \in 1..n : h[i] = g[i]
    BY <1>4 DEF n, h
  <2>6. /\ \A i \in 1..(n + 1) : i # n + 1 => i \in 1..n
        /\ \A i \in 1..n : i \in 1..(n + 1) /\ i # n + 1 /\ i < n + 1 /\ ~(n + 1 < i)
    BY <2>5
  <2> DEFINE new == [i \in 1..(n + 1) |-> IF i = n + 1 THEN p ELSE at[i]]
  <2>7. new \in [1..(n + 1) -> Q]
    BY <2>3, <2>4, <2>6
  <2>8. new[n + 1] = p /\ \A i \in 1..n : new[i] = at[i]
    BY <2>5, <2>6
  <2> HIDE DEF new
  <2>9. \A i, j \in 1..(n + 1) : i < j => new[i] < new[j]
    <3> SUFFICES ASSUME NEW i \in 1..(n + 1), NEW j \in 1..(n + 1), i < j PROVE new[i] < new[j]
      OBVIOUS
    <3>1. i \in 1..n
      BY <2>5
    <3>2. CASE j = n + 1
      BY <2>3, <2>4, <2>8, <3>1, <3>2
    <3>3. CASE j # n + 1
      BY <2>3, <2>6, <2>8, <3>1, <3>3
    <3> QED
      BY <3>2, <3>3
  <2>10. \A k \in Q : \E i \in 1..(n + 1) : new[i] = k
    <3> SUFFICES ASSUME NEW k \in Q PROVE \E i \in 1..(n + 1) : new[i] = k
      OBVIOUS
    <3>1. CASE k = p
      <4>1. n + 1 \in 1..(n + 1)
        BY <2>5
      <4> QED
        BY <2>8, <3>1, <4>1
    <3>2. CASE k \in P
      BY <2>3, <2>6, <2>8, <3>2
    <3> QED
      BY <2>4, <3>1, <3>2
  <2>11. \A i \in 1..(n + 1) : h[i] = <<m_writers[new[i]], t, t>>
    BY <2>2, <2>3, <2>5, <2>6, <2>8
  <2>12. Len(got'[t]) = n + 1 /\ got'[t] = h /\ m_writers' = m_writers /\ Passed(t)' = Q
    BY <1>1, <1>5, <2>5 DEF Q
  <2> QED
    BY <2>7, <2>9, <2>10, <2>11, <2>12 DEF OnPassed
<1>10. LineWhole'
  <2> SUFFICES ASSUME NEW u \in Client, stage'[u] \in {"print", "call"}, ~disturbed'[u]
               PROVE  OnPassed(u)'
    BY DEF LineWhole, OnPassed
  <2>1. CASE u = t
    BY <1>1, <1>9, <2>1
  <2>2. CASE u # t
    <3>1. OnPassed(u)
      BY <1>1, <1>5, <2>2, WholeIs DEF LogInv
    <3> QED
      BY <1>1, <1>5, <2>2, <3>1, OnPassedKept
  <2> QED
    BY <2>1, <2>2
<1> QED
  BY <1>6, <1>7, <1>8, <1>10 DEF LogInv

(* addWriter and removeWriter disturb every call that prints.               *)
LEMMA WritersKeep ==
  ASSUME LogInv, NEW w \in Writer, AddWriter(w) \/ RemoveWriter(w)
  PROVE  LogInv'
<1>1. /\ disturbed' = [u \in Client |-> disturbed[u] \/ Busy(u)]
      /\ UNCHANGED <<m_logBuffer, stage, slot, got>>
  BY DEF AddWriter, RemoveWriter
<1>2. m_writers \in Seq(Writer \cup {NoOne})
  BY DEF LogInv, LogTyped
<1>3. m_writers' \in Seq(Writer \cup {NoOne}) /\ Len(m_writers') >= Len(m_writers)
  <2>1. CASE AddWriter(w)
    BY <1>2, <2>1 DEF AddWriter
  <2>2. CASE RemoveWriter(w)
    <3> DEFINE i == CHOOSE i \in DOMAIN m_writers :
                      m_writers[i] = w /\ \A j \in 1..(i - 1) : m_writers[j] # w
    <3>1. m_writers' = [m_writers EXCEPT ![i] = NoOne]
      BY <2>2 DEF RemoveWriter
    <3> DEFINE n == Len(m_writers)  X == Writer \cup {NoOne}
    <3>2. m_writers \in [1..n -> X] /\ n \in Nat /\ NoOne \in X
      BY <1>2
    <3> HIDE DEF i, n, X
    <3>3. m_writers' \in [1..n -> X]
      BY <3>1, <3>2
    <3>4. m_writers' \in Seq(X) /\ Len(m_writers') = n
      BY <3>2, <3>3
    <3> QED
      BY <3>2, <3>4 DEF X, n
  <2> QED
    BY <2>1, <2>2
<1>4. \A u \in Client : ~disturbed'[u] => ~Busy(u)
  BY <1>1
<1>5. LogTyped'
  BY <1>1, <1>3 DEF LogInv, LogTyped
<1>6. CallKnown'
  <2>1. \A u \in Client : stage[u] = "call" => slot[u] <= Len(m_writers) /\ slot[u] \in Nat
    BY DEF LogInv, CallKnown, LogTyped
  <2>2. Len(m_writers) \in Nat /\ Len(m_writers') \in Nat
    BY <1>2, <1>3
  <2> QED
    BY <1>1, <1>3, <2>1, <2>2 DEF LogInv, CallKnown
<1>7. BufferOwned' /\ LineWhole'
  BY <1>1, <1>4 DEF BufferOwned, LineWhole, Busy
<1> QED
  BY <1>5, <1>6, <1>7 DEF LogInv

(* Logger.cpp, for any callers and writers: a call that no other call and   *)
(* no change of the writers falls into prints its own line whole, once on   *)
(* every writer and in their order, and calls no null pointer, although     *)
(* LogHelper has unlocked its mutex before it formats.                      *)
THEOREM UndisturbedLinesAreWhole == LoggerSpec => []UndisturbedLines
<1>1. LogInv /\ [LoggerNext]_logVars => LogInv'
  <2> SUFFICES ASSUME LogInv, [LoggerNext]_logVars PROVE LogInv'
    OBVIOUS
  <2>0. got \in [Client -> Seq(LogLine)] /\ disturbed \in [Client -> BOOLEAN]
    BY DEF LogInv, LogTyped
  <2>1. ASSUME NEW t \in Client, NEW lvl, Log(t, lvl) PROVE LogInv'
    <3>1. LogStep(t, "idle", "lock") /\ UNCHANGED <<m_writers, m_logBuffer, slot>>
      BY <2>1 DEF Log
    <3>2. got' = [got EXCEPT ![t] = <<>>] /\ disturbed' = [disturbed EXCEPT ![t] = FALSE]
      BY <2>1 DEF Log
    <3>3. got'[t] = <<>>
      BY <2>0, <3>2
    <3> QED
      BY <3>1, <3>2, <3>3, LogStepKeeps DEF LogStages
  <2>2. ASSUME NEW t \in Client, LogLock(t) PROVE LogInv'
    BY <2>2, LogStepKeeps DEF LogLock, LogStages
  <2>3. ASSUME NEW t \in Client, LogUnlock(t) PROVE LogInv'
    BY <2>3, LogStepKeeps DEF LogUnlock, LogStages
  <2>4. ASSUME NEW t \in Client, LogReturns(t) PROVE LogInv'
    BY <2>4, LogStepKeeps DEF LogReturns, LogStages
  <2>5. ASSUME NEW t \in Client, FormatHead(t) \/ FormatTail(t) \/ TestWriter(t) \/ CallWriter(t)
        PROVE  LogInv'
    BY <2>5, FormatHeadKeeps, FormatTailKeeps, TestWriterKeeps, CallWriterKeeps
  <2>6. ASSUME NEW w \in Writer, AddWriter(w) \/ RemoveWriter(w) PROVE LogInv'
    BY <2>6, WritersKeep
  <2>7. CASE UNCHANGED logVars
    <3>1. /\ m_writers' = m_writers /\ m_logBuffer' = m_logBuffer /\ stage' = stage /\ slot' = slot
          /\ got' = got /\ disturbed' = disturbed
      BY <2>7 DEF logVars
    <3>2. LogTyped' /\ CallKnown' /\ BufferOwned'
      BY <3>1 DEF LogInv, LogTyped, CallKnown, BufferOwned
    <3>3. ASSUME NEW t \in Client, stage'[t] \in {"print", "call"}, ~disturbed'[t] PROVE OnPassed(t)'
      BY <3>1, <3>3, WholeIs, OnPassedKept DEF LogInv
    <3> QED
      BY <3>2, <3>3 DEF LogInv, LineWhole, OnPassed
  <2> QED
    BY <2>1, <2>2, <2>3, <2>4, <2>5, <2>6, <2>7 DEF LoggerNext
<1>2. LogInv => UndisturbedLines
  BY DEF LogInv, BufferOwned, UndisturbedLines, NoNullWriter
<1> QED
  BY LogInit, <1>1, <1>2, PTL DEF LoggerSpec
==============================================================================
