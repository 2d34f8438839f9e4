-------------------------- MODULE SemaphoreProofs --------------------------
(***************************************************************************)
(* Conservation of the units of Semaphore for any tasks, semaphores,       *)
(* initial count and number of posts.  What makes it inductive is that a   *)
(* curVal about to be exchanged is never zero, so the count stays a        *)
(* natural number, and the scheduler's invariant: whoever waits in the     *)
(* list does not run.                                                      *)
(***************************************************************************)
EXTENDS Semaphore, SchedulerProofs

(* A call under way has its locals, and one about to exchange the count has  *)
(* seen a unit.                                                             *)
CallsOK ==
  /\ at \in [Task -> Places]
  /\ frame \in [Task -> Frames \cup {NULL}]
  /\ \A t \in Task : IF at[t] = "out" THEN frame[t] = NULL ELSE frame[t] \in Frames
  /\ \A t \in Task : at[t] = "cas" => frame[t].curVal # 0

CountsOK ==
  /\ m_count \in [Sync -> Nat] /\ taken \in [Sync -> Nat]
  /\ posted \in [Sync -> 0..MaxPosts]
  /\ \A s \in Sync : m_count[s] + taken[s] = Initial + posted[s]

(* Whoever is in the list will read the count again when it runs.           *)
WaitersReload ==
  \A s \in Sync : \A t \in Members(waiting[s]) :
    at[t] = "load" /\ frame[t].call = "wait" /\ frame[t].sem = s

SemaphoreInv == SchedulerInv /\ CallsOK /\ CountsOK /\ WaitersReload

(* Every step of a task or of the kernel is one of the scheduler, and        *)
(* nobody exits.                                                            *)
LEMMA SemaphoreStepsScheduler ==
  ASSUME CallsOK, [SemaphoreNext]_allVars
  PROVE  [Next]_vars /\ ExitApart
<1>0. ASSUME UNCHANGED vars
      PROVE  [Next]_vars /\ ExitApart
  BY <1>0 DEF ExitApart, vars
<1>1. CASE \E t \in Task : Begin(t)
  BY <1>0, <1>1 DEF Begin, FetchAdd, BeginWait
<1>2. CASE \E t \in Task : Continue(t)
  <2> PICK t \in Task : Continue(t)
    BY <1>2
  <2> DEFINE s == frame[t].sem
  <2>1. CASE WaitBlocks(t)
    <3>1. s \in Sync /\ SyncBlock(t, s)
      BY <2>1 DEF WaitBlocks, CallsOK, Frames
    <3> QED
      BY <3>1 DEF Next, Operation, ExitApart, SyncBlock
  <2>2. CASE PostWakes(t)
    <3>1. s \in Sync /\ (UNCHANGED vars \/ SyncUnblock(t, s))
      BY <2>2 DEF PostWakes, CallsOK, Frames
    <3> QED
      BY <1>0, <3>1 DEF Next, Operation, ExitApart, SyncUnblock
  <2>3. CASE Load(t) \/ CompareExchange(t) \/ TryWaitFails(t) \/ TimeWaitSpins(t)
    BY <1>0, <2>3 DEF Load, CompareExchange, TryWaitFails, TimeWaitSpins
  <2> QED
    BY <2>1, <2>2, <2>3 DEF Continue
<1>3. CASE SchedulerStep
  <2>1. Next
    BY <1>3, TaskAssumption DEF SchedulerStep, Next, Operation
  <2>2. stopped' = stopped
    BY <1>3 DEF SchedulerStep, TasksNew, Timer, OnTimer, WakeSleeper, PassSleeper,
                OnTimerSchedule, OnTimerReturn, Elapse, IdleWake
  <2> QED
    BY <2>1, <2>2 DEF ExitApart
<1>4. CASE UNCHANGED allVars
  BY <1>0, <1>4 DEF allVars
<1> QED
  BY <1>1, <1>2, <1>3, <1>4 DEF SemaphoreNext

LEMMA SemaphoreInitInv ==
  ASSUME SemaphoreInit
  PROVE  SemaphoreInv
<1>1. SchedulerInv
  BY InitEstablishesInv DEF SemaphoreInit
<1>2. CallsOK
  BY DEF SemaphoreInit, CallsOK, Places
<1>3. CountsOK
  BY CountAssumption DEF SemaphoreInit, CountsOK
<1>4. WaitersReload
  BY EmptyMembers DEF SemaphoreInit, Init, WaitersReload
<1> QED
  BY <1>1, <1>2, <1>3, <1>4 DEF SemaphoreInv

(* What a step of a running task may do to at and frame: its own only.      *)
LEMMA OwnStepKeepsWaiters ==
  ASSUME SemaphoreInv, NEW t \in Task, Calls(t),
         \A u \in Task \ {t} : at'[u] = at[u] /\ frame'[u] = frame[u],
         \A s \in Sync : Members(waiting'[s]) \subseteq Members(waiting[s])
  PROVE  WaitersReload'
<1>1. /\ \A s \in Sync : t \notin Members(waiting[s])
      /\ \A s \in Sync : Members(waiting[s]) \subseteq Task
  BY CallerRuns, MembersOfSeq DEF SemaphoreInv, SchedulerInv, ListsHold
<1>2. ASSUME NEW s \in Sync, NEW u \in Members(waiting'[s])
      PROVE  at'[u] = "load" /\ frame'[u].call = "wait" /\ frame'[u].sem = s
  <2>1. u \in Members(waiting[s]) /\ u \in Task /\ u # t
    BY <1>1
  <2> QED
    BY <2>1 DEF SemaphoreInv, WaitersReload
<1> QED
  BY <1>2 DEF WaitersReload

(* Reading the count into curVal.                                           *)
LEMMA FetchKeepsCalls ==
  ASSUME CallsOK, CountsOK, NEW t \in Task, at[t] # "out", Fetch(t)
  PROVE  CallsOK' /\ \A u \in Task \ {t} : at'[u] = at[u] /\ frame'[u] = frame[u]
<1> DEFINE count == m_count[frame[t].sem]
           new == [frame[t] EXCEPT !.curVal = count]
<1>1. frame[t] \in Frames /\ count \in Nat
  BY DEF CallsOK, CountsOK, Frames
<1>2. new \in Frames /\ new.curVal = count
  BY <1>1 DEF Frames
<1>3. /\ frame' = [frame EXCEPT ![t] = new]
      /\ at' = [at EXCEPT ![t] = IF count = 0 THEN "zero" ELSE "cas"]
  BY DEF Fetch, Tested, CallsOK
<1> HIDE DEF count, new
<1>4. /\ frame'[t] = new /\ \A u \in Task \ {t} : at'[u] = at[u] /\ frame'[u] = frame[u]
      /\ frame' \in [Task -> Frames \cup {NULL}]
      /\ at' \in [Task -> Places] /\ at'[t] \in {"zero", "cas"}
      /\ at'[t] = "cas" => count # 0
  BY <1>2, <1>3 DEF CallsOK, Places
<1> QED
  BY <1>2, <1>4 DEF CallsOK

(* A call begins: a wait, or a post() that has added its unit.              *)
LEMMA BeginKeepsInv ==
  ASSUME SemaphoreInv, NEW t \in Task, Begin(t)
  PROVE  (CallsOK /\ CountsOK /\ WaitersReload)'
<1>1. PICK s \in Sync : FetchAdd(t, s) \/ \E c \in Waits : BeginWait(t, c, s)
  BY DEF Begin
<1>2. PICK place \in {"load", "wake"}, c \in Waits \cup {"post"} : Enter(t, place, c, s)
  BY <1>1 DEF FetchAdd, BeginWait
<1> DEFINE new == [call |-> c, sem |-> s, curVal |-> 0]
<1>3. new \in Frames
  BY DEF Frames
<1>4. /\ Calls(t) /\ waiting' = waiting
      /\ at' = [at EXCEPT ![t] = place] /\ frame' = [frame EXCEPT ![t] = new]
  BY <1>1, <1>2 DEF Enter, FetchAdd, BeginWait, vars
<1> HIDE DEF new
<1>5. /\ at'[t] = place /\ frame'[t] = new /\ place # "cas" /\ place # "out"
      /\ \A u \in Task \ {t} : at'[u] = at[u] /\ frame'[u] = frame[u]
      /\ at' \in [Task -> Places] /\ frame' \in [Task -> Frames \cup {NULL}]
  BY <1>3, <1>4 DEF SemaphoreInv, CallsOK, Places
<1>6. CallsOK'
  BY <1>3, <1>5 DEF SemaphoreInv, CallsOK
<1>7. WaitersReload'
  BY <1>4, <1>5, OwnStepKeepsWaiters
<1>8. CASE FetchAdd(t, s)
  <2>1. /\ posted[s] < MaxPosts /\ taken' = taken
        /\ m_count' = [m_count EXCEPT ![s] = m_count[s] + 1]
        /\ posted' = [posted EXCEPT ![s] = posted[s] + 1]
    BY <1>8 DEF FetchAdd
  <2>2. CountsOK'
    BY <2>1, CountAssumption DEF SemaphoreInv, CountsOK
  <2> QED
    BY <1>6, <1>7, <2>2
<1>9. CASE \E k \in Waits : BeginWait(t, k, s)
  <2>1. UNCHANGED <<m_count, posted, taken>>
    BY <1>9 DEF BeginWait
  <2>2. CountsOK'
    BY <2>1 DEF SemaphoreInv, CountsOK
  <2> QED
    BY <1>6, <1>7, <2>2
<1> QED
  BY <1>1, <1>8, <1>9

(* A call that returns has no locals left.                                  *)
LEMMA ReturnKeepsCalls ==
  ASSUME CallsOK, NEW t \in Task, Return(t)
  PROVE  CallsOK' /\ \A u \in Task \ {t} : at'[u] = at[u] /\ frame'[u] = frame[u]
<1>1. /\ at'[t] = "out" /\ frame'[t] = NULL
      /\ \A u \in Task \ {t} : at'[u] = at[u] /\ frame'[u] = frame[u]
      /\ at' \in [Task -> Places] /\ frame' \in [Task -> Frames \cup {NULL}]
  BY DEF Return, CallsOK, Places
<1> QED
  BY <1>1 DEF CallsOK

(* The exchange takes a unit that is there, or reads the count again.       *)
LEMMA CompareExchangeKeepsInv ==
  ASSUME SemaphoreInv, NEW t \in Task, CompareExchange(t)
  PROVE  (CallsOK /\ CountsOK /\ WaitersReload)'
<1> DEFINE s == frame[t].sem
           v == frame[t].curVal
<1>1. /\ Calls(t) /\ at[t] = "cas" /\ waiting' = waiting /\ posted' = posted
      /\ \/ /\ m_count[s] = v /\ m_count' = [m_count EXCEPT ![s] = v - 1]
            /\ taken' = [taken EXCEPT ![s] = taken[s] + 1] /\ Return(t)
         \/ Fetch(t) /\ UNCHANGED <<m_count, taken>>
  BY DEF CompareExchange, vars
<1>2. s \in Sync /\ v \in Nat /\ v # 0
  BY <1>1 DEF SemaphoreInv, CallsOK, Frames
<1> HIDE DEF s, v
<1>3. CASE /\ m_count[s] = v /\ m_count' = [m_count EXCEPT ![s] = v - 1]
           /\ taken' = [taken EXCEPT ![s] = taken[s] + 1] /\ Return(t)
  <2>1. CountsOK'
    BY <1>1, <1>2, <1>3, CountAssumption DEF SemaphoreInv, CountsOK
  <2>2. CallsOK' /\ \A u \in Task \ {t} : at'[u] = at[u] /\ frame'[u] = frame[u]
    BY <1>3, ReturnKeepsCalls DEF SemaphoreInv
  <2> QED
    BY <1>1, <2>1, <2>2, OwnStepKeepsWaiters
<1>4. CASE Fetch(t) /\ UNCHANGED <<m_count, taken>>
  <2>1. CountsOK'
    BY <1>1, <1>4 DEF SemaphoreInv, CountsOK
  <2>2. CallsOK' /\ \A u \in Task \ {t} : at'[u] = at[u] /\ frame'[u] = frame[u]
    BY <1>1, <1>4, FetchKeepsCalls DEF SemaphoreInv
  <2> QED
    BY <1>1, <2>1, <2>2, OwnStepKeepsWaiters
<1> QED
  BY <1>1, <1>3, <1>4

(* wait() found no unit: into the list, then back to the load.              *)
LEMMA WaitBlocksKeepsInv ==
  ASSUME SemaphoreInv, NEW t \in Task, WaitBlocks(t)
  PROVE  (CallsOK /\ CountsOK /\ WaitersReload)'
<1> DEFINE s == frame[t].sem
<1>1. /\ at[t] = "zero" /\ frame[t].call = "wait" /\ SyncBlock(t, s)
      /\ at' = [at EXCEPT ![t] = "load"]
      /\ UNCHANGED <<m_count, frame, posted, taken>>
  BY DEF WaitBlocks
<1>2. s \in Sync
  BY <1>1 DEF SemaphoreInv, CallsOK, Frames
<1>3. Calls(t) /\ waiting' = [waiting EXCEPT ![s] = Enqueue(waiting[s], t)]
  BY <1>1 DEF SyncBlock
<1>4. /\ \A r \in Sync : t \notin Members(waiting[r])
      /\ waiting \in [Sync -> Seq(Task)]
  BY <1>3, CallerRuns DEF SemaphoreInv, SchedulerInv, ListsHold
<1> HIDE DEF s
<1>5. Members(Enqueue(waiting[s], t)) = Members(waiting[s]) \cup {t}
  BY <1>2, <1>4, EnqueueMembers
<1>6. /\ Members(waiting'[s]) = Members(waiting[s]) \cup {t}
      /\ \A r \in Sync \ {s} : waiting'[r] = waiting[r]
      /\ \A r \in Sync : Members(waiting[r]) \subseteq Task
  BY <1>2, <1>3, <1>4, <1>5, MembersOfSeq
<1>7. /\ at'[t] = "load" /\ \A u \in Task \ {t} : at'[u] = at[u]
      /\ at' \in [Task -> Places]
  BY <1>1 DEF SemaphoreInv, CallsOK, Places
<1>8. CallsOK'
  BY <1>1, <1>7 DEF SemaphoreInv, CallsOK
<1>9. CountsOK'
  BY <1>1 DEF SemaphoreInv, CountsOK
<1>10. ASSUME NEW r \in Sync, NEW u \in Members(waiting'[r])
       PROVE  at'[u] = "load" /\ frame'[u].call = "wait" /\ frame'[u].sem = r
  <2>1. u \in Members(waiting[r]) \/ (u = t /\ r = s)
    BY <1>6
  <2> QED
    BY <1>1, <1>4, <1>6, <1>7, <2>1 DEF SemaphoreInv, WaitersReload, s
<1> QED
  BY <1>8, <1>9, <1>10 DEF WaitersReload

(* The other steps of a call: they touch no unit.                           *)
LEMMA ContinueKeepsInv ==
  ASSUME SemaphoreInv, NEW t \in Task,
         Load(t) \/ TryWaitFails(t) \/ TimeWaitSpins(t) \/ PostWakes(t)
  PROVE  (CallsOK /\ CountsOK /\ WaitersReload)'
<1>1. Calls(t) /\ UNCHANGED <<m_count, posted, taken>>
  BY DEF Load, TryWaitFails, TimeWaitSpins, PostWakes
<1>2. CountsOK'
  BY <1>1 DEF SemaphoreInv, CountsOK
<1>3. \A s \in Sync : Members(waiting'[s]) \subseteq Members(waiting[s])
  <2>1. CASE PostWakes(t)
    <3>1. \/ waiting' = waiting
          \/ \E s \in Sync : waiting' = [waiting EXCEPT ![s] = <<>>]
      BY <2>1 DEF PostWakes, SyncUnblock, vars, SemaphoreInv, CallsOK, Frames
    <3> QED
      BY <3>1, EmptyMembers DEF SemaphoreInv, SchedulerInv, ListsHold
  <2>2. CASE Load(t) \/ TryWaitFails(t) \/ TimeWaitSpins(t)
    BY <2>2 DEF Load, TryWaitFails, TimeWaitSpins, vars
  <2> QED
    BY <2>1, <2>2
<1>4. CallsOK' /\ \A u \in Task \ {t} : at'[u] = at[u] /\ frame'[u] = frame[u]
  <2>1. CASE Load(t)
    BY <2>1, FetchKeepsCalls DEF Load, SemaphoreInv
  <2>2. CASE TryWaitFails(t) \/ PostWakes(t)
    BY <2>2, ReturnKeepsCalls DEF TryWaitFails, PostWakes, SemaphoreInv
  <2>3. CASE TimeWaitSpins(t)
    <3>1. /\ at[t] = "zero" /\ at' = [at EXCEPT ![t] = "load"] /\ frame' = frame
      BY <2>3 DEF TimeWaitSpins
    <3>2. /\ at'[t] = "load" /\ at' \in [Task -> Places]
          /\ \A u \in Task \ {t} : at'[u] = at[u] /\ frame'[u] = frame[u]
      BY <3>1 DEF SemaphoreInv, CallsOK, Places
    <3> QED
      BY <3>1, <3>2 DEF SemaphoreInv, CallsOK
  <2> QED
    BY <2>1, <2>2, <2>3
<1> QED
  BY <1>1, <1>2, <1>3, <1>4, OwnStepKeepsWaiters

LEMMA SemaphoreStepKeepsInv ==
  ASSUME SemaphoreInv, [SemaphoreNext]_allVars
  PROVE  SemaphoreInv'
<1>1. SchedulerInv'
  BY SemaphoreStepsScheduler, StepKeepsInv DEF SemaphoreInv
<1>2. CASE \E t \in Task : Begin(t) \/ Continue(t)
  BY <1>1, <1>2, BeginKeepsInv, CompareExchangeKeepsInv, WaitBlocksKeepsInv, ContinueKeepsInv
     DEF Continue, SemaphoreInv
<1>3. CASE SchedulerStep \/ UNCHANGED allVars
  <2>1. UNCHANGED semVars /\ waiting' = waiting
    BY <1>3 DEF SchedulerStep, TasksNew, Timer, OnTimer, WakeSleeper, PassSleeper,
                OnTimerSchedule, OnTimerReturn, Elapse, IdleWake, allVars, vars
  <2> QED
    BY <1>1, <2>1 DEF semVars, SemaphoreInv, CallsOK, CountsOK, WaitersReload
<1> QED
  BY <1>2, <1>3 DEF SemaphoreNext

(* However the waits and posts of any tasks on any semaphores are preempted  *)
(* between their loads, exchanges and adds, no unit is lost and none is      *)
(* handed out twice.                                                        *)
THEOREM SemaphoreConserves == SemaphoreSpec => []UnitsConserved
<1>1. SemaphoreInit => SemaphoreInv
  BY SemaphoreInitInv
<1>2. SemaphoreInv /\ [SemaphoreNext]_allVars => SemaphoreInv'
  BY SemaphoreStepKeepsInv
<1>3. SemaphoreInv => UnitsConserved
  <2> SUFFICES ASSUME SemaphoreInv PROVE UnitsConserved
    OBVIOUS
  <2>1. TypeOK
    BY InvGivesProperties DEF SemaphoreInv, StatesMatchLists
  <2>2. SemaphoreTypeOK
    BY <2>1 DEF SemaphoreInv, CallsOK, CountsOK, SemaphoreTypeOK
  <2> QED
    BY <2>2 DEF UnitsConserved, SemaphoreInv, CountsOK, WaitersReload
<1> QED
  BY <1>1, <1>2, <1>3, PTL DEF SemaphoreSpec
=============================================================================
