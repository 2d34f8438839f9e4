---------------------------- MODULE MutexProofs ----------------------------
(***************************************************************************)
(* Mutual exclusion of Mutex for any tasks, mutexes and time slice.  The   *)
(* scheduler's invariant is needed: a task that waits in a mutex's list is *)
(* BLOCKED, so it is not the one that runs and cannot get on with lock().  *)
(***************************************************************************)
EXTENDS Mutex, SchedulerProofs

(* A task inside lock() or unlock() is there for one mutex.                 *)
PlacesOK ==
  /\ m_isLocked \in [Sync -> BOOLEAN]
  /\ at \in [Task -> Places]
  /\ mutex \in [Task -> Sync \cup {NULL}]
  /\ \A t \in Task : IF at[t] = "out" THEN mutex[t] = NULL ELSE mutex[t] \in Sync

(* The flag is set exactly while one task is between lock() and unlock().   *)
FlagIsHolder ==
  /\ \A t, u \in Task : at[t] = "in" /\ at[u] = "in" /\ mutex[t] = mutex[u] => t = u
  /\ \A t \in Task : at[t] = "in" => m_isLocked[mutex[t]] = TRUE
  /\ \A m \in Sync : m_isLocked[m] = TRUE => \E t \in Task : at[t] = "in" /\ mutex[t] = m

(* Whoever is in the list will try again when it runs.                      *)
WaitersTryAgain ==
  \A m \in Sync : \A t \in Members(waiting[m]) : at[t] = "tas" /\ mutex[t] = m

MutexInv == SchedulerInv /\ PlacesOK /\ FlagIsHolder /\ WaitersTryAgain

(* Every step of a task or of the kernel is one of the scheduler, and        *)
(* nobody exits.                                                            *)
LEMMA MutexStepsScheduler ==
  ASSUME PlacesOK, [MutexNext]_allVars
  PROVE  [Next]_vars /\ ExitApart
<1>1. CASE \E t \in Task : MutexStep(t)
  <2> PICK t \in Task : MutexStep(t)
    BY <1>1
  <2>1. CASE Block(t)
    <3>1. mutex[t] \in Sync
      BY <2>1 DEF Block, PlacesOK
    <3>2. SyncBlock(t, mutex[t])
      BY <2>1 DEF Block
    <3> QED
      BY <3>1, <3>2 DEF Next, Operation, ExitApart, SyncBlock
  <2>2. CASE WakeWaiters(t)
    <3>1. mutex[t] \in Sync
      BY <2>2 DEF WakeWaiters, PlacesOK
    <3>2. UNCHANGED vars \/ SyncUnblock(t, mutex[t])
      BY <2>2 DEF WakeWaiters
    <3> QED
      BY <3>1, <3>2 DEF Next, Operation, ExitApart, SyncUnblock, vars
  <2>3. ASSUME UNCHANGED vars
        PROVE  [Next]_vars /\ ExitApart
    BY <2>3 DEF ExitApart, vars
  <2> QED
    BY <2>1, <2>2, <2>3 DEF MutexStep, Lock, TryLock, TestAndSet, Clear
<1>2. CASE SchedulerStep
  <2>1. Next
    BY <1>2, TaskAssumption DEF SchedulerStep, Next, Operation
  <2>2. stopped' = stopped
    BY <1>2 DEF SchedulerStep, TasksNew, Timer, OnTimer, WakeSleeper, PassSleeper,
                OnTimerSchedule, OnTimerReturn, Elapse, IdleWake
  <2> QED
    BY <2>1, <2>2 DEF ExitApart
<1>3. CASE UNCHANGED allVars
  BY <1>3 DEF allVars, vars, ExitApart
<1> QED
  BY <1>1, <1>2, <1>3 DEF MutexNext

LEMMA MutexInitInv ==
  ASSUME MutexInit
  PROVE  MutexInv
<1>1. SchedulerInv
  BY InitEstablishesInv DEF MutexInit
<1>2. PlacesOK
  BY DEF MutexInit, PlacesOK, Places
<1>3. FlagIsHolder
  BY DEF MutexInit, FlagIsHolder
<1>4. WaitersTryAgain
  BY EmptyMembers DEF MutexInit, Init, WaitersTryAgain
<1> QED
  BY <1>1, <1>2, <1>3, <1>4 DEF MutexInv

(* lock() begins, or its test-and-set finds the flag set: nothing is held.   *)
LEMMA TestAndSetKeepsInv ==
  ASSUME MutexInv, NEW t \in Task,
         TestAndSet(t) \/ \E m \in Sync : Lock(t, m) \/ TryLock(t, m)
  PROVE  (PlacesOK /\ FlagIsHolder /\ WaitersTryAgain)'
<1>1. Calls(t) /\ waiting' = waiting
  BY DEF TestAndSet, Lock, TryLock, vars
<1>2. \A m \in Sync : t \notin Members(waiting[m])
  BY <1>1, CallerRuns DEF MutexInv
<1>3. CASE \E m \in Sync : Lock(t, m)
  <2> PICK m \in Sync : Lock(t, m)
    BY <1>3
  <2>1. /\ at[t] = "out" /\ at' = [at EXCEPT ![t] = "tas"]
        /\ mutex' = [mutex EXCEPT ![t] = m] /\ m_isLocked' = m_isLocked
    BY DEF Lock
  <2>2. PlacesOK'
    BY <2>1 DEF MutexInv, PlacesOK, Places
  <2>3. FlagIsHolder'
    BY <2>1 DEF MutexInv, PlacesOK, FlagIsHolder
  <2>4. WaitersTryAgain'
    BY <1>1, <1>2, <2>1 DEF MutexInv, PlacesOK, WaitersTryAgain
  <2> QED
    BY <2>2, <2>3, <2>4
<1>4. CASE \E m \in Sync : TryLock(t, m)
  <2> PICK m \in Sync : TryLock(t, m)
    BY <1>4
  <2>1. /\ at[t] = "out" /\ at' = [at EXCEPT ![t] = "in"] /\ m_isLocked[m] # TRUE
        /\ mutex' = [mutex EXCEPT ![t] = m] /\ m_isLocked' = [m_isLocked EXCEPT ![m] = TRUE]
    BY DEF TryLock
  <2>2. PlacesOK'
    BY <2>1 DEF MutexInv, PlacesOK, Places
  <2>3. FlagIsHolder'
    <3>1. \A u \in Task : at[u] = "in" => mutex[u] # m
      BY <2>1 DEF MutexInv, FlagIsHolder
    <3>2. /\ at'[t] = "in" /\ mutex'[t] = m /\ m_isLocked'[m] = TRUE
          /\ \A u \in Task \ {t} : at'[u] = at[u] /\ mutex'[u] = mutex[u]
          /\ \A r \in Sync \ {m} : m_isLocked'[r] = m_isLocked[r]
      BY <2>1 DEF MutexInv, PlacesOK
    <3>3. \A u \in Task : at[u] = "in" => mutex[u] \in Sync
      BY DEF MutexInv, PlacesOK
    <3>4. \A u \in Task : at'[u] = "in" => m_isLocked'[mutex'[u]] = TRUE
      BY <3>1, <3>2, <3>3 DEF MutexInv, FlagIsHolder
    <3>5. \A u, v \in Task : at'[u] = "in" /\ at'[v] = "in" /\ mutex'[u] = mutex'[v] => u = v
      BY <3>1, <3>2 DEF MutexInv, FlagIsHolder
    <3>6. ASSUME NEW r \in Sync, m_isLocked'[r] = TRUE
          PROVE  \E u \in Task : at'[u] = "in" /\ mutex'[u] = r
      <4>1. CASE r = m
        BY <3>2, <4>1
      <4>2. CASE r # m
        <5>1. PICK u \in Task : at[u] = "in" /\ mutex[u] = r
          BY <3>2, <3>6, <4>2 DEF MutexInv, FlagIsHolder
        <5>2. u # t
          BY <2>1, <5>1
        <5> QED
          BY <3>2, <5>1, <5>2
      <4> QED
        BY <4>1, <4>2
    <3> QED
      BY <3>4, <3>5, <3>6 DEF FlagIsHolder
  <2>4. WaitersTryAgain'
    BY <1>1, <1>2, <2>1 DEF MutexInv, PlacesOK, WaitersTryAgain
  <2> QED
    BY <2>2, <2>3, <2>4
<1>5. CASE TestAndSet(t)
  <2> DEFINE m == mutex[t]
  <2>1. /\ at[t] = "tas" /\ m \in Sync /\ mutex' = mutex
        /\ m_isLocked' = [m_isLocked EXCEPT ![m] = TRUE]
    BY <1>5 DEF TestAndSet, MutexInv, PlacesOK
  <2>2. CASE m_isLocked[m] = TRUE
    <3>1. at' = [at EXCEPT ![t] = "block"] /\ m_isLocked' = m_isLocked
      BY <1>5, <2>1, <2>2 DEF TestAndSet, MutexInv, PlacesOK
    <3>2. PlacesOK'
      BY <2>1, <3>1 DEF MutexInv, PlacesOK, Places
    <3>3. FlagIsHolder'
      BY <2>1, <3>1 DEF MutexInv, PlacesOK, FlagIsHolder
    <3>4. WaitersTryAgain'
      BY <1>1, <1>2, <2>1, <3>1 DEF MutexInv, PlacesOK, WaitersTryAgain
    <3> QED
      BY <3>2, <3>3, <3>4
  <2>3. CASE m_isLocked[m] # TRUE
    <3>1. at' = [at EXCEPT ![t] = "in"]
      BY <1>5, <2>1, <2>3 DEF TestAndSet, MutexInv, PlacesOK
    <3>2. PlacesOK'
      BY <2>1, <3>1 DEF MutexInv, PlacesOK, Places
    <3>3. FlagIsHolder'
      <4> HIDE DEF m
      <4>1. \A u \in Task : at[u] = "in" => mutex[u] # m
        BY <2>3 DEF MutexInv, FlagIsHolder
      <4>2. /\ at'[t] = "in" /\ mutex'[t] = m /\ m_isLocked'[m] = TRUE
            /\ \A u \in Task \ {t} : at'[u] = at[u]
            /\ \A r \in Sync \ {m} : m_isLocked'[r] = m_isLocked[r]
        BY <2>1, <3>1 DEF MutexInv, PlacesOK, m
      <4>3. \A u \in Task : at'[u] = "in" => m_isLocked'[mutex'[u]] = TRUE
        BY <2>1, <4>1, <4>2 DEF MutexInv, PlacesOK, FlagIsHolder
      <4>4. \A u, v \in Task : at'[u] = "in" /\ at'[v] = "in" /\ mutex'[u] = mutex'[v] => u = v
        BY <2>1, <4>1, <4>2 DEF MutexInv, FlagIsHolder, m
      <4>5. \A r \in Sync : m_isLocked'[r] = TRUE => \E u \in Task : at'[u] = "in" /\ mutex'[u] = r
        BY <2>1, <4>2 DEF MutexInv, FlagIsHolder
      <4> QED
        BY <4>3, <4>4, <4>5 DEF FlagIsHolder
    <3>4. WaitersTryAgain'
      BY <1>1, <1>2, <2>1, <3>1 DEF MutexInv, PlacesOK, WaitersTryAgain
    <3> QED
      BY <3>2, <3>3, <3>4
  <2> QED
    BY <2>2, <2>3
<1> QED
  BY <1>3, <1>4, <1>5

(* The failed lock() joins the list and is back before its test-and-set.    *)
LEMMA BlockKeepsInv ==
  ASSUME MutexInv, NEW t \in Task, Block(t)
  PROVE  (PlacesOK /\ FlagIsHolder /\ WaitersTryAgain)'
<1> DEFINE m == mutex[t]
<1>1. /\ at[t] = "block" /\ m \in Sync /\ at' = [at EXCEPT ![t] = "tas"]
      /\ UNCHANGED <<m_isLocked, mutex>> /\ SyncBlock(t, m)
  BY DEF Block, MutexInv, PlacesOK
<1>2. waiting' = [waiting EXCEPT ![m] = Enqueue(waiting[m], t)] /\ Calls(t)
  BY <1>1 DEF SyncBlock
<1>3. /\ \A r \in Sync : t \notin Members(waiting[r])
      /\ waiting \in [Sync -> Seq(Task)]
  BY <1>2, CallerRuns DEF MutexInv, SchedulerInv, ListsHold
<1>4. Members(Enqueue(waiting[m], t)) = Members(waiting[m]) \cup {t}
  BY <1>1, <1>3, EnqueueMembers
<1>5. /\ Members(waiting'[m]) = Members(waiting[m]) \cup {t}
      /\ \A r \in Sync \ {m} : waiting'[r] = waiting[r]
  BY <1>1, <1>2, <1>3, <1>4
<1>6. PlacesOK'
  BY <1>1 DEF MutexInv, PlacesOK, Places
<1>7. FlagIsHolder'
  BY <1>1 DEF MutexInv, PlacesOK, FlagIsHolder
<1>8. WaitersTryAgain'
  <2>1. at'[t] = "tas" /\ mutex'[t] = m /\ \A u \in Task \ {t} : at'[u] = at[u]
    BY <1>1 DEF MutexInv, PlacesOK
  <2>2. \A r \in Sync : Members(waiting[r]) \subseteq Task
    BY <1>3, MembersOfSeq
  <2>3. ASSUME NEW r \in Sync, NEW u \in Members(waiting'[r])
        PROVE  at'[u] = "tas" /\ mutex'[u] = r
    <3>1. u \in Members(waiting[r]) \/ (u = t /\ r = m)
      BY <1>5
    <3> QED
      BY <1>1, <1>3, <2>1, <2>2, <3>1 DEF MutexInv, WaitersTryAgain
  <2> QED
    BY <2>3 DEF WaitersTryAgain
<1> QED
  BY <1>6, <1>7, <1>8

(* unlock() gives the mutex up in one step and wakes the list in the next.  *)
LEMMA UnlockKeepsInv ==
  ASSUME MutexInv, NEW t \in Task, Clear(t) \/ WakeWaiters(t)
  PROVE  (PlacesOK /\ FlagIsHolder /\ WaitersTryAgain)'
<1> DEFINE m == mutex[t]
<1>1. Calls(t) /\ m \in Sync
  BY DEF Clear, WakeWaiters, MutexInv, PlacesOK
<1>2. \A r \in Sync : t \notin Members(waiting[r])
  BY <1>1, CallerRuns DEF MutexInv
<1>3. CASE Clear(t)
  <2>1. /\ at[t] = "in" /\ at' = [at EXCEPT ![t] = "wake"] /\ mutex' = mutex
        /\ m_isLocked' = [m_isLocked EXCEPT ![m] = FALSE] /\ waiting' = waiting
    BY <1>3 DEF Clear, vars
  <2>2. PlacesOK'
    BY <1>1, <2>1 DEF MutexInv, PlacesOK, Places
  <2>3. FlagIsHolder'
    BY <1>1, <2>1 DEF MutexInv, PlacesOK, FlagIsHolder
  <2>4. WaitersTryAgain'
    BY <1>2, <2>1 DEF MutexInv, PlacesOK, WaitersTryAgain
  <2> QED
    BY <2>2, <2>3, <2>4
<1>4. CASE WakeWaiters(t)
  <2>1. /\ at[t] = "wake" /\ at' = [at EXCEPT ![t] = "out"]
        /\ mutex' = [mutex EXCEPT ![t] = NULL] /\ m_isLocked' = m_isLocked
        /\ waiting' = waiting \/ waiting' = [waiting EXCEPT ![m] = <<>>]
    BY <1>4 DEF WakeWaiters, SyncUnblock, vars
  <2>2. PlacesOK'
    BY <2>1 DEF MutexInv, PlacesOK, Places
  <2>3. FlagIsHolder'
    BY <2>1 DEF MutexInv, PlacesOK, FlagIsHolder
  <2>4. \A r \in Sync : Members(waiting'[r]) \subseteq Members(waiting[r])
    BY <1>1, <2>1, EmptyMembers DEF MutexInv, SchedulerInv, ListsHold
  <2>5. WaitersTryAgain'
    BY <1>2, <2>1, <2>4 DEF MutexInv, PlacesOK, WaitersTryAgain
  <2> QED
    BY <2>2, <2>3, <2>5
<1> QED
  BY <1>3, <1>4

LEMMA MutexStepKeepsInv ==
  ASSUME MutexInv, [MutexNext]_allVars
  PROVE  MutexInv'
<1>1. SchedulerInv'
  BY MutexStepsScheduler, StepKeepsInv DEF MutexInv
<1>2. CASE \E t \in Task : MutexStep(t)
  BY <1>1, <1>2, TestAndSetKeepsInv, BlockKeepsInv, UnlockKeepsInv DEF MutexStep, MutexInv
<1>3. CASE SchedulerStep \/ UNCHANGED allVars
  <2>1. UNCHANGED mutexVars /\ waiting' = waiting
    BY <1>3 DEF SchedulerStep, TasksNew, Timer, OnTimer, WakeSleeper, PassSleeper,
                OnTimerSchedule, OnTimerReturn, Elapse, IdleWake, allVars, vars
  <2> QED
    BY <1>1, <2>1 DEF mutexVars, MutexInv, PlacesOK, FlagIsHolder, WaitersTryAgain
<1> QED
  BY <1>2, <1>3 DEF MutexNext

(* However lock() and unlock() of any tasks on any mutexes are preempted     *)
(* between their instructions and their calls into the scheduler, one task   *)
(* at a time holds a mutex, and the flag tells so.                          *)
THEOREM MutexExcludes == MutexSpec => []MutualExclusion
<1>1. MutexInit => MutexInv
  BY MutexInitInv
<1>2. MutexInv /\ [MutexNext]_allVars => MutexInv'
  BY MutexStepKeepsInv
<1>3. MutexInv => MutualExclusion
  <2> SUFFICES ASSUME MutexInv PROVE MutualExclusion
    OBVIOUS
  <2>1. TypeOK
    BY InvGivesProperties DEF MutexInv, StatesMatchLists
  <2>2. MutexTypeOK
    BY <2>1 DEF MutexInv, PlacesOK, MutexTypeOK
  <2>3. ASSUME NEW m \in Sync
        PROVE  /\ \A t, u \in Holders(m) : t = u
               /\ Holders(m) # {} <=> m_isLocked[m]
    BY DEF Holders, MutexInv, PlacesOK, FlagIsHolder
  <2> QED
    BY <2>2, <2>3 DEF MutualExclusion, MutexInv, WaitersTryAgain
<1> QED
  BY <1>1, <1>2, <1>3, PTL DEF MutexSpec
=============================================================================
