------------------------------- MODULE Mutex -------------------------------
(***************************************************************************)
(* Kernel/Locking/Mutex.cpp on top of the scheduler.  A task reads or      *)
(* writes m_isLocked with one atomic instruction and then, in a step of    *)
(* its own, calls into the scheduler: a timer interrupt may preempt it in  *)
(* between.  Only current_task # NULL is modelled, where TASK_ONLY lets    *)
(* the calls through.                                                      *)
(***************************************************************************)
EXTENDS Scheduler

VARIABLES
  m_isLocked,  \* Mutex::m_isLocked, for the Mutex around each task_sync
  at,          \* where a task is in lock() or unlock()
  mutex        \* the mutex it is there for, NULL outside

mutexVars == <<m_isLocked, at, mutex>>
allVars == <<vars, mutexVars>>

(* "tas": before the test-and-set of lock(); "block": it failed; "in": the  *)
(* mutex is held; "wake": unlock() has cleared the flag.                    *)
Places == {"out", "tas", "block", "in", "wake"}

MutexTypeOK ==
  /\ TypeOK
  /\ m_isLocked \in [Sync -> BOOLEAN]
  /\ at \in [Task -> Places]
  /\ \A t \in Task : mutex[t] \in IF at[t] = "out" THEN {NULL} ELSE Sync

MutexInit ==
  /\ Init
  /\ m_isLocked = [m \in Sync |-> FALSE]
  /\ at = [t \in Task |-> "out"]
  /\ mutex = [t \in Task |-> NULL]

(***************************************************************************)
(* Mutex::lock                                                             *)
(***************************************************************************)
Lock(t, m) ==
  /\ Calls(t) /\ at[t] = "out"
  /\ at' = [at EXCEPT ![t] = "tas"]
  /\ mutex' = [mutex EXCEPT ![t] = m]
  /\ UNCHANGED <<vars, m_isLocked>>

(* Fault: the flag is read and written by two instructions.                 *)
TestThenSet(t) ==
  /\ Calls(t) /\ at[t] \in {"tas", "wake"}
  /\ at' = [at EXCEPT ![t] = IF @ = "wake" THEN "in"
                             ELSE IF m_isLocked[mutex[t]] THEN "block" ELSE "wake"]
  /\ m_isLocked' = [m_isLocked EXCEPT ![mutex[t]] = @ \/ at[t] = "wake"]
  /\ UNCHANGED <<vars, mutex>>

(* __atomic_test_and_set returns the old value.                             *)
TestAndSet(t) ==
  /\ Calls(t) /\ at[t] = "tas"
  /\ at' = [at EXCEPT ![t] = IF m_isLocked[mutex[t]] THEN "block" ELSE "in"]
  /\ m_isLocked' = [m_isLocked EXCEPT ![mutex[t]] = TRUE]
  /\ UNCHANGED <<vars, mutex>>

(* tasks_sync_block; once woken the task tries again.                       *)
Block(t) ==
  /\ at[t] = "block"
  /\ SyncBlock(t, mutex[t])
  /\ at' = [at EXCEPT ![t] = "tas"]
  /\ UNCHANGED <<m_isLocked, mutex>>

(***************************************************************************)
(* Mutex::tryLock, when it succeeds: a failure changes nothing.            *)
(***************************************************************************)
TryLock(t, m) ==
  /\ Calls(t) /\ at[t] = "out"
  /\ ~m_isLocked[m]
  /\ m_isLocked' = [m_isLocked EXCEPT ![m] = TRUE]
  /\ at' = [at EXCEPT ![t] = "in"]
  /\ mutex' = [mutex EXCEPT ![t] = m]
  /\ UNCHANGED vars

(***************************************************************************)
(* Mutex::unlock                                                           *)
(***************************************************************************)
Clear(t) ==
  /\ Calls(t) /\ at[t] = "in"
  /\ m_isLocked' = [m_isLocked EXCEPT ![mutex[t]] = FALSE]
  /\ at' = [at EXCEPT ![t] = "wake"]
  /\ UNCHANGED <<vars, mutex>>

(* Fault: unlock() returns without tasks_sync_unblock.                      *)
WakeNobody(t) ==
  /\ Calls(t) /\ at[t] = "wake"
  /\ at' = [at EXCEPT ![t] = "out"]
  /\ mutex' = [mutex EXCEPT ![t] = NULL]
  /\ UNCHANGED <<vars, m_isLocked>>
WakeWaiters(t) ==
  /\ Calls(t) /\ at[t] = "wake"
  /\ at' = [at EXCEPT ![t] = "out"]
  /\ mutex' = [mutex EXCEPT ![t] = NULL]
  /\ \/ waiting[mutex[t]] = <<>> /\ UNCHANGED vars
     \/ SyncUnblock(t, mutex[t])
  /\ UNCHANGED m_isLocked

-----------------------------------------------------------------------------
MutexStep(t) ==
  \/ \E m \in Sync : Lock(t, m) \/ TryLock(t, m)
  \/ TestAndSet(t) \/ Block(t) \/ Clear(t) \/ WakeWaiters(t)

(* The scheduler under the tasks: creation by the main task, preemption,    *)
(* idling.                                                                  *)
SchedulerStep ==
  /\ \/ \E new \in Task : TasksNew(Main, new)
     \/ Timer \/ Elapse \/ IdleWake
  /\ UNCHANGED mutexVars

MutexNext == (\E t \in Task : MutexStep(t)) \/ SchedulerStep

MutexSpec == MutexInit /\ [][MutexNext]_allVars

(* A task inside lock(), unlock() or the critical section gets on with it   *)
(* whenever it is dispatched; whether it calls lock() again is its choice.  *)
MutexFairness ==
  /\ SF_allVars(Elapse /\ UNCHANGED mutexVars)
  /\ WF_allVars(OnTimer /\ UNCHANGED mutexVars)
  /\ WF_allVars((WakeSleeper \/ PassSleeper \/ OnTimerSchedule \/ OnTimerReturn)
                  /\ UNCHANGED mutexVars)
  /\ SF_allVars(IdleWake /\ UNCHANGED mutexVars)
  /\ \A t \in Task :
       SF_allVars(TestAndSet(t) \/ Block(t) \/ Clear(t) \/ WakeWaiters(t))

MutexFairSpec == MutexSpec /\ MutexFairness

(***************************************************************************)
(* Properties.                                                             *)
(***************************************************************************)
Holders(m) == {t \in Task : at[t] = "in" /\ mutex[t] = m}

Unlocking(m) == \E t \in Task : at[t] = "wake" /\ mutex[t] = m

(* One task at a time is between lock() and unlock(), and while one is, the *)
(* flag is set; preemption between the instruction and the scheduler call   *)
(* never lets a second one in.  A task waits in the mutex's list only from  *)
(* inside lock(), and never while it is between lock() and unlock().        *)
MutualExclusion ==
  /\ MutexTypeOK
  /\ \A m \in Sync : /\ \A t, u \in Holders(m) : t = u
                     /\ Holders(m) # {} <=> m_isLocked[m]
                     /\ \A t \in Members(waiting[m]) : at[t] = "tas" /\ mutex[t] = m

(* tasks_sync_block: "now block until the mutex is freed".  When the mutex  *)
(* is free and no unlock() is on its way to wake the waiters, none waits.   *)
NoWaiterOnFreeMutex ==
  \A m \in Sync :
    (~m_isLocked[m] /\ ~Unlocking(m)) => waiting[m] = <<>>

(* An unlock() that finds waiters wakes all of them, not only the first.    *)
UnlockWakesAll ==
  \A t \in Task : \A m \in Sync :
    (Unlocking(m) /\ t \in Members(waiting[m])) ~> state[t] # "BLOCKED"
=============================================================================
