----------------------------- MODULE Semaphore -----------------------------
(***************************************************************************)
(* Kernel/Locking/Semaphore.cpp on top of the scheduler.  The count is     *)
(* read, compared and exchanged, and added to by single instructions; the  *)
(* calls into the scheduler are steps of their own, and the timer handler  *)
(* may preempt the task between any two.  As in module Mutex, only         *)
(* current_task # NULL is modelled, where TASK_ONLY lets the calls through.*)
(***************************************************************************)
EXTENDS Scheduler

CONSTANTS
  Initial,   \* the constructor's val
  MaxPosts   \* bound: calls of post() on one semaphore

ASSUME CountAssumption == Initial \in Nat /\ MaxPosts \in Nat

VARIABLES
  m_count,  \* Semaphore::m_count, for the Semaphore around each task_sync
  at,       \* where a task is in wait(), tryWait(), timeWait() or post()
  frame,    \* which of them, on which semaphore, and its local curVal
  posted,   \* history: how often post() was called
  taken     \* history: how many waits returned true

semVars == <<m_count, at, frame, posted, taken>>
allVars == <<vars, semVars>>

(* "load": before count(); "zero" and "cas": curVal was tested; "wake":     *)
(* post() has added its unit.                                               *)
Places == {"out", "load", "zero", "cas", "wake"}
Waits == {"wait", "tryWait", "timeWait"}
Frames == [call : Waits \cup {"post"}, sem : Sync, curVal : Nat]

SemaphoreTypeOK ==
  /\ TypeOK
  /\ m_count \in [Sync -> Nat]
  /\ at \in [Task -> Places]
  /\ \A t \in Task : IF at[t] = "out" THEN frame[t] = NULL ELSE frame[t] \in Frames
  /\ posted \in [Sync -> 0..MaxPosts]
  /\ taken \in [Sync -> Nat]

SemaphoreInit ==
  /\ Init
  /\ m_count = [s \in Sync |-> Initial]
  /\ at = [t \in Task |-> "out"]
  /\ frame = [t \in Task |-> NULL]
  /\ posted = [s \in Sync |-> 0]
  /\ taken = [s \in Sync |-> 0]

Enter(t, place, c, s) ==
  /\ Calls(t) /\ at[t] = "out"
  /\ at' = [at EXCEPT ![t] = place]
  /\ frame' = [frame EXCEPT ![t] = [call |-> c, sem |-> s, curVal |-> 0]]

Return(t) ==
  /\ at' = [at EXCEPT ![t] = "out"]
  /\ frame' = [frame EXCEPT ![t] = NULL]

(***************************************************************************)
(* wait(), tryWait() and timeWait(): they differ in what they do when the  *)
(* count is zero.                                                          *)
(***************************************************************************)
BeginWait(t, c, s) ==
  /\ Enter(t, "load", c, s)
  /\ UNCHANGED <<vars, m_count, posted, taken>>

(* The test of curVal against zero.  Fault: no test.                        *)
Untested(v) == "cas"
Tested(v) == IF v = 0 THEN "zero" ELSE "cas"

(* The count is read into curVal, and tested.                               *)
Fetch(t) ==
  LET count == m_count[frame[t].sem]
  IN  /\ frame' = [frame EXCEPT ![t].curVal = count]
      /\ at' = [at EXCEPT ![t] = Tested(count)]

(* curVal = count()                                                         *)
Load(t) ==
  /\ Calls(t) /\ at[t] = "load"
  /\ Fetch(t)
  /\ UNCHANGED <<vars, m_count, posted, taken>>

(* Fault: the unit is taken by a plain store of curVal - 1.                 *)
PlainStore(t) ==
  /\ Calls(t) /\ at[t] = "cas"
  /\ m_count' = [m_count EXCEPT ![frame[t].sem] = frame[t].curVal - 1]
  /\ taken' = [taken EXCEPT ![frame[t].sem] = @ + 1]
  /\ Return(t)
  /\ UNCHANGED <<vars, posted>>

(* COMPARE_EXCHANGE: a failure leaves the count it found in curVal.         *)
CompareExchange(t) ==
  LET s == frame[t].sem IN
  /\ Calls(t) /\ at[t] = "cas"
  /\ \/ /\ m_count[s] = frame[t].curVal
        /\ m_count' = [m_count EXCEPT ![s] = frame[t].curVal - 1]
        /\ taken' = [taken EXCEPT ![s] = @ + 1]
        /\ Return(t)
     \/ /\ m_count[s] # frame[t].curVal
        /\ Fetch(t)
        /\ UNCHANGED <<m_count, taken>>
  /\ UNCHANGED <<vars, posted>>

(* wait() blocks and reads the count again.                                 *)
WaitBlocks(t) ==
  /\ at[t] = "zero" /\ frame[t].call = "wait"
  /\ SyncBlock(t, frame[t].sem)
  /\ at' = [at EXCEPT ![t] = "load"]
  /\ UNCHANGED <<m_count, frame, posted, taken>>

(* tryWait() returns false.                                                 *)
TryWaitFails(t) ==
  /\ Calls(t) /\ at[t] = "zero" /\ frame[t].call = "tryWait"
  /\ Return(t)
  /\ UNCHANGED <<vars, m_count, posted, taken>>

(* timeWait() reads the count again; usec is ignored.                       *)
TimeWaitSpins(t) ==
  /\ Calls(t) /\ at[t] = "zero" /\ frame[t].call = "timeWait"
  /\ at' = [at EXCEPT ![t] = "load"]
  /\ UNCHANGED <<vars, m_count, frame, posted, taken>>

(***************************************************************************)
(* post()                                                                  *)
(***************************************************************************)
FetchAdd(t, s) ==
  /\ posted[s] < MaxPosts
  /\ Enter(t, "wake", "post", s)
  /\ m_count' = [m_count EXCEPT ![s] = @ + 1]
  /\ posted' = [posted EXCEPT ![s] = @ + 1]
  /\ UNCHANGED <<vars, taken>>

(* Fault: post() returns without tasks_sync_unblock.                        *)
PostWakesNobody(t) ==
  /\ Calls(t) /\ at[t] = "wake"
  /\ Return(t)
  /\ UNCHANGED <<vars, m_count, posted, taken>>
PostWakes(t) ==
  /\ Calls(t) /\ at[t] = "wake"
  /\ Return(t)
  /\ \/ waiting[frame[t].sem] = <<>> /\ UNCHANGED vars
     \/ SyncUnblock(t, frame[t].sem)
  /\ UNCHANGED <<m_count, posted, taken>>

-----------------------------------------------------------------------------
Continue(t) ==
  \/ Load(t) \/ CompareExchange(t)
  \/ WaitBlocks(t) \/ TryWaitFails(t) \/ TimeWaitSpins(t)
  \/ PostWakes(t)

Begin(t) == \E s \in Sync : FetchAdd(t, s) \/ \E c \in Waits : BeginWait(t, c, s)

(* The scheduler under the tasks: creation by the main task, preemption,    *)
(* idling.                                                                  *)
SchedulerStep ==
  /\ \/ \E new \in Task : TasksNew(Main, new)
     \/ Timer \/ Elapse \/ IdleWake
  /\ UNCHANGED semVars

SemaphoreNext == (\E t \in Task : Begin(t) \/ Continue(t)) \/ SchedulerStep

SemaphoreSpec == SemaphoreInit /\ [][SemaphoreNext]_allVars

(* A task inside a call gets on with it whenever it is dispatched; whether  *)
(* it makes another call is its choice.                                     *)
SemaphoreFairness ==
  /\ SF_allVars(Elapse /\ UNCHANGED semVars)
  /\ WF_allVars(OnTimer /\ UNCHANGED semVars)
  /\ WF_allVars((WakeSleeper \/ PassSleeper \/ OnTimerSchedule \/ OnTimerReturn)
                  /\ UNCHANGED semVars)
  /\ SF_allVars(IdleWake /\ UNCHANGED semVars)
  /\ \A t \in Task : SF_allVars(Continue(t))

SemaphoreFairSpec == SemaphoreSpec /\ SemaphoreFairness

(***************************************************************************)
(* Properties.                                                             *)
(***************************************************************************)
Posting(s) == \E t \in Task : at[t] = "wake" /\ frame[t].sem = s

(* However waits and posts are preempted between their loads, exchanges and *)
(* adds, no unit is lost and none is handed out twice; and only a task that *)
(* is still inside wait(), without a unit, is in the semaphore's list.      *)
UnitsConserved ==
  /\ SemaphoreTypeOK
  /\ \A s \in Sync :
       /\ m_count[s] + taken[s] = Initial + posted[s]
       /\ \A t \in Members(waiting[s]) :
            at[t] = "load" /\ frame[t].call = "wait" /\ frame[t].sem = s

(* A post() wakes every task it finds in the list.                          *)
PostWakesAll ==
  \A t \in Task : \A s \in Sync :
    (Posting(s) /\ t \in Members(waiting[s])) ~> state[t] # "BLOCKED"
=============================================================================
