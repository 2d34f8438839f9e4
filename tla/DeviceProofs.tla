---------------------------- MODULE DeviceProofs ----------------------------
(***************************************************************************)
(* Interrupts and devices.  The scheduler lock, which stands for masking     *)
(* interrupts, and the timer.  The ring buffer for every size: its indices   *)
(* stay consistent and it implements the bounded queue; the serial driver    *)
(* that uses it, store by store: what its mutex keeps although interrupt     *)
(* handlers nest.  The clock that is read while it moves, and the screen.    *)
(***************************************************************************)
EXTENDS SchedulerLock, Interrupts, Serial, Clock, Graphics, SequenceTheorems, TLAPS

(***************************************************************************)
(* The properties of SchedulerLock, for any set of tasks and any nesting.  *)
(*                                                                         *)
(* None of them is inductive alone.  The strengthening accounts for every  *)
(* hold on _scheduler_lock: one per open section of the stack the CPU is   *)
(* on, one for a release that has not reached its decrement (or a new task *)
(* that has not reached _task_starting), one for the idle loop.  A stack   *)
(* the CPU is not on owns none: it is suspended right before a decrement   *)
(* that will pay for the task that switches to it.                         *)
(***************************************************************************)
(* Every stack but the CPU's is suspended, with no section open.            *)
OthersSuspended ==
  \A t \in Task \ {cpu} :
     /\ nest[t] = 0
     /\ pc[t] \in {"fresh", "unlock"}
     /\ state[t] # "RUNNING"

Releasing == pc[cpu] \in {"schedule", "unlock", "fresh"}

(* The counters count exactly the CPU's open sections and pending holds.    *)
HoldsCounted ==
  /\ postpone_count = nest[cpu]
  /\ (~Releasing /\ ~idling) => scheduler_lock = nest[cpu]
  /\ (Releasing /\ ~idling) => scheduler_lock = nest[cpu] + 1
  /\ (~Releasing /\ idling) => scheduler_lock = nest[cpu] + 1
  /\ (Releasing /\ idling) => scheduler_lock = nest[cpu] + 2

(* Where the code can be when it schedules, halts or idles.                 *)
PointsConsistent ==
  /\ pc[cpu] = "schedule" => nest[cpu] = 0
  /\ pc[cpu] = "fresh" => nest[cpu] = 0
  /\ pc[cpu] = "halted" => (idling /\ nest[cpu] = 0)
  /\ idling => pc[cpu] # "fresh"

(* The interrupt flag follows the holds and the interrupt frames.           *)
FlagConsistent ==
  /\ interrupts => (scheduler_lock = 0 \/ pc[cpu] = "halted")
  /\ pc[cpu] = "halted" => interrupts
  /\ (pc[cpu] = "code" /\ scheduler_lock = 0 /\ irq[cpu] = 0) => interrupts

(* A task that gave up the CPU still has it only while the switch is owed.  *)
SwitchOwed ==
  /\ ~idling => \/ state[cpu] = "RUNNING"
                \/ state[cpu] \in {"WAITING", "STOPPED"}
                   /\ (pc[cpu] = "schedule" \/ postponed)
  /\ idling => state[cpu] \in {"WAITING", "STOPPED", "READY"}
  /\ postponed => nest[cpu] > 0

IInv ==
  /\ TypeOK
  /\ OthersSuspended
  /\ HoldsCounted
  /\ PointsConsistent
  /\ FlagConsistent
  /\ SwitchOwed

-----------------------------------------------------------------------------
(* tasks_init establishes the invariant.                                    *)
LEMMA InitIInv == Init => IInv
<1> SUFFICES ASSUME Init PROVE IInv
  OBVIOUS
<1> USE FirstAssumption, NestAssumption, IrqAssumption DEF Init
<1>1. TypeOK
  <2>1. interrupts \in BOOLEAN /\ postponed \in BOOLEAN /\ idling \in BOOLEAN
    OBVIOUS
  <2>2. scheduler_lock \in Nat /\ postpone_count \in Nat /\ cpu \in Task
    OBVIOUS
  <2>3. state \in [Task -> States] /\ pc \in [Task -> Points]
    BY DEF States, Points
  <2>4. nest \in [Task -> 0..MaxNest] /\ irq \in [Task -> 0..MaxIrq]
    OBVIOUS
  <2> QED BY <2>1, <2>2, <2>3, <2>4 DEF TypeOK
<1>2. OthersSuspended /\ PointsConsistent
  BY DEF OthersSuspended, PointsConsistent
<1>3. HoldsCounted /\ FlagConsistent /\ SwitchOwed
  BY DEF HoldsCounted, Releasing, FlagConsistent, SwitchOwed
<1> QED BY <1>1, <1>2, <1>3 DEF IInv

(* Every step of the lock, the context switch and the interrupts keeps it.  *)
LEMMA NextIInv == IInv /\ [Next]_vars => IInv'
<1> SUFFICES ASSUME IInv, [Next]_vars PROVE IInv'
  OBVIOUS
<1> USE NestAssumption, IrqAssumption DEF IInv
<1>1. CASE AquireSchedulerLock
  <2> USE <1>1 DEF TypeOK, AquireSchedulerLock, InCode
  <2>1. /\ interrupts' \in BOOLEAN /\ postponed' \in BOOLEAN /\ idling' \in BOOLEAN
        /\ state' \in [Task -> States] /\ pc' \in [Task -> Points]
    BY DEF States, Points
  <2>2. /\ cpu' \in Task /\ scheduler_lock' \in Nat /\ postpone_count' \in Nat
        /\ nest' \in [Task -> 0..MaxNest] /\ irq' \in [Task -> 0..MaxIrq]
    BY DEF HoldsCounted, Releasing
  <2>3. /\ OthersSuspended' /\ HoldsCounted' /\ PointsConsistent'
        /\ FlagConsistent' /\ SwitchOwed'
    BY DEF OthersSuspended, HoldsCounted, Releasing, PointsConsistent,
           FlagConsistent, SwitchOwed
  <2> QED BY <2>1, <2>2, <2>3 DEF TypeOK
<1>2. CASE ReleaseSchedulerLock
  <2> USE <1>2 DEF TypeOK, ReleaseSchedulerLock, InCode, InSection, Outermost
  <2>1. /\ interrupts' \in BOOLEAN /\ postponed' \in BOOLEAN /\ idling' \in BOOLEAN
        /\ state' \in [Task -> States] /\ pc' \in [Task -> Points]
    BY DEF States, Points
  <2>2. /\ cpu' \in Task /\ scheduler_lock' \in Nat /\ postpone_count' \in Nat
        /\ nest' \in [Task -> 0..MaxNest] /\ irq' \in [Task -> 0..MaxIrq]
    BY DEF HoldsCounted, Releasing
  <2>3. /\ OthersSuspended' /\ HoldsCounted' /\ PointsConsistent'
        /\ FlagConsistent' /\ SwitchOwed'
    BY DEF OthersSuspended, HoldsCounted, Releasing, PointsConsistent,
           FlagConsistent, SwitchOwed
  <2> QED BY <2>1, <2>2, <2>3 DEF TypeOK
<1>3. CASE DropHold
  <2> USE <1>3 DEF TypeOK, DropHold
  <2>1. /\ interrupts' \in BOOLEAN /\ postponed' \in BOOLEAN /\ idling' \in BOOLEAN
        /\ state' \in [Task -> States] /\ pc' \in [Task -> Points]
    BY DEF States, Points
  <2>2. /\ cpu' \in Task /\ scheduler_lock' \in Nat /\ postpone_count' \in Nat
        /\ nest' \in [Task -> 0..MaxNest] /\ irq' \in [Task -> 0..MaxIrq]
    BY DEF HoldsCounted, Releasing
  <2>3. OthersSuspended' /\ HoldsCounted' /\ PointsConsistent' /\ SwitchOwed'
    BY DEF OthersSuspended, HoldsCounted, Releasing, PointsConsistent, SwitchOwed
  <2>4. FlagConsistent'
    <3> USE DEF FlagConsistent, HoldsCounted, Releasing, PointsConsistent
    <3>1. CASE scheduler_lock' = 0
      BY <3>1
    <3>2. CASE scheduler_lock' # 0
      BY <3>2
    <3> QED BY <3>1, <3>2
  <2> QED BY <2>1, <2>2, <2>3, <2>4 DEF TypeOK
<1>4. CASE PostponeSchedule
  <2> USE <1>4 DEF TypeOK, PostponeSchedule, InSection, InCode, lockVars
  <2>1. /\ interrupts' \in BOOLEAN /\ postponed' \in BOOLEAN /\ idling' \in BOOLEAN
        /\ state' \in [Task -> States] /\ pc' \in [Task -> Points]
    BY DEF States, Points
  <2>2. /\ cpu' \in Task /\ scheduler_lock' \in Nat /\ postpone_count' \in Nat
        /\ nest' \in [Task -> 0..MaxNest] /\ irq' \in [Task -> 0..MaxIrq]
    BY DEF HoldsCounted, Releasing
  <2>3. /\ OthersSuspended' /\ HoldsCounted' /\ PointsConsistent'
        /\ FlagConsistent' /\ SwitchOwed'
    BY DEF OthersSuspended, HoldsCounted, Releasing, PointsConsistent,
           FlagConsistent, SwitchOwed
  <2> QED BY <2>1, <2>2, <2>3 DEF TypeOK
<1>5. CASE ScheduleWhileIdle
  <2> USE <1>5 DEF TypeOK, ScheduleWhileIdle, lockVars
  <2>1. /\ interrupts' \in BOOLEAN /\ postponed' \in BOOLEAN /\ idling' \in BOOLEAN
        /\ state' \in [Task -> States] /\ pc' \in [Task -> Points]
    BY DEF States, Points
  <2>2. /\ cpu' \in Task /\ scheduler_lock' \in Nat /\ postpone_count' \in Nat
        /\ nest' \in [Task -> 0..MaxNest] /\ irq' \in [Task -> 0..MaxIrq]
    BY DEF HoldsCounted, Releasing
  <2>3. /\ OthersSuspended' /\ HoldsCounted' /\ PointsConsistent'
        /\ FlagConsistent' /\ SwitchOwed'
    BY DEF OthersSuspended, HoldsCounted, Releasing, PointsConsistent,
           FlagConsistent, SwitchOwed
  <2> QED BY <2>1, <2>2, <2>3 DEF TypeOK
<1>6. CASE ScheduleSame
  <2> USE <1>6 DEF TypeOK, ScheduleSame, lockVars
  <2>1. /\ interrupts' \in BOOLEAN /\ postponed' \in BOOLEAN /\ idling' \in BOOLEAN
        /\ state' \in [Task -> States] /\ pc' \in [Task -> Points]
    BY DEF States, Points
  <2>2. /\ cpu' \in Task /\ scheduler_lock' \in Nat /\ postpone_count' \in Nat
        /\ nest' \in [Task -> 0..MaxNest] /\ irq' \in [Task -> 0..MaxIrq]
    BY DEF HoldsCounted, Releasing
  <2>3. /\ OthersSuspended' /\ HoldsCounted' /\ PointsConsistent'
        /\ FlagConsistent' /\ SwitchOwed'
    BY DEF OthersSuspended, HoldsCounted, Releasing, PointsConsistent,
           FlagConsistent, SwitchOwed
  <2> QED BY <2>1, <2>2, <2>3 DEF TypeOK
<1>7. CASE ScheduleIdle
  <2> USE <1>7 DEF TypeOK, ScheduleIdle
  <2>1. /\ interrupts' \in BOOLEAN /\ postponed' \in BOOLEAN /\ idling' \in BOOLEAN
        /\ state' \in [Task -> States] /\ pc' \in [Task -> Points]
    BY DEF States, Points
  <2>2. /\ cpu' \in Task /\ scheduler_lock' \in Nat /\ postpone_count' \in Nat
        /\ nest' \in [Task -> 0..MaxNest] /\ irq' \in [Task -> 0..MaxIrq]
    BY DEF HoldsCounted, Releasing
  <2>3. /\ OthersSuspended' /\ HoldsCounted' /\ PointsConsistent'
        /\ FlagConsistent' /\ SwitchOwed'
    BY DEF OthersSuspended, HoldsCounted, Releasing, PointsConsistent,
           FlagConsistent, SwitchOwed
  <2> QED BY <2>1, <2>2, <2>3 DEF TypeOK
<1>8. CASE ScheduleSwitch
  <2> USE <1>8 DEF TypeOK, ScheduleSwitch, SwitchTo, Ready, Requeued, lockVars
  <2>1. /\ interrupts' \in BOOLEAN /\ postponed' \in BOOLEAN /\ idling' \in BOOLEAN
        /\ state' \in [Task -> States] /\ pc' \in [Task -> Points]
    BY DEF States, Points
  <2>2. /\ cpu' \in Task /\ scheduler_lock' \in Nat /\ postpone_count' \in Nat
        /\ nest' \in [Task -> 0..MaxNest] /\ irq' \in [Task -> 0..MaxIrq]
    BY DEF HoldsCounted, Releasing
  <2>3. OthersSuspended'
    BY DEF OthersSuspended, PointsConsistent
  <2>4. HoldsCounted' /\ PointsConsistent' /\ SwitchOwed'
    BY DEF HoldsCounted, Releasing, PointsConsistent, OthersSuspended, SwitchOwed
  <2>5. FlagConsistent'
    BY DEF FlagConsistent, HoldsCounted, Releasing, PointsConsistent, OthersSuspended
  <2> QED BY <2>1, <2>2, <2>3, <2>4, <2>5 DEF TypeOK
<1>9. CASE IdleWake
  <2> USE <1>9 DEF TypeOK, IdleWake, SwitchTo, Ready, Requeued
  <2>1. /\ interrupts' \in BOOLEAN /\ postponed' \in BOOLEAN /\ idling' \in BOOLEAN
        /\ state' \in [Task -> States] /\ pc' \in [Task -> Points]
    BY DEF States, Points
  <2>2. /\ cpu' \in Task /\ scheduler_lock' \in Nat /\ postpone_count' \in Nat
        /\ nest' \in [Task -> 0..MaxNest] /\ irq' \in [Task -> 0..MaxIrq]
    BY DEF HoldsCounted, Releasing
  <2>3. /\ OthersSuspended' /\ HoldsCounted' /\ PointsConsistent'
        /\ FlagConsistent' /\ SwitchOwed'
    BY DEF OthersSuspended, HoldsCounted, Releasing, PointsConsistent,
           FlagConsistent, SwitchOwed
  <2> QED BY <2>1, <2>2, <2>3 DEF TypeOK
<1>10. ASSUME NEW reason \in {"WAITING", "STOPPED"}, BlockCurrent(reason)
      PROVE  IInv'
  <2> USE <1>10 DEF TypeOK, BlockCurrent, InSection, InCode, lockVars
  <2>1. /\ interrupts' \in BOOLEAN /\ postponed' \in BOOLEAN /\ idling' \in BOOLEAN
        /\ state' \in [Task -> States] /\ pc' \in [Task -> Points]
    BY DEF States, Points
  <2>2. /\ cpu' \in Task /\ scheduler_lock' \in Nat /\ postpone_count' \in Nat
        /\ nest' \in [Task -> 0..MaxNest] /\ irq' \in [Task -> 0..MaxIrq]
    BY DEF HoldsCounted, Releasing
  <2>3. /\ OthersSuspended' /\ HoldsCounted' /\ PointsConsistent'
        /\ FlagConsistent' /\ SwitchOwed'
    BY DEF OthersSuspended, HoldsCounted, Releasing, PointsConsistent,
           FlagConsistent, SwitchOwed
  <2> QED BY <2>1, <2>2, <2>3 DEF TypeOK
<1>11. ASSUME NEW t \in Task, Wakeup(t)
      PROVE  IInv'
  <2> USE <1>11 DEF TypeOK, Wakeup, InSection, InCode, lockVars
  <2>1. /\ interrupts' \in BOOLEAN /\ postponed' \in BOOLEAN /\ idling' \in BOOLEAN
        /\ state' \in [Task -> States] /\ pc' \in [Task -> Points]
    BY DEF States, Points
  <2>2. /\ cpu' \in Task /\ scheduler_lock' \in Nat /\ postpone_count' \in Nat
        /\ nest' \in [Task -> 0..MaxNest] /\ irq' \in [Task -> 0..MaxIrq]
    BY DEF HoldsCounted, Releasing
  <2>3. /\ OthersSuspended' /\ HoldsCounted' /\ PointsConsistent'
        /\ FlagConsistent' /\ SwitchOwed'
    BY DEF OthersSuspended, HoldsCounted, Releasing, PointsConsistent,
           FlagConsistent, SwitchOwed
  <2> QED BY <2>1, <2>2, <2>3 DEF TypeOK
<1>12. ASSUME NEW t \in Task, TasksNew(t)
      PROVE  IInv'
  <2> USE <1>12 DEF TypeOK, TasksNew, InCode, lockVars
  <2>1. /\ interrupts' \in BOOLEAN /\ postponed' \in BOOLEAN /\ idling' \in BOOLEAN
        /\ state' \in [Task -> States] /\ pc' \in [Task -> Points]
    BY DEF States, Points
  <2>2. /\ cpu' \in Task /\ scheduler_lock' \in Nat /\ postpone_count' \in Nat
        /\ nest' \in [Task -> 0..MaxNest] /\ irq' \in [Task -> 0..MaxIrq]
    BY DEF HoldsCounted, Releasing
  <2>3. /\ OthersSuspended' /\ HoldsCounted' /\ PointsConsistent'
        /\ FlagConsistent' /\ SwitchOwed'
    BY DEF OthersSuspended, HoldsCounted, Releasing, PointsConsistent,
           FlagConsistent, SwitchOwed
  <2> QED BY <2>1, <2>2, <2>3 DEF TypeOK
<1>13. ASSUME NEW t \in Task, CleanStoppedTask(t)
      PROVE  IInv'
  <2> USE <1>13 DEF TypeOK, CleanStoppedTask, InSection, InCode, lockVars
  <2>1. /\ interrupts' \in BOOLEAN /\ postponed' \in BOOLEAN /\ idling' \in BOOLEAN
        /\ state' \in [Task -> States] /\ pc' \in [Task -> Points]
    BY DEF States, Points
  <2>2. /\ cpu' \in Task /\ scheduler_lock' \in Nat /\ postpone_count' \in Nat
        /\ nest' \in [Task -> 0..MaxNest] /\ irq' \in [Task -> 0..MaxIrq]
    BY DEF HoldsCounted, Releasing
  <2>3. /\ OthersSuspended' /\ HoldsCounted' /\ PointsConsistent'
        /\ FlagConsistent' /\ SwitchOwed'
    BY DEF OthersSuspended, HoldsCounted, Releasing, PointsConsistent,
           FlagConsistent, SwitchOwed
  <2> QED BY <2>1, <2>2, <2>3 DEF TypeOK
<1>14. CASE InterruptTask
  <2> USE <1>14 DEF TypeOK, InterruptTask, InCode
  <2>1. /\ interrupts' \in BOOLEAN /\ postponed' \in BOOLEAN /\ idling' \in BOOLEAN
        /\ state' \in [Task -> States] /\ pc' \in [Task -> Points]
    BY DEF States, Points
  <2>2. /\ cpu' \in Task /\ scheduler_lock' \in Nat /\ postpone_count' \in Nat
        /\ nest' \in [Task -> 0..MaxNest] /\ irq' \in [Task -> 0..MaxIrq]
    BY DEF HoldsCounted, Releasing
  <2>3. /\ OthersSuspended' /\ HoldsCounted' /\ PointsConsistent'
        /\ FlagConsistent' /\ SwitchOwed'
    BY DEF OthersSuspended, HoldsCounted, Releasing, PointsConsistent,
           FlagConsistent, SwitchOwed
  <2> QED BY <2>1, <2>2, <2>3 DEF TypeOK
<1>15. CASE ReturnToTask
  <2> USE <1>15 DEF TypeOK, ReturnToTask, InCode
  <2>1. /\ interrupts' \in BOOLEAN /\ postponed' \in BOOLEAN /\ idling' \in BOOLEAN
        /\ state' \in [Task -> States] /\ pc' \in [Task -> Points]
    BY DEF States, Points
  <2>2. /\ cpu' \in Task /\ scheduler_lock' \in Nat /\ postpone_count' \in Nat
        /\ nest' \in [Task -> 0..MaxNest] /\ irq' \in [Task -> 0..MaxIrq]
    BY DEF HoldsCounted, Releasing
  <2>3. /\ OthersSuspended' /\ HoldsCounted' /\ PointsConsistent'
        /\ FlagConsistent' /\ SwitchOwed'
    BY DEF OthersSuspended, HoldsCounted, Releasing, PointsConsistent,
           FlagConsistent, SwitchOwed
  <2> QED BY <2>1, <2>2, <2>3 DEF TypeOK
<1>16. CASE InterruptIdle
  <2> USE <1>16 DEF TypeOK, InterruptIdle
  <2>1. /\ interrupts' \in BOOLEAN /\ postponed' \in BOOLEAN /\ idling' \in BOOLEAN
        /\ state' \in [Task -> States] /\ pc' \in [Task -> Points]
    BY DEF States, Points
  <2>2. /\ cpu' \in Task /\ scheduler_lock' \in Nat /\ postpone_count' \in Nat
        /\ nest' \in [Task -> 0..MaxNest] /\ irq' \in [Task -> 0..MaxIrq]
    BY DEF HoldsCounted, Releasing
  <2>3. /\ OthersSuspended' /\ HoldsCounted' /\ PointsConsistent'
        /\ FlagConsistent' /\ SwitchOwed'
    BY DEF OthersSuspended, HoldsCounted, Releasing, PointsConsistent,
           FlagConsistent, SwitchOwed
  <2> QED BY <2>1, <2>2, <2>3 DEF TypeOK
<1>17. CASE ReturnToIdle
  <2> USE <1>17 DEF TypeOK, ReturnToIdle, InCode
  <2>1. /\ interrupts' \in BOOLEAN /\ postponed' \in BOOLEAN /\ idling' \in BOOLEAN
        /\ state' \in [Task -> States] /\ pc' \in [Task -> Points]
    BY DEF States, Points
  <2>2. /\ cpu' \in Task /\ scheduler_lock' \in Nat /\ postpone_count' \in Nat
        /\ nest' \in [Task -> 0..MaxNest] /\ irq' \in [Task -> 0..MaxIrq]
    BY DEF HoldsCounted, Releasing
  <2>3. /\ OthersSuspended' /\ HoldsCounted' /\ PointsConsistent'
        /\ FlagConsistent' /\ SwitchOwed'
    BY DEF OthersSuspended, HoldsCounted, Releasing, PointsConsistent,
           FlagConsistent, SwitchOwed
  <2> QED BY <2>1, <2>2, <2>3 DEF TypeOK
<1>18. CASE UNCHANGED vars
  BY <1>18 DEF vars, TypeOK, OthersSuspended, HoldsCounted, Releasing,
               PointsConsistent, FlagConsistent, SwitchOwed
<1> QED
  BY <1>1, <1>2, <1>3, <1>4, <1>5, <1>6, <1>7, <1>8, <1>9, <1>10, <1>11,
     <1>12, <1>13, <1>14, <1>15, <1>16, <1>17, <1>18 DEF Next

(* The account of holds is right in every reachable state.                  *)
THEOREM IInvHolds == Spec => []IInv
  BY InitIInv, NextIInv, PTL DEF Spec

(* Neither counter ever underflows, and nothing leaves its type.            *)
THEOREM TypeCorrect == Spec => []TypeOK
<1>1. IInv => TypeOK
  BY DEF IInv
<1> QED BY <1>1, IInvHolds, PTL

(* Sections run with interrupts masked, whatever the nesting: what makes    *)
(* every locked operation of the scheduler one atomic step.                 *)
THEOREM SectionsAreMasked == Spec => []SectionsMasked
<1>1. IInv => SectionsMasked
  BY DEF IInv, FlagConsistent, SectionsMasked
<1> QED BY <1>1, IInvHolds, PTL

(* Code outside sections and handlers is always preemptible again.          *)
THEOREM OutsideIsPreemptible == Spec => []PreemptibleOutside
<1>1. IInv => PreemptibleOutside
  BY DEF IInv, TypeOK, FlagConsistent, HoldsCounted, Releasing, InCode,
         PreemptibleOutside
<1> QED BY <1>1, IInvHolds, PTL

(* A task that gave up the CPU under the lock has left it by the time the   *)
(* last release returns.                                                    *)
THEOREM BlockedTasksLeave == Spec => []BlockedLeavesCpu
<1>1. IInv => BlockedLeavesCpu
  BY DEF IInv, TypeOK, SwitchOwed, InCode, BlockedLeavesCpu
<1> QED BY <1>1, IInvHolds, PTL

(* A postponed request is served by the release that ends the section.      *)
THEOREM RequestsServed == Spec => []NoRequestForgotten
<1>1. IInv => NoRequestForgotten
  BY DEF IInv, SwitchOwed, NoRequestForgotten
<1> QED BY <1>1, IInvHolds, PTL

(* Every context switch hands over exactly one hold, with interrupts off.   *)
THEOREM SwitchesAreBalanced == Spec => SwitchesBalanced
<1>1. IInv /\ [Next]_vars
        => [cpu' # cpu => /\ postpone_count = 0
                          /\ scheduler_lock = 1
                          /\ ~interrupts']_vars
  <2> SUFFICES ASSUME IInv, Next, cpu' # cpu
               PROVE  postpone_count = 0 /\ scheduler_lock = 1 /\ ~interrupts'
    BY DEF vars
  <2> USE DEF IInv, TypeOK, HoldsCounted, Releasing, PointsConsistent
  <2>1. ScheduleSwitch \/ IdleWake
    BY DEF Next, AquireSchedulerLock, ReleaseSchedulerLock, DropHold,
           PostponeSchedule, ScheduleWhileIdle, ScheduleSame, ScheduleIdle,
           BlockCurrent, Wakeup, TasksNew, CleanStoppedTask, InterruptTask,
           ReturnToTask, InterruptIdle, ReturnToIdle
  <2>2. CASE ScheduleSwitch
    BY <2>2 DEF ScheduleSwitch, lockVars, FlagConsistent
  <2>3. CASE IdleWake
    BY <2>3 DEF IdleWake
  <2> QED BY <2>1, <2>2, <2>3
<1> QED BY <1>1, IInvHolds, PTL DEF Spec, SwitchesBalanced

(* A stopped task is never resumed, and never freed from under the CPU.     *)
THEOREM StoppedTasksStayStopped == Spec => StoppedIsFinal
<1>1. IInv /\ [Next]_vars
        => [\A t \in Task : state[t] = "STOPPED" =>
               \/ state'[t] = "STOPPED"
               \/ state'[t] = "UNUSED" /\ cpu # t]_vars
  <2> SUFFICES ASSUME IInv, Next, NEW t \in Task, state[t] = "STOPPED"
               PROVE  \/ state'[t] = "STOPPED"
                      \/ state'[t] = "UNUSED" /\ cpu # t
    BY DEF vars
  <2> USE DEF IInv, TypeOK
  <2>1. CASE UNCHANGED state
    BY <2>1
  <2>2. CASE ScheduleSwitch \/ IdleWake
    BY <2>2 DEF ScheduleSwitch, IdleWake, SwitchTo, Ready, Requeued
  <2>3. ASSUME NEW reason \in {"WAITING", "STOPPED"}, BlockCurrent(reason)
        PROVE  state'[t] = "STOPPED"
    BY <2>3 DEF BlockCurrent
  <2>4. ASSUME NEW u \in Task, Wakeup(u) \/ TasksNew(u) \/ CleanStoppedTask(u)
        PROVE  \/ state'[t] = "STOPPED"
               \/ state'[t] = "UNUSED" /\ cpu # t
    BY <2>4 DEF Wakeup, TasksNew, CleanStoppedTask
  <2> QED
    BY <2>1, <2>2, <2>3, <2>4
       DEF Next, AquireSchedulerLock, ReleaseSchedulerLock, DropHold,
           PostponeSchedule, ScheduleWhileIdle, ScheduleSame, ScheduleIdle,
           InterruptTask, ReturnToTask, InterruptIdle, ReturnToIdle
<1> QED BY <1>1, IInvHolds, PTL DEF Spec, StoppedIsFinal

(***************************************************************************)
(* The timer, for any number of lines, callbacks and sleepers, any width   *)
(* of the tick counter and any length of a sleep shorter than its period.  *)
(***************************************************************************)
(* The counted slots are filled, and the one being registered is filled      *)
(* before it is counted.                                                     *)
SlotsFilled ==
  /\ callbacks \in [0..(MaxCallbacks - 1) -> Callback \cup {NoCallback}]
  /\ count \in Nat /\ registering \in BOOLEAN
  /\ count < MaxCallbacks \/ count = 0
  /\ registering => count + 1 < MaxCallbacks /\ callbacks[count] # NoCallback
  /\ \A k \in 0..(count - 1) : callbacks[k] # NoCallback

(* A sleeper that has not seen all its ticks is exactly the missing ones       *)
(* before its end, unless the end wrapped around.                             *)
SleepOK(s, w) ==
  \/ s = Awake
  \/ /\ s \in [final : 0..(TickMod - 1), wanted : 1..MaxSleep, seen : Nat]
     /\ s.seen <= s.wanted
     /\ ~w /\ s.seen # s.wanted => timer_tick = s.final - s.wanted + s.seen

TimerInv ==
  /\ timer_tick \in 0..(TickMod - 1)
  /\ SlotsFilled
  /\ ~emptyCall
  /\ DOMAIN sleeping = Sleeper /\ wrapped \in [Sleeper -> BOOLEAN]
  /\ \A t \in Sleeper : SleepOK(sleeping[t], wrapped[t])

LEMMA TimerInvStarts == InterruptInit => TimerInv
<1> SUFFICES ASSUME InterruptInit PROVE TimerInv
  OBVIOUS
<1>1. timer_tick \in 0..(TickMod - 1) /\ ~emptyCall
  BY TickAssumption DEF InterruptInit
<1>2. SlotsFilled
  <2>1. /\ count = 0 /\ registering = FALSE /\ 0..(count - 1) = {}
        /\ callbacks = [k \in 0..(MaxCallbacks - 1) |-> NoCallback]
    BY DEF InterruptInit
  <2>2. callbacks \in [0..(MaxCallbacks - 1) -> Callback \cup {NoCallback}]
    BY <2>1
  <2> QED
    BY <2>1, <2>2 DEF SlotsFilled
<1> QED
  BY <1>1, <1>2 DEF InterruptInit, TimerInv, SleepOK

(* A tick: nobody who is behind its end is carried past it.                   *)
LEMMA TickKeepsTimer ==
  ASSUME TimerInv, TimerCallback
  PROVE  TimerInv'
<1>1. /\ timer_tick' = (timer_tick + 1) % TickMod
      /\ emptyCall' = (emptyCall \/ \E k \in 0..(count - 1) : callbacks[k] = NoCallback)
      /\ sleeping' = [t \in Sleeper |->
           IF sleeping[t] = Awake \/ sleeping[t].seen = sleeping[t].wanted THEN sleeping[t]
           ELSE [sleeping[t] EXCEPT !.seen = @ + 1]]
      /\ UNCHANGED <<callbacks, count, registering, wrapped>>
  BY DEF TimerCallback, callbackVars
<1>2. timer_tick \in 0..(TickMod - 1) /\ TickMod \in Nat
  BY TickAssumption DEF TimerInv
<1>3. /\ timer_tick' \in 0..(TickMod - 1)
      /\ timer_tick + 1 < TickMod => timer_tick' = timer_tick + 1
  BY <1>1, <1>2
<1>4. SlotsFilled' /\ ~emptyCall'
  BY <1>1 DEF TimerInv, SlotsFilled
<1>5. ASSUME NEW t \in Sleeper
      PROVE  SleepOK(sleeping[t], wrapped[t])'
  <2> DEFINE s == sleeping[t]
  <2>1. SleepOK(s, wrapped[t])
    BY DEF TimerInv
  <2>2. CASE s = Awake
    BY <1>1, <2>2 DEF SleepOK
  <2>3. CASE s # Awake /\ s.seen = s.wanted
    BY <1>1, <2>1, <2>3 DEF SleepOK
  <2>4. CASE s # Awake /\ s.seen # s.wanted
    <3>1. /\ s \in [final : 0..(TickMod - 1), wanted : 1..MaxSleep, seen : Nat]
          /\ s.seen < s.wanted /\ s.final \in Int /\ s.wanted \in Int /\ s.seen \in Nat
          /\ s.final < TickMod
      BY <1>2, <2>1, <2>4, TickAssumption DEF SleepOK
    <3>2. sleeping'[t] = [s EXCEPT !.seen = s.seen + 1]
      BY <1>1, <2>4
    <3>3. /\ sleeping'[t] \in [final : 0..(TickMod - 1), wanted : 1..MaxSleep, seen : Nat]
          /\ sleeping'[t].final = s.final /\ sleeping'[t].wanted = s.wanted
          /\ sleeping'[t].seen = s.seen + 1
      BY <3>1, <3>2
    <3>4. ~wrapped[t] => timer_tick' = s.final - s.wanted + s.seen + 1
      BY <1>2, <1>3, <2>1, <2>4, <3>1 DEF SleepOK
    <3> QED
      BY <1>1, <3>1, <3>3, <3>4 DEF SleepOK
  <2> QED
    BY <2>2, <2>3, <2>4
<1> QED
  BY <1>1, <1>3, <1>4, <1>5 DEF TimerInv

LEMMA RegisterKeepsTimer ==
  ASSUME TimerInv, RegisterCount \/ \E c \in Callback : RegisterStore(c)
  PROVE  TimerInv'
<1>1. UNCHANGED <<timer_tick, emptyCall, sleeping, wrapped>>
  BY DEF RegisterCount, RegisterStore
<1>2. SlotsFilled'
  <2>1. CASE RegisterCount
    <3>1. /\ registering /\ count' = count + 1 /\ registering' = FALSE /\ callbacks' = callbacks
          /\ count \in Nat /\ count + 1 < MaxCallbacks /\ callbacks[count] # NoCallback
          /\ \A k \in 0..(count - 1) : callbacks[k] # NoCallback
      BY <2>1 DEF RegisterCount, TimerInv, SlotsFilled
    <3>2. \A k \in 0..(count' - 1) : k = count \/ k \in 0..(count - 1)
      BY <3>1
    <3>3. \A k \in 0..(count' - 1) : callbacks'[k] # NoCallback
      BY <3>1, <3>2
    <3>4. callbacks' \in [0..(MaxCallbacks - 1) -> Callback \cup {NoCallback}]
      BY <3>1 DEF TimerInv, SlotsFilled
    <3>5. count' \in Nat /\ count' < MaxCallbacks
      BY <3>1, CallbackAssumption
    <3> QED
      BY <3>1, <3>3, <3>4, <3>5, Zenon DEF SlotsFilled
  <2>2. ASSUME NEW c \in Callback, RegisterStore(c)
        PROVE  SlotsFilled'
    <3>1. /\ count < MaxCallbacks - 1 /\ count \in Nat
          /\ callbacks' = [callbacks EXCEPT ![count] = c] /\ registering' = TRUE
          /\ count' = count /\ c # NoCallback /\ count \in 0..(MaxCallbacks - 1)
      BY <2>2, CallbackAssumption DEF RegisterStore, TimerInv, SlotsFilled, NoCallback
    <3> QED
      BY <3>1, CallbackAssumption DEF TimerInv, SlotsFilled
  <2> QED
    BY <2>1, <2>2
<1> QED
  BY <1>1, <1>2 DEF TimerInv, SleepOK

LEMMA SleepKeepsTimer ==
  ASSUME TimerInv, NEW t \in Sleeper,
         Wake(t) \/ \E ms \in 1..MaxSleep, tone \in BOOLEAN : Sleep(t, ms, tone)
  PROVE  TimerInv'
<1>1. UNCHANGED <<timer_tick, callbacks, count, registering, emptyCall>>
  BY DEF Wake, Sleep, callbackVars
<1>2. SlotsFilled' /\ ~emptyCall' /\ timer_tick' \in 0..(TickMod - 1)
  BY <1>1 DEF TimerInv, SlotsFilled
<1>3. CASE Wake(t)
  BY <1>1, <1>2, <1>3 DEF Wake, TimerInv, SleepOK
<1>4. ASSUME NEW ms \in 1..MaxSleep, NEW tone \in BOOLEAN, Sleep(t, ms, tone)
      PROVE  TimerInv'
  <2> DEFINE s == [final |-> (timer_tick + ms) % TickMod, wanted |-> ms, seen |-> 0]
             w == timer_tick + ms >= TickMod
  <2>1. /\ sleeping' = [sleeping EXCEPT ![t] = s]
        /\ wrapped' = [wrapped EXCEPT ![t] = w]
    BY <1>4 DEF Sleep
  <2>2. /\ timer_tick \in 0..(TickMod - 1) /\ TickMod \in Nat /\ ms \in Nat /\ w \in BOOLEAN
    BY TickAssumption DEF TimerInv
  <2>3. /\ (timer_tick + ms) % TickMod \in 0..(TickMod - 1)
        /\ ~w => (timer_tick + ms) % TickMod = timer_tick + ms
    BY <2>2
  <2>4. SleepOK(s, w)'
    BY <1>1, <2>2, <2>3 DEF SleepOK
  <2>5. /\ DOMAIN sleeping' = Sleeper /\ wrapped' \in [Sleeper -> BOOLEAN]
        /\ sleeping'[t] = s /\ wrapped'[t] = w
        /\ \A u \in Sleeper \ {t} : sleeping'[u] = sleeping[u] /\ wrapped'[u] = wrapped[u]
    BY <2>1, <2>2 DEF TimerInv
  <2>6. ASSUME NEW u \in Sleeper PROVE SleepOK(sleeping[u], wrapped[u])'
    BY <1>1, <2>4, <2>5 DEF TimerInv, SleepOK
  <2> QED
    BY <1>2, <2>5, <2>6 DEF TimerInv
<1> QED
  BY <1>3, <1>4

LEMMA TimerInvKept ==
  ASSUME TimerInv, [InterruptNext]_interruptVars
  PROVE  TimerInv'
<1>1. CASE UNCHANGED timerVars
  BY <1>1 DEF timerVars, callbackVars, TimerInv, SlotsFilled, SleepOK
<1>2. ASSUME NEW i \in Line, Raise(i) \/ registerHandler(i) \/ interruptHandler(i)
      PROVE  TimerInv'
  BY <1>1, <1>2, TickKeepsTimer DEF Raise, registerHandler, interruptHandler
<1>3. CASE UNCHANGED interruptVars
  BY <1>1, <1>3 DEF interruptVars, timerVars
<1> QED
  BY <1>2, <1>3, RegisterKeepsTimer, SleepKeepsTimer DEF InterruptNext

(* A tick inside timer_register_callback calls no empty slot, and sleep()      *)
(* does not return early unless its end wrapped around the tick counter.     *)
THEOREM TimerIsSafe == InterruptSpec => []TimerSafe
<1>1. TimerInv => TimerSafe
  <2> SUFFICES ASSUME TimerInv, NEW t \in Sleeper, sleeping[t] # Awake, Over(t), ~wrapped[t],
                      sleeping[t].seen # sleeping[t].wanted
               PROVE  FALSE
    BY DEF TimerInv, TimerSafe, NoEmptyCallback, SleepsLongEnough
  <2> DEFINE s == sleeping[t]
  <2>1. SleepOK(s, wrapped[t])
    BY DEF TimerInv
  <2>2. /\ s.final \in Int /\ s.wanted \in Int /\ s.seen \in Int /\ s.seen < s.wanted
        /\ timer_tick = s.final - s.wanted + s.seen
    BY <2>1, TickAssumption DEF SleepOK
  <2> QED
    BY <2>2 DEF Over
<1> QED
  BY <1>1, TimerInvStarts, TimerInvKept, PTL DEF InterruptSpec

(***************************************************************************)
(* The ring buffer.                                                        *)
(***************************************************************************)
(* An index that ran at most once past the end of the array is reduced by   *)
(* one subtraction: what % S does to every index RingBuffer.hpp computes.   *)
LEMMA ModWrap ==
  ASSUME NEW a \in Nat, a < S + S
  PROVE  a % S = IF a < S THEN a ELSE a - S
  BY RingAssumption, SMT

(* The same for an index plus an offset within the array.                   *)
LEMMA OffsetWrap ==
  ASSUME NEW i \in Index, NEW k \in 0..S
  PROVE  (i + k) % S = IF i + k < S THEN i + k ELSE i + k - S
  <1>1. i + k \in Nat /\ i + k < S + S
    BY RingAssumption DEF Index
  <1>2. \A a \in Nat : a < S + S => a % S = IF a < S THEN a ELSE a - S
    BY ModWrap, Zenon
  <1>3. CASE i + k < S
    BY <1>1, <1>2, <1>3, Zenon
  <1>4. CASE ~(i + k < S)
    BY <1>1, <1>4, RingAssumption, SMT DEF Index
  <1> QED
    BY <1>3, <1>4, Zenon

(* The slots of the window have been written: what makes the values handed  *)
(* out by Dequeue and Peek values somebody enqueued.                        *)
WindowWritten == \A k \in Index : k < length => data[(tail + k) % S] \in T

RingInv == RingTypeOK /\ WindowConsistent /\ WindowWritten

(* Advance moves to the next slot and, from the last one, back to slot 0.   *)
LEMMA AdvanceWraps ==
  ASSUME NEW i \in Index
  PROVE  /\ Advance(i) = IF i + 1 < S THEN i + 1 ELSE 0
         /\ Advance(i) \in Index
  <1>1. 1 \in 0..S
    BY RingAssumption
  <1>2. Advance(i) = IF i + 1 < S THEN i + 1 ELSE i + 1 - S
    BY <1>1, OffsetWrap, Zenon DEF Advance
  <1> QED
    BY <1>2, RingAssumption DEF Index

(* The oldest value of a buffer that is not empty was enqueued.             *)
LEMMA OldestWritten ==
  ASSUME RingInv, ~IsEmpty
  PROVE  data[tail] \in T
  <1>1. length > 0 /\ tail \in Index /\ 0 \in 0..S
    BY RingAssumption DEF RingInv, RingTypeOK, IsEmpty
  <1>2. (tail + 0) % S = IF tail + 0 < S THEN tail + 0 ELSE tail + 0 - S
    BY <1>1, OffsetWrap, Zenon
  <1>3. (tail + 0) % S = tail
    BY <1>1, <1>2, RingAssumption DEF Index
  <1> QED
    BY <1>1, <1>3, RingAssumption DEF RingInv, WindowWritten, Index

(* Dequeue and Peek of an empty buffer only report: the indices stay.       *)
LEMMA NothingThereKeepsInv ==
  ASSUME RingInv, NothingThere
  PROVE  RingInv'
  BY DEF RingInv, NothingThere, Answers, RingTypeOK, Errors, WindowConsistent, WindowWritten

(* Enqueue, full or not, keeps the window consistent and written.           *)
LEMMA EnqueueKeepsInv ==
  ASSUME RingInv, NEW v \in T, Enqueue(v)
  PROVE  RingInv'
  <1> USE RingAssumption DEF Index
  <1>1. CASE IsFull
    BY <1>1 DEF RingInv, Enqueue, Answers, RingTypeOK, Errors, WindowConsistent, WindowWritten
  <1>2. CASE ~IsFull
    <2>1. /\ head \in Index /\ tail \in Index /\ length \in Index
          /\ data \in [Index -> T \cup {Unset}]
      BY <1>2 DEF RingInv, RingTypeOK, IsFull
    <2>2. /\ data' = [data EXCEPT ![head] = v] /\ head' = Advance(head)
          /\ length' = length + 1 /\ UNCHANGED <<tail, error>>
          /\ answer' = [status |-> 0, val |-> v]
      BY <1>2 DEF Enqueue, Answers
    <2>3. RingTypeOK'
      BY <2>1, <2>2, AdvanceWraps DEF RingInv, RingTypeOK
    <2>4. head = IF tail + length < S THEN tail + length ELSE tail + length - S
      <3>1. tail \in Index /\ length \in 0..S
        BY DEF RingInv, RingTypeOK
      <3>2. head = (tail + length) % S
        BY DEF RingInv, WindowConsistent
      <3> QED
        BY <3>1, <3>2, OffsetWrap, Zenon
    <2>5. (tail + (length + 1)) % S =
             IF tail + (length + 1) < S THEN tail + (length + 1) ELSE tail + (length + 1) - S
      <3>1. tail \in Index /\ length + 1 \in 0..S
        BY <2>1
      <3> QED
        BY <3>1, OffsetWrap, Zenon
    <2>6. WindowConsistent'
      BY <2>1, <2>2, <2>4, <2>5, AdvanceWraps DEF WindowConsistent
    <2>7. WindowWritten'
      <3> SUFFICES ASSUME NEW k \in Index, k < length + 1
                   PROVE  data'[(tail + k) % S] \in T
        BY <2>2 DEF WindowWritten
      <3>0. tail \in Index /\ k \in 0..S
        BY <2>1
      <3>1. (tail + k) % S = IF tail + k < S THEN tail + k ELSE tail + k - S
        BY <3>0, OffsetWrap, Zenon
      <3>2. CASE k = length
        BY <2>1, <2>2, <2>4, <3>1, <3>2
      <3>3. CASE k < length
        <4>1. data[(tail + k) % S] \in T
          BY <3>3, Zenon DEF RingInv, WindowWritten
        <4>2. (tail + k) % S \in Index
          BY <2>1, <3>0, <3>1
        <4> HIDE DEF Index
        <4> QED
          BY <2>1, <2>2, <4>1, <4>2
      <3> QED
        BY <2>1, <3>2, <3>3
    <2> QED
      BY <2>3, <2>6, <2>7 DEF RingInv
  <1> QED
    BY <1>1, <1>2

(* Dequeue takes the oldest slot out of the window and disturbs no other.   *)
LEMMA DequeueKeepsInv ==
  ASSUME RingInv, Dequeue
  PROVE  RingInv'
  <1> USE RingAssumption DEF Index
  <1>1. CASE IsEmpty
    BY <1>1, NothingThereKeepsInv DEF Dequeue
  <1>2. CASE ~IsEmpty
    <2>1. /\ head \in Index /\ tail \in Index /\ length \in 1..S
      BY <1>2 DEF RingInv, RingTypeOK, IsEmpty
    <2>2. /\ tail' = Advance(tail) /\ length' = length - 1
          /\ UNCHANGED <<data, head, error>>
          /\ answer' = [status |-> 0, val |-> data[tail]]
      BY <1>2 DEF Dequeue, Answers, NothingThere
    <2>3. RingTypeOK'
      BY <1>2, <2>1, <2>2, AdvanceWraps, OldestWritten DEF RingInv, RingTypeOK
    <2>4. head = IF tail + length < S THEN tail + length ELSE tail + length - S
      <3>1. tail \in Index /\ length \in 0..S
        BY DEF RingInv, RingTypeOK
      <3>2. head = (tail + length) % S
        BY DEF RingInv, WindowConsistent
      <3> QED
        BY <3>1, <3>2, OffsetWrap, Zenon
    <2>5. tail' = (IF tail + 1 < S THEN tail + 1 ELSE 0) /\ tail' \in Index
      BY <2>1, <2>2, AdvanceWraps
    <2>6. WindowConsistent'
      <3>0. tail' \in Index /\ length - 1 \in 0..S
        BY <2>1, <2>5
      <3>1. (tail' + (length - 1)) % S =
               IF tail' + (length - 1) < S THEN tail' + (length - 1)
                                           ELSE tail' + (length - 1) - S
        BY <3>0, OffsetWrap, Zenon
      <3> QED
        BY <2>1, <2>2, <2>4, <2>5, <3>1 DEF WindowConsistent
    <2>7. WindowWritten'
      <3> SUFFICES ASSUME NEW k \in Index, k < length - 1
                   PROVE  data[(tail' + k) % S] \in T
        BY <2>2 DEF WindowWritten
      <3>1. k + 1 \in Index /\ k + 1 < length
        BY <2>1
      <3>2. (tail + (k + 1)) % S =
               IF tail + (k + 1) < S THEN tail + (k + 1) ELSE tail + (k + 1) - S
        <4>1. tail \in Index /\ k + 1 \in 0..S
          BY <2>1, <3>1
        <4> QED
          BY <4>1, OffsetWrap, Zenon
      <3>3. (tail' + k) % S = IF tail' + k < S THEN tail' + k ELSE tail' + k - S
        <4>1. tail' \in Index /\ k \in 0..S
          BY <2>5
        <4> QED
          BY <4>1, OffsetWrap, Zenon
      <3>4. (tail + (k + 1)) % S = (tail' + k) % S
        BY <2>1, <2>5, <3>1, <3>2, <3>3
      <3> QED
        BY <3>1, <3>4 DEF RingInv, WindowWritten
    <2> QED
      BY <2>3, <2>6, <2>7 DEF RingInv
  <1> QED
    BY <1>1, <1>2

(* Peek leaves buffer and window as they are.                               *)
LEMMA PeekKeepsInv ==
  ASSUME RingInv, Peek
  PROVE  RingInv'
  <1>1. CASE NothingThere
    BY <1>1, NothingThereKeepsInv
  <1>2. CASE ~IsEmpty /\ Answers(0, data[tail]) /\ UNCHANGED ring
    BY <1>2, OldestWritten
       DEF ring, Answers, RingInv, RingTypeOK, WindowConsistent, WindowWritten
  <1> QED
    BY <1>1, <1>2 DEF Peek

(* For every size and every sequence of calls: head, tail and length stay   *)
(* in range, describe one window, and that window holds enqueued values.    *)
THEOREM RingInvariant == RingSpec => []RingInv
  <1>1. RingInit => RingInv
    <2> SUFFICES ASSUME RingInit PROVE RingInv
      OBVIOUS
    <2>1. 0 % S = 0
      BY RingAssumption, SMT
    <2> QED
      BY <2>1, RingAssumption
         DEF RingInit, RingInv, RingTypeOK, Index, Errors, WindowConsistent, WindowWritten
  <1>2. RingInv /\ [RingNext]_ringVars => RingInv'
    <2> SUFFICES ASSUME RingInv, [RingNext]_ringVars PROVE RingInv'
      OBVIOUS
    <2>1. CASE \E v \in T : Enqueue(v)
      BY <2>1, EnqueueKeepsInv
    <2>2. CASE Dequeue
      BY <2>2, DequeueKeepsInv
    <2>3. CASE Peek
      BY <2>3, PeekKeepsInv
    <2>4. CASE UNCHANGED ringVars
      BY <2>4 DEF ringVars, ring, RingInv, RingTypeOK, WindowConsistent, WindowWritten
    <2> QED
      BY <2>1, <2>2, <2>3, <2>4 DEF RingNext
  <1> QED
    BY <1>1, <1>2, PTL DEF RingSpec

(* The type invariant of the ring buffer, for every size.                   *)
THEOREM RingTypes == RingSpec => []RingTypeOK
  BY RingInvariant, PTL DEF RingInv

(* Write index, read index and length always describe one window.           *)
THEOREM RingWindow == RingSpec => []WindowConsistent
  BY RingInvariant, PTL DEF RingInv

-----------------------------------------------------------------------------
(* Contents is a sequence of length values, the oldest first.               *)
LEMMA ContentsShape ==
  ASSUME RingInv
  PROVE  /\ Contents \in Seq(T)
         /\ Len(Contents) = length
         /\ DOMAIN Contents = 1..length
         /\ length \in 0..S /\ length \in Nat
         /\ length > 0 => Head(Contents) = data[tail]
  <1> USE RingAssumption
  <1>1. length \in 0..S /\ length \in Nat /\ tail \in Index
    BY DEF RingInv, RingTypeOK
  <1>2. \A k \in 1..length : data[(tail + k - 1) % S] \in T
    <2> SUFFICES ASSUME NEW k \in 1..length PROVE data[(tail + k - 1) % S] \in T
      OBVIOUS
    <2>1. k - 1 \in Index /\ k - 1 < length /\ tail + (k - 1) = tail + k - 1
      BY <1>1 DEF Index
    <2>2. data[(tail + (k - 1)) % S] \in T
      BY <2>1, Zenon DEF RingInv, WindowWritten
    <2> QED
      BY <2>1, <2>2, Zenon
  <1>3. Contents \in [1..length -> T]
    BY <1>2 DEF Contents
  <1>4. Contents \in Seq(T) /\ Len(Contents) = length /\ DOMAIN Contents = 1..length
    BY <1>1, <1>3
  <1>5. length > 0 => Head(Contents) = data[tail]
    <2> SUFFICES ASSUME length > 0 PROVE Head(Contents) = data[tail]
      OBVIOUS
    <2>1. 0 \in 0..S
      OBVIOUS
    <2>2. (tail + 0) % S = IF tail + 0 < S THEN tail + 0 ELSE tail + 0 - S
      BY <1>1, <2>1, OffsetWrap, Zenon
    <2>3. tail + 1 - 1 = tail /\ tail + 0 = tail /\ tail < S
      BY <1>1 DEF Index
    <2>4. (tail + 1 - 1) % S = tail
      BY <2>2, <2>3, Zenon
    <2>5. 1 \in 1..length
      BY <1>1
    <2>6. Contents[1] = data[tail]
      BY <2>4, <2>5, Zenon DEF Contents
    <2> QED
      BY <1>1, <1>4, <2>6
  <1> QED
    BY <1>1, <1>4, <1>5

(* Enqueue on a buffer with room appends to the queue.                      *)
LEMMA EnqueueAppends ==
  ASSUME RingInv, NEW v \in T, Enqueue(v), ~IsFull
  PROVE  Contents' = Append(Contents, v)
  <1> USE RingAssumption
  <1> DEFINE slot(k) == (tail + k - 1) % S
  <1>1. /\ length \in Index /\ tail \in Index /\ head \in Index
        /\ data \in [Index -> T \cup {Unset}]
    BY DEF RingInv, RingTypeOK, IsFull, Index
  <1>2. /\ data' = [data EXCEPT ![head] = v] /\ length' = length + 1 /\ tail' = tail
    BY DEF Enqueue
  <1>3. \A k \in 1..(length + 1) :
          slot(k) = IF tail + k - 1 < S THEN tail + k - 1 ELSE tail + k - 1 - S
    <2> SUFFICES ASSUME NEW k \in 1..(length + 1)
                 PROVE  slot(k) = IF tail + k - 1 < S THEN tail + k - 1 ELSE tail + k - 1 - S
      OBVIOUS
    <2>1. k - 1 \in 0..S /\ tail + (k - 1) = tail + k - 1
      BY <1>1 DEF Index
    <2>2. (tail + (k - 1)) % S = IF tail + (k - 1) < S THEN tail + (k - 1) ELSE tail + (k - 1) - S
      BY <1>1, <2>1, OffsetWrap, Zenon
    <2> QED
      BY <2>1, <2>2, Zenon
  <1>4. head = slot(length + 1)
    <2>1. head = (tail + length) % S /\ tail + (length + 1) - 1 = tail + length
      BY <1>1 DEF RingInv, WindowConsistent, Index
    <2> QED
      BY <2>1, Zenon
  <1> HIDE DEF slot
  <1>5. \A k \in 1..(length + 1) : slot(k) \in Index
    BY <1>1, <1>3 DEF Index
  <1>6. \A k \in 1..length : slot(k) # head
    BY <1>1, <1>3, <1>4 DEF Index
  <1>7. Contents' = [k \in 1..(length + 1) |-> data'[slot(k)]]
    <2>1. \A k \in 1..(length + 1) : (tail' + k - 1) % S = slot(k)
      BY <1>2, Zenon DEF slot
    <2>2. length' = length + 1
      BY <1>2
    <2> QED
      BY <2>1, <2>2, Zenon DEF Contents
  <1>8. \A k \in 1..(length + 1) : data'[slot(k)] = IF k <= length THEN data[slot(k)] ELSE v
    BY <1>1, <1>2, <1>4, <1>5, <1>6 DEF Index
  <1>9. Contents = [k \in 1..length |-> data[slot(k)]]
    BY Zenon DEF Contents, slot
  <1>10. Append(Contents, v) = [k \in 1..(length + 1) |-> IF k <= length THEN data[slot(k)] ELSE v]
    <2>1. /\ Append(Contents, v) \in Seq(T) /\ Len(Append(Contents, v)) = length + 1
          /\ \A k \in 1..length : Append(Contents, v)[k] = Contents[k]
          /\ Append(Contents, v)[length + 1] = v
      BY ContentsShape, AppendProperties
    <2>2. \A k \in 1..(length + 1) :
            Append(Contents, v)[k] = IF k <= length THEN data[slot(k)] ELSE v
      BY <1>1, <1>9, <2>1 DEF Index
    <2> QED
      BY <1>1, <2>1, <2>2 DEF Index
  <1> QED
    BY <1>7, <1>8, <1>10, Zenon

(* Dequeue on a buffer that is not empty removes the oldest value.          *)
LEMMA DequeueRemovesOldest ==
  ASSUME RingInv, Dequeue, ~IsEmpty
  PROVE  Contents' = Tail(Contents)
  <1> USE RingAssumption
  <1> DEFINE slot(k) == (tail + k - 1) % S
  <1>1. length \in 1..S /\ tail \in Index
    BY DEF RingInv, RingTypeOK, IsEmpty, Index
  <1>2. tail' = Advance(tail) /\ length' = length - 1 /\ data' = data
    BY DEF Dequeue, NothingThere
  <1>3. tail' = (IF tail + 1 < S THEN tail + 1 ELSE 0) /\ tail' \in Index
    BY <1>1, <1>2, AdvanceWraps
  <1>4. \A k \in 1..(length - 1) : (tail' + k - 1) % S = slot(k + 1)
    <2> SUFFICES ASSUME NEW k \in 1..(length - 1)
                 PROVE  (tail' + k - 1) % S = slot(k + 1)
      OBVIOUS
    <2>1. /\ k - 1 \in 0..S /\ k \in 0..S
          /\ tail' + (k - 1) = tail' + k - 1 /\ tail + (k + 1) - 1 = tail + k
      BY <1>1, <1>3 DEF Index
    <2>2. (tail' + (k - 1)) % S =
             IF tail' + (k - 1) < S THEN tail' + (k - 1) ELSE tail' + (k - 1) - S
      BY <1>3, <2>1, OffsetWrap, Zenon
    <2>3. (tail + k) % S = IF tail + k < S THEN tail + k ELSE tail + k - S
      BY <1>1, <2>1, OffsetWrap, Zenon
    <2>4. (tail' + (k - 1)) % S = (tail + k) % S
      BY <1>1, <1>3, <2>2, <2>3 DEF Index
    <2> QED
      BY <2>1, <2>4, Zenon
  <1> HIDE DEF slot
  <1>5. Contents' = [k \in 1..(length - 1) |-> data[slot(k + 1)]]
    BY <1>2, <1>4, Zenon DEF Contents
  <1>6. Contents = [k \in 1..length |-> data[slot(k)]]
    BY Zenon DEF Contents, slot
  <1>7. Tail(Contents) = [k \in 1..(length - 1) |-> data[slot(k + 1)]]
    BY <1>1, <1>6, ContentsShape
  <1> QED
    BY <1>5, <1>7

(* The ring buffer implements a FIFO queue of S values, for every S.        *)
THEOREM RingRefinesQueue == RingSpec => RingIsQueue
  <1>1. RingInit => BQ!QueueInit
    BY DEF RingInit, BQ!QueueInit, BQ!Reply, Contents
  <1>2. RingInv /\ [RingNext]_ringVars => [BQ!QueueNext]_<<Contents, answer>>
    <2> SUFFICES ASSUME RingInv, [RingNext]_ringVars
                 PROVE  [BQ!QueueNext]_<<Contents, answer>>
      OBVIOUS
    <2>0. Len(Contents) = length /\ length \in 0..S /\ (Contents = <<>> <=> length = 0)
      BY ContentsShape
    <2>1. ASSUME NEW v \in T, Enqueue(v) PROVE BQ!Put(v)
      <3>1. CASE IsFull
        BY <2>0, <2>1, <3>1 DEF Enqueue, IsFull, Answers, BQ!Put, BQ!Reply, Contents
      <3>2. CASE ~IsFull
        <4>1. Contents' = Append(Contents, v)
          BY <2>1, <3>2, EnqueueAppends
        <4> QED
          BY <2>0, <2>1, <3>2, <4>1, RingAssumption DEF Enqueue, IsFull, Answers, BQ!Put, BQ!Reply
      <3> QED
        BY <3>1, <3>2
    <2>2. ASSUME NothingThere PROVE Contents' = Contents /\ BQ!Get /\ BQ!Look
      BY <2>0, <2>2 DEF NothingThere, IsEmpty, Answers, BQ!Get, BQ!Look, BQ!Reply, Contents
    <2>3. CASE Dequeue
      <3>1. CASE IsEmpty
        BY <2>2, <2>3, <3>1 DEF Dequeue, BQ!QueueNext
      <3>2. CASE ~IsEmpty
        <4>1. Contents' = Tail(Contents) /\ Head(Contents) = data[tail] /\ Contents # <<>>
          BY <2>0, <2>3, <3>2, DequeueRemovesOldest, ContentsShape DEF IsEmpty
        <4> QED
          BY <2>3, <3>2, <4>1 DEF Dequeue, NothingThere, Answers, BQ!Get, BQ!Reply, BQ!QueueNext
      <3> QED
        BY <3>1, <3>2
    <2>4. CASE Peek
      <3>1. CASE NothingThere
        BY <2>2, <3>1 DEF BQ!QueueNext
      <3>2. CASE ~IsEmpty /\ Answers(0, data[tail]) /\ UNCHANGED ring
        <4>1. Head(Contents) = data[tail] /\ Contents # <<>>
          BY <2>0, <3>2, ContentsShape DEF IsEmpty
        <4>2. Contents' = Contents
          BY <3>2, Zenon DEF ring, Contents
        <4> QED
          BY <3>2, <4>1, <4>2 DEF Answers, BQ!Look, BQ!Reply, BQ!QueueNext
      <3> QED
        BY <2>4, <3>1, <3>2 DEF Peek
    <2>5. CASE UNCHANGED ringVars
      BY <2>5 DEF ringVars, ring, Contents
    <2> QED
      BY <2>1, <2>3, <2>4, <2>5 DEF RingNext, BQ!QueueNext
  <1> QED
    BY <1>1, <1>2, RingInvariant, PTL DEF RingSpec, RingIsQueue, BQ!QueueSpec

(***************************************************************************)
(* The serial driver around the ring: handlers nest on the stacks of the    *)
(* tasks they interrupt, and each pointer and counter of the ring is loaded *)
(* and stored in steps of its own.                                         *)
(***************************************************************************)
InRing == InEnqueue \cup InDequeue
Holding == {"spin", "test", "take", "dec", "unlock"}
SerialPoints == {"lock", "wait", "data"} \cup HasCharacter \cup Holding
FrameType == [pc : SerialPoints, left : Int, in : Nat, reg : Nat, slot : Index]

(* The i-th frame on the stack of u stands at one of the points in C.       *)
In(u, i, C) == i \in 1..Depth(u) /\ frames[u][i].pc \in C
NoneIn(C) == \A u \in Reader : \A i \in Nat : ~In(u, i, C)
OneIn(C) == \A u, v \in Reader : \A i, j \in Nat : In(u, i, C) /\ In(v, j, C) => u = v /\ i = j
TopOnly(t, C) == \A u \in Reader : \A i \in Nat : In(u, i, C) => u = t /\ i = Depth(t)
SameIn(C) ==
  \A u \in Reader : \A i \in Nat :
    (In(u, i, C)' <=> In(u, i, C)) /\ (In(u, i, C) => frames'[u][i] = frames[u][i])

FramesTyped == frames \in [Reader -> Seq(FrameType)]

LEMMA SomewhereIn ==
  ASSUME FramesTyped, NEW C
  PROVE  ~Somewhere(C) <=> NoneIn(C)
<1>1. \A u \in Reader : Depth(u) \in Nat /\ \A i : i \in 1..Depth(u) => i \in Nat
  BY DEF FramesTyped, Depth
<1> QED
  BY <1>1 DEF Somewhere, NoneIn, In

(* A handler or a call of read() begins, a frame moves on, a frame is left. *)
LEMMA PushShape ==
  ASSUME FramesTyped, NEW t \in Reader, NEW f \in FrameType, Push(t, f)
  PROVE  /\ FramesTyped' /\ Depth(t) \in Nat /\ Depth(t)' = Depth(t) + 1
         /\ frames'[t][Depth(t) + 1] = f
         /\ \A u \in Reader \ {t} : frames'[u] = frames[u]
         /\ \A i \in 1..Depth(t) : frames'[t][i] = frames[t][i]
<1> DEFINE s == frames[t]  r == Append(s, f)
<1>1. s \in Seq(FrameType) /\ Len(s) \in Nat
  BY DEF FramesTyped
<1> HIDE DEF s
<1>2. r \in Seq(FrameType) /\ Len(r) = Len(s) + 1 /\ r[Len(s) + 1] = f /\ \A i \in 1..Len(s) : r[i] = s[i]
  BY <1>1, AppendProperties
<1>3. frames' = [frames EXCEPT ![t] = r]
  BY DEF Push, s
<1> HIDE DEF r
<1>4. FramesTyped' /\ frames'[t] = r /\ \A u \in Reader \ {t} : frames'[u] = frames[u]
  BY <1>2, <1>3 DEF FramesTyped
<1> QED
  BY <1>1, <1>2, <1>4 DEF Depth, s

LEMMA GotoShape ==
  ASSUME FramesTyped, NEW t \in Reader, Depth(t) > 0, NEW f \in FrameType, Goto(t, f)
  PROVE  /\ FramesTyped' /\ Depth(t) \in Nat /\ Depth(t)' = Depth(t)
         /\ frames'[t][Depth(t)] = f
         /\ \A u \in Reader \ {t} : frames'[u] = frames[u]
         /\ \A i \in 1..(Depth(t) - 1) : frames'[t][i] = frames[t][i]
<1> DEFINE s == frames[t]  n == Depth(t)  r == [s EXCEPT ![n] = f]
<1>1. s \in Seq(FrameType) /\ n = Len(s) /\ n \in Nat /\ n \in 1..Len(s)
  BY DEF FramesTyped, Depth
<1>2. frames' = [frames EXCEPT ![t] = r]
  BY DEF Goto
<1> HIDE DEF s, n
<1>3. r \in Seq(FrameType) /\ Len(r) = Len(s) /\ \A i \in 1..Len(s) : r[i] = IF i = n THEN f ELSE s[i]
  BY <1>1, ExceptSeq
<1> HIDE DEF r
<1>4. FramesTyped' /\ frames'[t] = r /\ \A u \in Reader \ {t} : frames'[u] = frames[u]
  BY <1>2, <1>3 DEF FramesTyped
<1>5. r[n] = f /\ \A i \in 1..(n - 1) : r[i] = s[i]
  BY <1>1, <1>3
<1> QED
  BY <1>1, <1>3, <1>4, <1>5 DEF Depth, s, n

LEMMA PopShape ==
  ASSUME FramesTyped, NEW t \in Reader, Depth(t) > 0, Pop(t)
  PROVE  /\ FramesTyped' /\ Depth(t) \in Nat /\ Depth(t)' = Depth(t) - 1
         /\ \A u \in Reader \ {t} : frames'[u] = frames[u]
         /\ \A i \in 1..(Depth(t) - 1) : frames'[t][i] = frames[t][i]
<1> DEFINE s == frames[t]  n == Len(s) - 1  r == SubSeq(s, 1, n)
<1>1. s \in Seq(FrameType) /\ Len(s) \in Nat /\ Len(s) > 0
  BY DEF FramesTyped, Depth
<1>2. n \in Nat /\ n <= Len(s)
  BY <1>1
<1>3. frames' = [frames EXCEPT ![t] = r]
  BY DEF Pop
<1> HIDE DEF s
<1>4. r \in Seq(FrameType) /\ Len(r) = n /\ \A i \in 1..n : r[i] = s[i]
  <2> HIDE DEF n
  <2> QED
    BY <1>1, <1>2
<1> HIDE DEF r
<1>5. FramesTyped' /\ frames'[t] = r /\ \A u \in Reader \ {t} : frames'[u] = frames[u]
  BY <1>3, <1>4 DEF FramesTyped
<1> QED
  BY <1>1, <1>4, <1>5 DEF Depth, s

(* Frames at points outside C come and go: those in C stay.                 *)
LEMMA PushSame ==
  ASSUME FramesTyped, NEW t \in Reader, NEW f \in FrameType, Push(t, f), NEW C, f.pc \notin C
  PROVE  SameIn(C)
<1> SUFFICES ASSUME NEW u \in Reader, NEW i \in Nat
             PROVE  (In(u, i, C)' <=> In(u, i, C)) /\ (In(u, i, C) => frames'[u][i] = frames[u][i])
  BY DEF SameIn
<1>1. CASE u = t
  <2>1. i \in 1..(Depth(t) + 1) => i = Depth(t) + 1 \/ i \in 1..Depth(t)
    BY PushShape
  <2>2. i \in 1..Depth(t) => i \in 1..(Depth(t) + 1)
    BY PushShape
  <2> QED
    BY <1>1, <2>1, <2>2, PushShape DEF In
<1>2. CASE u # t
  BY <1>2, PushShape DEF In, Depth
<1> QED
  BY <1>1, <1>2

LEMMA GotoSame ==
  ASSUME FramesTyped, NEW t \in Reader, NEW from, At(t, from), NEW f \in FrameType, Goto(t, f),
         NEW C, from \notin C, f.pc \notin C
  PROVE  SameIn(C)
<1> SUFFICES ASSUME NEW u \in Reader, NEW i \in Nat
             PROVE  (In(u, i, C)' <=> In(u, i, C)) /\ (In(u, i, C) => frames'[u][i] = frames[u][i])
  BY DEF SameIn
<1>0. Depth(t) > 0 /\ frames[t][Depth(t)].pc = from
  BY DEF At, Top
<1>1. CASE u = t
  <2>1. i \in 1..Depth(t) => i = Depth(t) \/ i \in 1..(Depth(t) - 1)
    BY <1>0, GotoShape
  <2> QED
    BY <1>0, <1>1, <2>1, GotoShape DEF In
<1>2. CASE u # t
  BY <1>0, <1>2, GotoShape DEF In, Depth
<1> QED
  BY <1>1, <1>2

LEMMA PopSame ==
  ASSUME FramesTyped, NEW t \in Reader, NEW from, At(t, from), Pop(t), NEW C, from \notin C
  PROVE  SameIn(C)
<1> SUFFICES ASSUME NEW u \in Reader, NEW i \in Nat
             PROVE  (In(u, i, C)' <=> In(u, i, C)) /\ (In(u, i, C) => frames'[u][i] = frames[u][i])
  BY DEF SameIn
<1>0. Depth(t) > 0 /\ frames[t][Depth(t)].pc = from
  BY DEF At, Top
<1>1. CASE u = t
  <2>1. i \in 1..Depth(t) => i = Depth(t) \/ i \in 1..(Depth(t) - 1)
    BY <1>0, PopShape
  <2>2. i \in 1..(Depth(t) - 1) => i \in 1..Depth(t)
    BY <1>0, PopShape
  <2> QED
    BY <1>0, <1>1, <2>1, <2>2, PopShape DEF In
<1>2. CASE u # t
  BY <1>0, <1>2, PopShape DEF In, Depth
<1> QED
  BY <1>1, <1>2

(* If no other frame is in C, the one that moves on is the only one after,  *)
(* or none is.                                                             *)
LEMMA GotoOnly ==
  ASSUME FramesTyped, NEW t \in Reader, Depth(t) > 0, NEW f \in FrameType, Goto(t, f),
         NEW C, TopOnly(t, C)
  PROVE  /\ \A u \in Reader : \A i \in Nat :
              In(u, i, C)' => u = t /\ i = Depth(t)' /\ frames'[u][i] = f
         /\ f.pc \notin C => NoneIn(C)'
<1>1. ASSUME NEW u \in Reader, NEW i \in Nat, In(u, i, C)'
      PROVE  u = t /\ i = Depth(t)' /\ frames'[u][i] = f
  <2>1. u = t
    BY <1>1, GotoShape DEF In, Depth, TopOnly
  <2>2. i \in 1..Depth(t) /\ (i # Depth(t) => i \in 1..(Depth(t) - 1))
    BY <1>1, <2>1, GotoShape DEF In
  <2>3. i = Depth(t)
    BY <1>1, <2>1, <2>2, GotoShape DEF In, TopOnly
  <2> QED
    BY <2>1, <2>3, GotoShape
<1> QED
  BY <1>1 DEF NoneIn, In

LEMMA PopNone ==
  ASSUME FramesTyped, NEW t \in Reader, Depth(t) > 0, Pop(t), NEW C, TopOnly(t, C)
  PROVE  NoneIn(C)'
<1> SUFFICES ASSUME NEW u \in Reader, NEW i \in Nat, In(u, i, C)' PROVE FALSE
  BY DEF NoneIn
<1>1. u = t
  BY PopShape DEF In, Depth, TopOnly
<1>2. i \in 1..(Depth(t) - 1) /\ i \in 1..Depth(t) /\ i # Depth(t)
  BY <1>1, PopShape DEF In
<1> QED
  BY <1>1, <1>2, PopShape DEF In, TopOnly

LEMMA TopIsOnly ==
  ASSUME FramesTyped, NEW t \in Reader, NEW from, At(t, from), NEW C, from \in C, OneIn(C)
  PROVE  TopOnly(t, C) /\ In(t, Depth(t), C) /\ Depth(t) \in Nat
<1>1. Depth(t) \in Nat /\ Depth(t) > 0
  BY DEF FramesTyped, Depth, At
<1>2. In(t, Depth(t), C)
  BY <1>1 DEF In, At, Top
<1> QED
  BY <1>1, <1>2 DEF OneIn, TopOnly

-----------------------------------------------------------------------------
SerialTyped ==
  /\ FramesTyped /\ owner \in Reader \cup {NoTask}
  /\ data \in [Index -> Nat \cup {Unset}] /\ head \in Index /\ tail \in Index /\ length \in Nat
  /\ line \in Seq(Nat) /\ arrived \in 0..Len(Input)
  /\ accepted \in Seq(Nat) /\ taken \in Seq(Nat \cup {Unset})
  /\ overlap \in BOOLEAN /\ crossed \in BOOLEAN

(* mutex_rs232 is held by the task with a frame that locked it, and there   *)
(* is only one such frame.                                                  *)
MutexHeld ==
  /\ OneIn(Holding)
  /\ \A u \in Reader : \A i \in Nat : In(u, i, Holding) => owner = u

(* A Dequeue under way found a character, and whatever handlers store in    *)
(* length meanwhile, it is not 0.                                           *)
NeverBelowZero ==
  \A u \in Reader : \A i \in Nat : In(u, i, InDequeue) => length >= 1 /\ frames[u][i].reg >= 1

(* n values from the read index on are those accepted and not taken, and    *)
(* slot h comes behind them.                                                *)
Wrap(i, k) == IF i + k < S THEN i + k ELSE i + k - S
Window(n, h) ==
  /\ n \in 0..S /\ h = Wrap(tail, n) /\ Len(accepted) = Len(taken) + n
  /\ \A k \in 1..Len(taken) : accepted[k] = taken[k]
  /\ \A k \in 1..n : accepted[Len(taken) + k] = data[Wrap(tail, k - 1)]

(* What an operation under way knows if none began inside another.          *)
RingFrame(f) ==
  /\ f.reg = length
  /\ f.pc = "store" => length < S /\ Window(length, head)
  /\ f.pc = "head" => f.slot = head /\ length < S /\ Window(length + 1, Advance(head))
  /\ f.pc = "inc" => length < S /\ Window(length + 1, head)
  /\ f.pc = "take" => length > 0 /\ Window(length, head)
  /\ f.pc = "dec" => length > 0 /\ Window(length - 1, head)

FifoSoFar ==
  ~overlap => /\ OneIn(InRing)
              /\ \A u \in Reader : \A i \in Nat : In(u, i, InRing) => RingFrame(frames[u][i])
              /\ NoneIn(InRing) => Window(length, head)

(* What was accepted are characters among the first m, in that order.       *)
Stored(m) ==
  \E at \in [DOMAIN accepted -> 1..m] :
    \A i, j \in DOMAIN accepted :
      /\ accepted[i] = ToNewline(Input[at[i]]) /\ accepted[i] # CR
      /\ i < j => at[i] < at[j]

Consumed == arrived - Len(line)

LineKnown ==
  /\ Len(line) <= arrived
  /\ \A k \in 1..Len(line) : line[k] = Input[Consumed + k]

(* A handler that has read its character and not stored it has the last one *)
(* consumed, and only earlier ones are stored, unless handlers overtook.    *)
OrderSoFar ==
  ~crossed => /\ OneIn(HasCharacter)
              /\ Stored(Consumed)
              /\ \A u \in Reader : \A i \in Nat : In(u, i, {"enqueue", "store"}) =>
                   /\ Consumed >= 1 /\ frames[u][i].in = ToNewline(Input[Consumed])
                   /\ Stored(Consumed - 1)

SerialInv == SerialTyped /\ MutexHeld /\ NeverBelowZero /\ FifoSoFar /\ LineKnown /\ OrderSoFar

LEMMA SameInPart ==
  ASSUME NEW C, NEW D, D \subseteq C, SameIn(C)
  PROVE  SameIn(D)
  BY DEF SameIn, In

LEMMA HeldKept ==
  ASSUME MutexHeld, SameIn(Holding), owner' = owner
  PROVE  MutexHeld'
<1>1. OneIn(Holding)'
  BY DEF MutexHeld, OneIn, SameIn
<1> QED
  BY <1>1 DEF MutexHeld, SameIn

LEMMA PositiveKept ==
  ASSUME NeverBelowZero, SameIn(InDequeue), length' = length \/ length' >= 1
  PROVE  NeverBelowZero'
  BY DEF NeverBelowZero, SameIn

LEMMA FifoKept ==
  ASSUME FifoSoFar, SameIn(InRing), UNCHANGED <<data, head, tail, length, accepted, taken>>,
         overlap' = overlap
  PROVE  FifoSoFar'
<1>2. /\ Window(length, head)' <=> Window(length, head)
      /\ Window(length + 1, head)' <=> Window(length + 1, head)
      /\ Window(length - 1, head)' <=> Window(length - 1, head)
      /\ Window(length + 1, Advance(head))' <=> Window(length + 1, Advance(head))
  BY DEF Window, Wrap, Advance
<1>3. \A u \in Reader : \A i \in Nat : In(u, i, InRing)' /\ RingFrame(frames[u][i]) => RingFrame(frames[u][i])'
  BY <1>2 DEF RingFrame, SameIn
<1>4. OneIn(InRing) => OneIn(InRing)'
  BY DEF OneIn, SameIn
<1>5. NoneIn(InRing)' => NoneIn(InRing)
  BY DEF NoneIn, SameIn
<1> QED
  BY <1>2, <1>3, <1>4, <1>5 DEF FifoSoFar, SameIn

LEMMA OrderKept ==
  ASSUME OrderSoFar, SameIn(HasCharacter), Consumed' = Consumed,
         UNCHANGED <<accepted, crossed>>
  PROVE  OrderSoFar'
<1>1. SameIn({"enqueue", "store"})
  BY SameInPart DEF HasCharacter, InEnqueue
<1>2. OneIn(HasCharacter) => OneIn(HasCharacter)'
  BY DEF OneIn, SameIn
<1>3. Stored(Consumed)' <=> Stored(Consumed)
  BY DEF Stored
<1>4. Stored(Consumed - 1)' <=> Stored(Consumed - 1)
  BY DEF Stored
<1> QED
  BY <1>1, <1>2, <1>3, <1>4 DEF OrderSoFar, SameIn

(* A step that touches neither the ring nor a frame with a character.       *)
LEMMA QuietKeeps ==
  ASSUME SerialInv, FramesTyped', owner' \in Reader \cup {NoTask}, MutexHeld',
         SameIn(InRing), SameIn(HasCharacter),
         UNCHANGED <<data, head, tail, length, line, arrived, accepted, taken, overlap, crossed>>
  PROVE  SerialInv'
<1>1. SerialTyped'
  BY DEF SerialInv, SerialTyped
<1>2. NeverBelowZero'
  BY SameInPart, PositiveKept DEF SerialInv, InRing
<1>3. FifoSoFar'
  BY FifoKept DEF SerialInv
<1>4. LineKnown' /\ Consumed' = Consumed
  BY DEF SerialInv, LineKnown, Consumed
<1>5. OrderSoFar'
  BY <1>4, OrderKept DEF SerialInv
<1> QED
  BY <1>1, <1>2, <1>3, <1>4, <1>5 DEF SerialInv

LEMMA TopFrame ==
  ASSUME FramesTyped, NEW t \in Reader, NEW from, At(t, from)
  PROVE  /\ Depth(t) > 0 /\ Depth(t) \in Nat /\ Top(t) \in FrameType
         /\ Top(t) = frames[t][Depth(t)] /\ Top(t).pc = from /\ from \in SerialPoints
<1>1. frames[t] \in Seq(FrameType) /\ Depth(t) = Len(frames[t]) /\ Depth(t) \in Nat /\ Depth(t) > 0
  BY DEF FramesTyped, Depth, At
<1>2. Top(t) \in FrameType
  BY <1>1 DEF Top
<1> QED
  BY <1>1, <1>2 DEF At, Top, FrameType

LEMMA NewFrame ==
  ASSUME NEW point \in SerialPoints, NEW left \in Int
  PROVE  Frame(point, left) \in FrameType /\ Frame(point, left).pc = point
  BY RingAssumption DEF Frame, FrameType, Index

(* The receive interrupt and the beginning of read().                       *)
LEMMA EnterKeeps ==
  ASSUME SerialInv, NEW t \in Reader, NEW point \in {"data", "wait", "lock"}, NEW left \in Int,
         Push(t, Frame(point, left)), UNCHANGED <<ringVars, line, arrived, owner, Histories>>
  PROVE  SerialInv'
<1> DEFINE f == Frame(point, left)
<1>1. f \in FrameType /\ f.pc = point
  BY NewFrame DEF SerialPoints
<1> HIDE DEF f
<1>2. Push(t, f) /\ FramesTyped
  BY DEF f, SerialInv, SerialTyped
<1>3. SameIn(InRing) /\ SameIn(HasCharacter) /\ SameIn(Holding) /\ FramesTyped'
  BY <1>1, <1>2, PushSame, PushShape DEF InRing, HasCharacter, InEnqueue, InDequeue, Holding
<1>4. MutexHeld'
  BY <1>3, HeldKept DEF SerialInv
<1> QED
  BY <1>3, <1>4, QuietKeeps DEF SerialInv, SerialTyped, ringVars, ring, Histories

(* A frame locks or unlocks the mutex, or goes on outside the ring.         *)
LEMMA GotoQuiet ==
  ASSUME SerialInv, NEW t \in Reader, NEW from, At(t, from), NEW f \in FrameType, Goto(t, f),
         from \notin InRing \cup HasCharacter, f.pc \notin InRing \cup HasCharacter
  PROVE  SameIn(InRing) /\ SameIn(HasCharacter) /\ FramesTyped'
  BY GotoSame, GotoShape, TopFrame DEF SerialInv, SerialTyped

LEMMA LockTaken ==
  ASSUME SerialInv, NEW t \in Reader, NEW from, At(t, from), NEW f \in FrameType, Goto(t, f),
         RAIILock(t), f.pc \in Holding
  PROVE  MutexHeld' /\ owner' \in Reader \cup {NoTask}
<1>1. FramesTyped /\ Depth(t) > 0 /\ owner = NoTask /\ owner' = t
  BY TopFrame DEF SerialInv, SerialTyped, RAIILock
<1>2. TopOnly(t, Holding)
  BY <1>1, SerialAssumption DEF SerialInv, MutexHeld, TopOnly
<1>3. \A u \in Reader : \A i \in Nat : In(u, i, Holding)' => u = t /\ i = Depth(t)'
  BY <1>1, <1>2, GotoOnly
<1> QED
  BY <1>1, <1>3 DEF MutexHeld, OneIn

LEMMA CallbackLocksKeeps ==
  ASSUME SerialInv, NEW t \in Reader, CallbackLocks(t)
  PROVE  SerialInv'
<1> DEFINE f == Frame("spin", 0)
<1>1. f \in FrameType /\ f.pc = "spin"
  BY NewFrame DEF SerialPoints, Holding
<1> HIDE DEF f
<1>2. /\ At(t, "wait") /\ RAIILock(t) /\ Goto(t, f)
      /\ UNCHANGED <<ringVars, line, arrived, Histories>>
  BY DEF CallbackLocks, f
<1>3. MutexHeld' /\ owner' \in Reader \cup {NoTask}
  BY <1>1, <1>2, LockTaken DEF Holding
<1>4. SameIn(InRing) /\ SameIn(HasCharacter) /\ FramesTyped'
  BY <1>1, <1>2, GotoQuiet DEF InRing, HasCharacter, InEnqueue, InDequeue
<1> QED
  BY <1>2, <1>3, <1>4, QuietKeeps DEF ringVars, ring, Histories

LEMMA ReadLockKeeps ==
  ASSUME SerialInv, NEW t \in Reader, ReadLock(t)
  PROVE  SerialInv'
<1> DEFINE f == [Top(t) EXCEPT !.pc = "test"]
<1>1. /\ At(t, "lock") /\ RAIILock(t) /\ Goto(t, f)
      /\ UNCHANGED <<ringVars, line, arrived, Histories>>
  BY DEF ReadLock
<1>2. f \in FrameType /\ f.pc = "test"
  BY <1>1, TopFrame DEF SerialInv, SerialTyped, FrameType, SerialPoints, Holding
<1> HIDE DEF f
<1>3. MutexHeld' /\ owner' \in Reader \cup {NoTask}
  BY <1>1, <1>2, LockTaken DEF Holding
<1>4. SameIn(InRing) /\ SameIn(HasCharacter) /\ FramesTyped'
  BY <1>1, <1>2, GotoQuiet DEF InRing, HasCharacter, InEnqueue, InDequeue
<1> QED
  BY <1>1, <1>3, <1>4, QuietKeeps DEF ringVars, ring, Histories

LEMMA ReceivedKeeps ==
  ASSUME SerialInv, NEW t \in Reader, Received(t)
  PROVE  SerialInv'
<1> DEFINE f == Frame("data", 0)
<1>1. f \in FrameType /\ f.pc = "data"
  BY NewFrame DEF SerialPoints
<1> HIDE DEF f
<1>2. /\ At(t, "spin") /\ owner' = NoTask /\ Goto(t, f) /\ FramesTyped
      /\ UNCHANGED <<ringVars, line, arrived, Histories>>
  BY DEF Received, RAIIUnlock, f, SerialInv, SerialTyped
<1>3. MutexHeld'
  <2>1. NoneIn(Holding)'
    BY <1>1, <1>2, TopFrame, TopIsOnly, GotoOnly DEF Holding, SerialInv, MutexHeld
  <2> QED
    BY <2>1 DEF MutexHeld, OneIn, NoneIn
<1>4. SameIn(InRing) /\ SameIn(HasCharacter) /\ FramesTyped'
  BY <1>1, <1>2, GotoQuiet DEF InRing, HasCharacter, InEnqueue, InDequeue
<1> QED
  BY <1>2, <1>3, <1>4, QuietKeeps DEF ringVars, ring, Histories

LEMMA ReadUnlockKeeps ==
  ASSUME SerialInv, NEW t \in Reader, ReadUnlock(t)
  PROVE  SerialInv'
<1>1. /\ At(t, "unlock") /\ owner' = NoTask /\ Pop(t) /\ FramesTyped
      /\ UNCHANGED <<ringVars, line, arrived, Histories>>
  BY DEF ReadUnlock, RAIIUnlock, SerialInv, SerialTyped
<1>2. MutexHeld'
  <2>1. NoneIn(Holding)'
    BY <1>1, TopFrame, TopIsOnly, PopNone DEF Holding, SerialInv, MutexHeld
  <2> QED
    BY <2>1 DEF MutexHeld, OneIn, NoneIn
<1>3. SameIn(InRing) /\ SameIn(HasCharacter) /\ FramesTyped'
  BY <1>1, PopSame, PopShape, TopFrame DEF InRing, HasCharacter, InEnqueue, InDequeue
<1> QED
  BY <1>1, <1>2, <1>3, QuietKeeps DEF ringVars, ring, Histories

-----------------------------------------------------------------------------
(* The character is stored behind the window, which then includes it.       *)
LEMMA WindowStore ==
  ASSUME SerialTyped, NEW c \in Nat, length < S, Window(length, head),
         data' = [data EXCEPT ![head] = c], accepted' = Append(accepted, c),
         UNCHANGED <<head, tail, length, taken>>
  PROVE  Window(length + 1, Advance(head))'
<1> DEFINE n == length  a == Len(taken)
<1>1. n \in Nat /\ n < S /\ a \in Nat /\ tail \in Index /\ head \in Index /\ accepted \in Seq(Nat)
  BY DEF SerialTyped
<1>2. S \in Nat /\ S > 0
  BY RingAssumption
<1>3. n + 1 \in 0..S
  BY <1>1, <1>2
<1>4. Advance(head) = Wrap(tail, n + 1)
  <2>1. Advance(head) = IF head + 1 < S THEN head + 1 ELSE 0
    BY <1>1, AdvanceWraps
  <2>2. head = Wrap(tail, n)
    BY DEF Window
  <2> QED
    BY <1>1, <1>2, <2>1, <2>2 DEF Wrap, Index
<1>5. Len(accepted) = a + n
  BY DEF Window
<1>6. /\ Len(accepted') = a + n + 1 /\ accepted'[a + n + 1] = c
      /\ \A k \in 1..(a + n) : accepted'[k] = accepted[k]
  <2>1. /\ Len(accepted') = Len(accepted) + 1 /\ accepted'[Len(accepted) + 1] = c
        /\ \A k \in 1..Len(accepted) : accepted'[k] = accepted[k]
    BY <1>1, AppendProperties
  <2> QED
    BY <1>5, <2>1
<1>7. \A k \in 1..a : accepted'[k] = taken[k]
  <2>1. \A k \in 1..a : k \in 1..(a + n)
    BY <1>1
  <2> QED
    BY <1>6, <2>1 DEF Window
<1>8. ASSUME NEW k \in 1..(n + 1) PROVE accepted'[a + k] = data'[Wrap(tail, k - 1)]
  <2>1. CASE k = n + 1
    <3>1. Wrap(tail, k - 1) = head /\ a + k = a + n + 1
      <4>1. k - 1 = n /\ a + k = a + n + 1
        <5> HIDE DEF a
        <5> QED
          BY <1>1, <2>1
      <4> QED
        BY <4>1 DEF Window
    <3> QED
      BY <1>1, <1>6, <3>1 DEF SerialTyped
  <2>2. CASE k # n + 1
    <3>1. k \in 1..n /\ a + k \in 1..(a + n)
      <4> HIDE DEF a
      <4> QED
        BY <1>1, <2>2
    <3>2. Wrap(tail, k - 1) # head /\ Wrap(tail, k - 1) \in Index
      <4>1. head = Wrap(tail, n)
        BY DEF Window
      <4> QED
        BY <1>1, <1>2, <3>1, <4>1 DEF Wrap, Index
    <3>3. accepted[a + k] = data[Wrap(tail, k - 1)]
      BY <3>1 DEF Window
    <3> QED
      BY <1>1, <1>6, <3>1, <3>2, <3>3 DEF SerialTyped
  <2> QED
    BY <2>1, <2>2
<1>9. Len(accepted') = a + (n + 1)
  <2> HIDE DEF a
  <2> QED
    BY <1>1, <1>6
<1> QED
  BY <1>3, <1>4, <1>7, <1>8, <1>9 DEF Window, Wrap, Advance

(* The oldest value goes from the window to what was taken.                 *)
LEMMA WindowTake ==
  ASSUME SerialTyped, length > 0, Window(length, head),
         taken' = Append(taken, data[tail]), tail' = Advance(tail),
         UNCHANGED <<data, head, length, accepted>>
  PROVE  Window(length - 1, head)'
<1> DEFINE n == length  a == Len(taken)  b == Len(taken')
<1>1. n \in Nat /\ n > 0 /\ n <= S /\ a \in Nat /\ tail \in Index /\ taken \in Seq(Nat \cup {Unset})
      /\ data[tail] \in Nat \cup {Unset}
  BY DEF SerialTyped, Window
<1>2. S \in Nat /\ S > 0
  BY RingAssumption
<1>3. /\ b = a + 1 /\ taken'[a + 1] = data[tail]
      /\ \A k \in 1..a : taken'[k] = taken[k]
  BY <1>1, AppendProperties
<1> HIDE DEF a, b
<1>4. tail' = IF tail + 1 < S THEN tail + 1 ELSE 0
  BY <1>1, AdvanceWraps
<1>5. n - 1 \in 0..S
  BY <1>1, <1>2
<1>6. head = Wrap(tail', n - 1)
  <2>1. head = Wrap(tail, n)
    BY DEF Window
  <2> QED
    BY <1>1, <1>2, <1>4, <2>1 DEF Wrap, Index
<1>7. Len(accepted) = b + (n - 1)
  <2>1. Len(accepted) = a + n
    BY DEF Window, a
  <2> QED
    BY <1>1, <1>3, <2>1
<1>8. ASSUME NEW k \in 1..b PROVE accepted[k] = taken'[k]
  <2>1. CASE k = a + 1
    <3>1. accepted[a + 1] = data[Wrap(tail, 1 - 1)]
      BY <1>1 DEF Window, a
    <3>2. Wrap(tail, 1 - 1) = tail
      BY <1>1, <1>2 DEF Wrap, Index
    <3> QED
      BY <1>3, <2>1, <3>1, <3>2
  <2>2. CASE k # a + 1
    <3>1. k \in 1..a
      BY <1>1, <1>3, <2>2
    <3> QED
      BY <1>3, <3>1 DEF Window, a
  <2> QED
    BY <2>1, <2>2
<1>9. ASSUME NEW k \in 1..(n - 1) PROVE accepted[b + k] = data[Wrap(tail', k - 1)]
  <2>1. k + 1 \in 1..n /\ b + k = a + (k + 1) /\ (k + 1) - 1 = k
    BY <1>1, <1>3
  <2>2. accepted[a + (k + 1)] = data[Wrap(tail, (k + 1) - 1)]
    BY <2>1 DEF Window, a
  <2>3. Wrap(tail, (k + 1) - 1) = Wrap(tail', k - 1)
    BY <1>1, <1>2, <1>4, <2>1 DEF Wrap, Index
  <2> QED
    BY <2>1, <2>2, <2>3
<1> QED
  BY <1>5, <1>6, <1>7, <1>8, <1>9 DEF Window, Wrap, b

(* The window as the property states it.                                    *)
LEMMA WindowIsQueue ==
  ASSUME SerialTyped, Window(length, head)
  PROVE  accepted = taken \o Contents
<1> DEFINE n == length  a == Len(taken)  V == Nat \cup {Unset}
<1>1. n \in Nat /\ n <= S /\ a \in Nat /\ tail \in Index /\ taken \in Seq(V) /\ accepted \in Seq(Nat)
  BY DEF SerialTyped, Window
<1>2. S \in Nat /\ S > 0
  BY RingAssumption
<1>3. \A k \in 1..n : (tail + k - 1) % S = Wrap(tail, k - 1) /\ Wrap(tail, k - 1) \in Index
  <2> SUFFICES ASSUME NEW k \in 1..n
               PROVE  (tail + k - 1) % S = Wrap(tail, k - 1) /\ Wrap(tail, k - 1) \in Index
    OBVIOUS
  <2>1. k - 1 \in 0..S /\ tail + (k - 1) = tail + k - 1 /\ tail \in Index
    BY <1>1, <1>2 DEF Index
  <2>2. (tail + (k - 1)) % S = IF tail + (k - 1) < S THEN tail + (k - 1) ELSE tail + (k - 1) - S
    BY <2>1, OffsetWrap, Zenon
  <2>3. (tail + k - 1) % S = Wrap(tail, k - 1)
    BY <2>1, <2>2, Zenon DEF Wrap
  <2>4. Wrap(tail, k - 1) \in Index
    BY <1>1, <1>2, <2>1 DEF Wrap, Index
  <2> QED
    BY <2>3, <2>4
<1>4. \A k \in 1..n : Contents[k] = data[Wrap(tail, k - 1)] /\ Contents[k] \in V
  <2>1. \A k \in 1..n : Contents[k] = data[Wrap(tail, k - 1)]
    BY <1>3, Zenon DEF Contents
  <2> QED
    BY <1>3, <2>1 DEF SerialTyped
<1>5. Contents = [k \in 1..n |-> Contents[k]]
  BY Zenon DEF Contents
<1>6. Contents \in Seq(V) /\ Len(Contents) = n
  <2>1. Contents \in [1..n -> V]
    BY <1>4, <1>5
  <2> QED
    BY <1>1, <2>1
<1> HIDE DEF V
<1>7. /\ taken \o Contents \in Seq(V) /\ Len(taken \o Contents) = a + n
      /\ \A k \in 1..(a + n) : (taken \o Contents)[k] = IF k <= a THEN taken[k] ELSE Contents[k - a]
  BY <1>1, <1>6, ConcatProperties
<1>8. Len(accepted) = a + n
  BY DEF Window
<1> DEFINE c == taken \o Contents
<1> HIDE DEF a, c
<1>9. ASSUME NEW k \in 1..(a + n) PROVE accepted[k] = c[k]
  <2>1. CASE k <= a
    <3>1. k \in 1..a
      BY <1>1, <2>1
    <3> QED
      BY <1>7, <2>1, <3>1 DEF Window, a, c
  <2>2. CASE ~(k <= a)
    <3>1. k - a \in 1..n /\ a + (k - a) = k
      BY <1>1, <2>2
    <3>2. accepted[a + (k - a)] = data[Wrap(tail, (k - a) - 1)]
      BY <3>1 DEF Window, a
    <3>3. c[k] = Contents[k - a]
      BY <1>7, <2>2 DEF a, c
    <3> QED
      BY <1>4, <3>1, <3>2, <3>3
  <2> QED
    BY <2>1, <2>2
<1>10. accepted \in Seq(Nat \cup {Unset}) /\ Len(accepted) = a + n
  BY <1>1, <1>8 DEF a
<1>11. c \in Seq(Nat \cup {Unset}) /\ Len(c) = a + n
  BY <1>7 DEF a, c, V
<1>12. accepted = c
  BY <1>9, <1>10, <1>11, SeqEqual
<1> QED
  BY <1>12 DEF c

-----------------------------------------------------------------------------
(* A frame that holds the mutex goes on and keeps it.                       *)
LEMMA HolderMoves ==
  ASSUME SerialInv, NEW t \in Reader, NEW from \in Holding, At(t, from), NEW f \in FrameType,
         Goto(t, f), owner' = owner
  PROVE  MutexHeld'
<1>1. FramesTyped /\ TopOnly(t, Holding) /\ In(t, Depth(t), Holding) /\ Depth(t) \in Nat
  BY TopIsOnly DEF SerialInv, SerialTyped, MutexHeld
<1>2. owner = t
  BY <1>1 DEF SerialInv, MutexHeld
<1>3. \A u \in Reader : \A i \in Nat : In(u, i, Holding)' => u = t /\ i = Depth(t)'
  BY <1>1, TopFrame, GotoOnly
<1> QED
  BY <1>2, <1>3 DEF MutexHeld, OneIn

LEMMA ReadTestKeeps ==
  ASSUME SerialInv, NEW t \in Reader, ReadTest(t)
  PROVE  SerialInv'
<1>1. /\ At(t, "test") /\ owner' = owner /\ FramesTyped
      /\ UNCHANGED <<ringVars, line, arrived, accepted, taken, crossed>>
  BY DEF ReadTest, SerialInv, SerialTyped
<1>2. CASE Goto(t, [Top(t) EXCEPT !.pc = "unlock"]) /\ UNCHANGED overlap
  <2> DEFINE f == [Top(t) EXCEPT !.pc = "unlock"]
  <2>1. f \in FrameType /\ f.pc = "unlock"
    BY <1>1, TopFrame DEF FrameType, SerialPoints, Holding
  <2> HIDE DEF f
  <2>2. Goto(t, f)
    BY <1>2 DEF f
  <2>3. MutexHeld'
    BY <1>1, <2>1, <2>2, HolderMoves DEF Holding
  <2>4. SameIn(InRing) /\ SameIn(HasCharacter) /\ FramesTyped'
    BY <1>1, <2>1, <2>2, GotoQuiet DEF InRing, HasCharacter, InEnqueue, InDequeue
  <2> QED
    BY <1>1, <1>2, <2>3, <2>4, QuietKeeps DEF SerialInv, SerialTyped, ringVars, ring
<1>3. CASE /\ Top(t).left > 0 /\ ~IsEmpty
           /\ Goto(t, [Top(t) EXCEPT !.pc = "take", !.reg = length])
           /\ overlap' = (overlap \/ Somewhere(InEnqueue))
  <2> DEFINE f == [Top(t) EXCEPT !.pc = "take", !.reg = length]
  <2>1. f \in FrameType /\ f.pc = "take" /\ f.reg = length
    BY <1>1, TopFrame DEF FrameType, SerialPoints, Holding, SerialInv, SerialTyped
  <2> HIDE DEF f
  <2>2. Goto(t, f) /\ Depth(t) > 0
    BY <1>1, <1>3, TopFrame DEF f
  <2>3. MutexHeld'
    BY <1>1, <2>1, <2>2, HolderMoves DEF Holding
  <2>4. SerialTyped'
    BY <1>1, <1>3, <2>1, <2>2, GotoShape DEF SerialInv, SerialTyped, ringVars, ring
  <2>5. NoneIn(InDequeue)
    <3>1. TopOnly(t, Holding) /\ Top(t).pc = "test" /\ Top(t) = frames[t][Depth(t)]
      BY <1>1, TopIsOnly, TopFrame DEF SerialInv, MutexHeld, Holding
    <3> QED
      BY <3>1 DEF TopOnly, NoneIn, In, InDequeue, Holding
  <2>6. length >= 1 /\ length' = length /\ length \in Nat
    BY <1>1, <1>3 DEF IsEmpty, SerialInv, SerialTyped, ringVars, ring
  <2>7. NeverBelowZero'
    <3>1. \A u \in Reader : \A i \in Nat : In(u, i, InDequeue)' => frames'[u][i] = f
      BY <1>1, <2>1, <2>2, <2>5, GotoOnly DEF TopOnly, NoneIn
    <3> QED
      BY <2>1, <2>6, <3>1 DEF NeverBelowZero
  <2>8. FifoSoFar'
    <3> SUFFICES ASSUME ~overlap' PROVE FifoSoFar'
      BY DEF FifoSoFar
    <3>1. ~overlap /\ NoneIn(InEnqueue)
      BY <1>1, <1>3, SomewhereIn
    <3>2. NoneIn(InRing)
      BY <2>5, <3>1 DEF NoneIn, In, InRing
    <3>3. Window(length, head)
      BY <3>1, <3>2 DEF SerialInv, FifoSoFar
    <3>4. Window(length, head)'
      BY <1>1, <3>3 DEF Window, Wrap, ringVars, ring
    <3>5. \A u \in Reader : \A i \in Nat :
            In(u, i, InRing)' => u = t /\ i = Depth(t)' /\ frames'[u][i] = f
      BY <1>1, <2>1, <2>2, <3>2, GotoOnly DEF TopOnly, NoneIn
    <3>6. f.reg = length' /\ f.pc = "take" /\ length' > 0
      BY <2>1, <2>6
    <3>7. \A u \in Reader : \A i \in Nat : In(u, i, InRing)' => RingFrame(frames[u][i])'
      BY <3>4, <3>5, <3>6 DEF RingFrame
    <3> QED
      BY <3>4, <3>5, <3>7 DEF FifoSoFar, OneIn
  <2>9. SameIn(HasCharacter) /\ LineKnown' /\ Consumed' = Consumed
    BY <1>1, <2>1, <2>2, GotoSame DEF HasCharacter, InEnqueue, SerialInv, LineKnown, Consumed
  <2>10. OrderSoFar'
    BY <1>1, <2>9, OrderKept DEF SerialInv
  <2> QED
    BY <2>3, <2>4, <2>7, <2>8, <2>9, <2>10 DEF SerialInv
<1> QED
  BY <1>2, <1>3 DEF ReadTest

LEMMA DequeueTakeKeeps ==
  ASSUME SerialInv, NEW t \in Reader, DequeueTake(t)
  PROVE  SerialInv'
<1> DEFINE f == [Top(t) EXCEPT !.pc = "dec"]  g == Top(t)
<1>1. /\ At(t, "take") /\ Goto(t, f) /\ FramesTyped /\ Depth(t) > 0
      /\ taken' = Append(taken, data[tail]) /\ tail' = Advance(tail)
      /\ UNCHANGED <<data, head, length, line, arrived, owner, accepted, overlap, crossed>>
  BY DEF DequeueTake, SerialInv, SerialTyped, At
<1>2. g = frames[t][Depth(t)] /\ g \in FrameType /\ Depth(t) \in Nat /\ g.pc = "take"
  BY <1>1, TopFrame
<1>3. f \in FrameType /\ f.pc = "dec" /\ f.reg = g.reg
  BY <1>2 DEF FrameType, SerialPoints, Holding
<1> HIDE DEF f, g
<1>4. MutexHeld'
  BY <1>1, <1>3, HolderMoves DEF Holding
<1>5. SerialTyped'
  <2>1. data[tail] \in Nat \cup {Unset} /\ tail' \in Index
    BY <1>1, AdvanceWraps DEF SerialInv, SerialTyped
  <2>2. taken' \in Seq(Nat \cup {Unset})
    BY <1>1, <2>1 DEF SerialInv, SerialTyped
  <2> QED
    BY <1>1, <1>3, <2>1, <2>2, GotoShape DEF SerialInv, SerialTyped
<1>6. NeverBelowZero'
  <2>1. TopOnly(t, InDequeue) /\ In(t, Depth(t), InDequeue)
    <3>1. TopOnly(t, Holding) /\ In(t, Depth(t), Holding)
      BY <1>1, TopIsOnly DEF SerialInv, MutexHeld, Holding
    <3> QED
      BY <1>2, <3>1 DEF TopOnly, In, InDequeue, Holding
  <2>2. length >= 1 /\ g.reg >= 1
    BY <1>2, <2>1 DEF SerialInv, NeverBelowZero
  <2>3. \A u \in Reader : \A i \in Nat : In(u, i, InDequeue)' => frames'[u][i] = f
    BY <1>1, <1>3, <2>1, GotoOnly
  <2> QED
    BY <1>1, <1>3, <2>2, <2>3 DEF NeverBelowZero
<1>7. FifoSoFar'
  <2> SUFFICES ASSUME ~overlap PROVE FifoSoFar'
    BY <1>1 DEF FifoSoFar
  <2>1. TopOnly(t, InRing) /\ In(t, Depth(t), InRing)
    BY <1>1, TopIsOnly DEF SerialInv, FifoSoFar, InRing, InDequeue
  <2>2. RingFrame(g)
    BY <1>2, <2>1 DEF SerialInv, FifoSoFar
  <2>3. length > 0 /\ Window(length, head) /\ g.reg = length
    BY <1>2, <2>2 DEF RingFrame
  <2>4. Window(length - 1, head)'
    BY <1>1, <2>3, WindowTake DEF SerialInv
  <2>5. \A u \in Reader : \A i \in Nat :
          In(u, i, InRing)' => u = t /\ i = Depth(t)' /\ frames'[u][i] = f
    BY <1>1, <1>3, <2>1, GotoOnly
  <2>6. In(t, Depth(t), InRing)' /\ Depth(t)' \in Nat
    BY <1>1, <1>2, <1>3, GotoShape DEF In, InRing, InDequeue
  <2>7. \A u \in Reader : \A i \in Nat : In(u, i, InRing)' => RingFrame(frames[u][i])'
    BY <1>1, <1>3, <2>3, <2>4, <2>5 DEF RingFrame
  <2> QED
    BY <2>5, <2>6, <2>7 DEF FifoSoFar, OneIn, NoneIn
<1>8. SameIn(HasCharacter) /\ LineKnown' /\ Consumed' = Consumed
  BY <1>1, <1>3, GotoSame DEF HasCharacter, InEnqueue, SerialInv, LineKnown, Consumed
<1>9. OrderSoFar'
  BY <1>1, <1>8, OrderKept DEF SerialInv
<1> QED
  BY <1>4, <1>5, <1>6, <1>7, <1>8, <1>9 DEF SerialInv

LEMMA DequeueLengthKeeps ==
  ASSUME SerialInv, NEW t \in Reader, DequeueLength(t)
  PROVE  SerialInv'
<1> DEFINE f == [Top(t) EXCEPT !.pc = "test", !.left = @ - 1]  g == Top(t)
<1>1. /\ At(t, "dec") /\ Goto(t, f) /\ FramesTyped /\ Depth(t) > 0
      /\ length' \in {length - 1, g.reg - 1}
      /\ UNCHANGED <<data, head, tail, line, arrived, owner, accepted, taken, overlap, crossed>>
  BY DEF DequeueLength, SerialInv, SerialTyped, At, Histories
<1>2. g = frames[t][Depth(t)] /\ g \in FrameType /\ Depth(t) \in Nat /\ g.pc = "dec"
  BY <1>1, TopFrame
<1>3. f \in FrameType /\ f.pc = "test"
  <2> DEFINE h == [g EXCEPT !.pc = "test"]  l == g.left - 1
  <2>1. h \in FrameType /\ h.pc = "test" /\ h.left = g.left
    BY <1>2 DEF FrameType, SerialPoints, Holding
  <2>2. l \in Int
    BY <1>2 DEF FrameType
  <2>3. f = [h EXCEPT !.left = l]
    BY <2>1
  <2> HIDE DEF h, l
  <2> QED
    BY <2>1, <2>2, <2>3 DEF FrameType
<1> HIDE DEF f, g
<1>4. MutexHeld'
  BY <1>1, <1>3, HolderMoves DEF Holding
<1>5. TopOnly(t, InDequeue) /\ In(t, Depth(t), InDequeue)
  <2>1. TopOnly(t, Holding) /\ In(t, Depth(t), Holding)
    BY <1>1, TopIsOnly DEF SerialInv, MutexHeld, Holding
  <2> QED
    BY <1>2, <2>1 DEF TopOnly, In, InDequeue, Holding
<1>6. length >= 1 /\ g.reg >= 1
  BY <1>2, <1>5 DEF SerialInv, NeverBelowZero
<1>7. SerialTyped'
  <2>1. length' \in Nat
    BY <1>1, <1>2, <1>6 DEF SerialInv, SerialTyped, FrameType
  <2> QED
    BY <1>1, <1>3, <2>1, GotoShape DEF SerialInv, SerialTyped
<1>8. NeverBelowZero'
  BY <1>1, <1>3, <1>5, GotoOnly DEF NeverBelowZero, NoneIn, InDequeue
<1>9. FifoSoFar'
  <2> SUFFICES ASSUME ~overlap PROVE FifoSoFar'
    BY <1>1 DEF FifoSoFar
  <2>1. TopOnly(t, InRing) /\ In(t, Depth(t), InRing)
    BY <1>1, TopIsOnly DEF SerialInv, FifoSoFar, InRing, InDequeue
  <2>2. RingFrame(g)
    BY <1>2, <2>1 DEF SerialInv, FifoSoFar
  <2>3. Window(length - 1, head) /\ length' = length - 1
    BY <1>1, <1>2, <2>2 DEF RingFrame
  <2>4. Window(length, head)'
    BY <1>1, <2>3 DEF Window, Wrap
  <2>5. NoneIn(InRing)'
    BY <1>1, <1>3, <2>1, GotoOnly DEF InRing, InEnqueue, InDequeue
  <2> QED
    BY <2>4, <2>5 DEF FifoSoFar, OneIn, NoneIn
<1>10. SameIn(HasCharacter) /\ LineKnown' /\ Consumed' = Consumed
  BY <1>1, <1>3, GotoSame DEF HasCharacter, InEnqueue, SerialInv, LineKnown, Consumed
<1>11. OrderSoFar'
  BY <1>1, <1>10, OrderKept DEF SerialInv
<1> QED
  BY <1>4, <1>7, <1>8, <1>9, <1>10, <1>11 DEF SerialInv

-----------------------------------------------------------------------------
LEMMA StoredLater ==
  ASSUME NEW m \in Int, NEW n \in Int, m <= n, Stored(m)
  PROVE  Stored(n)
<1>1. PICK at \in [DOMAIN accepted -> 1..m] :
        \A i, j \in DOMAIN accepted :
          /\ accepted[i] = ToNewline(Input[at[i]]) /\ accepted[i] # CR
          /\ i < j => at[i] < at[j]
  BY DEF Stored
<1>2. 1..m \subseteq 1..n
  OBVIOUS
<1>3. at \in [DOMAIN accepted -> 1..n]
  BY <1>2
<1> QED
  BY <1>1, <1>3 DEF Stored

(* Storing the last character consumed keeps the order of arrival.          *)
LEMMA StoreInOrder ==
  ASSUME accepted \in Seq(Nat), NEW m \in Nat, m >= 1, NEW c \in Nat, c = ToNewline(Input[m]),
         Stored(m - 1), accepted' = Append(accepted, c)
  PROVE  \E at \in [DOMAIN accepted' -> 1..m] :
           \A i, j \in DOMAIN accepted' :
             /\ accepted'[i] = ToNewline(Input[at[i]]) /\ accepted'[i] # CR
             /\ i < j => at[i] < at[j]
<1> DEFINE L == Len(accepted)
<1>1. /\ L \in Nat /\ DOMAIN accepted = 1..L
      /\ DOMAIN accepted' = 1..(L + 1) /\ accepted'[L + 1] = c
      /\ \A i \in 1..L : accepted'[i] = accepted[i]
  BY AppendProperties, LenProperties
<1> HIDE DEF L
<1>2. PICK at \in [1..L -> 1..(m - 1)] :
        \A i, j \in 1..L :
          /\ accepted[i] = ToNewline(Input[at[i]]) /\ accepted[i] # CR
          /\ i < j => at[i] < at[j]
  BY <1>1 DEF Stored
<1>3. c # CR
  BY DEF ToNewline, CR, NL
<1> DEFINE new == [i \in 1..(L + 1) |-> IF i = L + 1 THEN m ELSE at[i]]
<1>4. \A i \in 1..(L + 1) : i # L + 1 => i \in 1..L
  BY <1>1
<1>5. \A i \in 1..L : at[i] \in 1..m /\ at[i] < m /\ i \in 1..(L + 1) /\ i # L + 1
  BY <1>1, <1>2
<1>6. new \in [1..(L + 1) -> 1..m]
  BY <1>4, <1>5
<1>7. new[L + 1] = m /\ \A i \in 1..L : new[i] = at[i]
  BY <1>1, <1>5
<1> HIDE DEF new
<1>8. ASSUME NEW i \in 1..(L + 1), NEW j \in 1..(L + 1)
      PROVE  /\ accepted'[i] = ToNewline(Input[new[i]]) /\ accepted'[i] # CR
             /\ i < j => new[i] < new[j]
  <2>1. CASE i = L + 1
    <3>1. ~(i < j)
      BY <1>1, <2>1
    <3> QED
      BY <1>1, <1>3, <1>7, <2>1, <3>1
  <2>2. CASE i # L + 1
    <3>1. i \in 1..L
      BY <1>4, <2>2
    <3>2. CASE j = L + 1
      BY <1>1, <1>2, <1>5, <1>7, <3>1, <3>2
    <3>3. CASE j # L + 1
      <4>1. j \in 1..L
        BY <1>4, <3>3
      <4> QED
        BY <1>1, <1>2, <1>7, <3>1, <4>1
    <3> QED
      BY <3>2, <3>3
  <2> QED
    BY <2>1, <2>2
<1> QED
  BY <1>1, <1>6, <1>8

LEMMA ConsumedKnown ==
  ASSUME SerialTyped, LineKnown
  PROVE  Consumed \in Nat /\ Len(line) \in Nat /\ arrived \in Nat /\ Len(Input) \in Nat
<1>1. Len(Input) \in Nat /\ Len(line) \in Nat
  BY SerialAssumption DEF SerialTyped
<1>2. arrived \in Nat
  BY <1>1 DEF SerialTyped
<1> QED
  BY <1>1, <1>2 DEF LineKnown, Consumed

LEMMA NewlineTyped ==
  ASSUME NEW c \in Nat
  PROVE  ToNewline(c) \in Nat
  BY DEF ToNewline, NL

LEMMA ArriveKeeps ==
  ASSUME SerialInv, Arrive
  PROVE  SerialInv'
<1> DEFINE c == Input[arrived']
<1>1. /\ arrived < Len(Input) /\ arrived' = arrived + 1 /\ line' = Append(line, c)
      /\ UNCHANGED <<data, head, tail, length, frames, owner, accepted, taken, overlap, crossed>>
  BY DEF Arrive, ringVars, ring, Histories
<1>2. \A C : SameIn(C)
  BY <1>1 DEF SameIn, In, Depth
<1>3. Consumed \in Nat /\ Len(line) \in Nat /\ arrived \in Nat /\ Len(Input) \in Nat
  BY ConsumedKnown DEF SerialInv
<1>4. c \in Nat
  BY <1>1, <1>3, SerialAssumption
<1>5. /\ line' \in Seq(Nat) /\ Len(line') = Len(line) + 1 /\ line'[Len(line) + 1] = c
      /\ \A k \in 1..Len(line) : line'[k] = line[k]
  BY <1>1, <1>4, AppendProperties DEF SerialInv, SerialTyped
<1>6. Consumed' = Consumed
  BY <1>1, <1>3, <1>5 DEF Consumed
<1>7. SerialTyped'
  BY <1>1, <1>3, <1>5 DEF SerialInv, SerialTyped, FramesTyped
<1>8. LineKnown'
  <2>1. Len(line') <= arrived'
    BY <1>1, <1>3, <1>5 DEF SerialInv, LineKnown
  <2>2. ASSUME NEW k \in 1..Len(line') PROVE line'[k] = Input[Consumed + k]
    <3>1. CASE k = Len(line) + 1
      <4>1. Consumed + k = arrived'
        BY <1>1, <1>3, <3>1 DEF Consumed
      <4> QED
        BY <1>5, <3>1, <4>1
    <3>2. CASE k # Len(line) + 1
      <4>1. k \in 1..Len(line)
        BY <1>3, <1>5, <3>2
      <4> QED
        BY <1>5, <4>1 DEF SerialInv, LineKnown
    <3> QED
      BY <3>1, <3>2
  <2> QED
    BY <1>6, <2>1, <2>2 DEF LineKnown
<1>9. MutexHeld' /\ NeverBelowZero' /\ FifoSoFar' /\ OrderSoFar'
  BY <1>1, <1>2, <1>6, HeldKept, PositiveKept, FifoKept, OrderKept DEF SerialInv
<1> QED
  BY <1>7, <1>8, <1>9 DEF SerialInv

LEMMA ReadDataKeeps ==
  ASSUME SerialInv, NEW t \in Reader, ReadData(t)
  PROVE  SerialInv'
<1> DEFINE c == Head(line)
           f == [Frame("enqueue", 0) EXCEPT !.in = ToNewline(c)]
<1>1. /\ At(t, "data") /\ Goto(t, f) /\ line # <<>> /\ line' = Tail(line) /\ FramesTyped /\ Depth(t) > 0
      /\ crossed' = (crossed \/ Somewhere(HasCharacter))
      /\ UNCHANGED <<data, head, tail, length, arrived, owner, accepted, taken, overlap>>
  BY DEF ReadData, ringVars, ring, SerialInv, SerialTyped, At
<1>2. Consumed \in Nat /\ Len(line) \in Nat /\ arrived \in Nat /\ Len(line) >= 1 /\ line \in Seq(Nat)
  BY <1>1, ConsumedKnown DEF SerialInv, SerialTyped
<1>3. /\ c = line[1] /\ c \in Nat /\ line' \in Seq(Nat) /\ Len(line') = Len(line) - 1
      /\ \A k \in 1..(Len(line) - 1) : line'[k] = line[k + 1]
  BY <1>1, <1>2
<1> HIDE DEF c
<1>4. f \in FrameType /\ f.pc = "enqueue" /\ f.in = ToNewline(c)
  <2>1. Frame("enqueue", 0) \in FrameType /\ Frame("enqueue", 0).pc = "enqueue"
    BY NewFrame DEF SerialPoints, HasCharacter
  <2>2. ToNewline(c) \in Nat
    BY <1>3, NewlineTyped
  <2> QED
    BY <2>1, <2>2 DEF FrameType
<1> HIDE DEF f
<1>5. SameIn(InRing) /\ SameIn(Holding) /\ SameIn(InDequeue)
  BY <1>1, <1>4, GotoSame DEF InRing, InEnqueue, InDequeue, Holding
<1>6. MutexHeld' /\ NeverBelowZero' /\ FifoSoFar'
  BY <1>1, <1>5, HeldKept, PositiveKept, FifoKept DEF SerialInv
<1>7. SerialTyped'
  <2>1. crossed' \in BOOLEAN
    BY <1>1 DEF SerialInv, SerialTyped
  <2> QED
    BY <1>1, <1>3, <1>4, <2>1, GotoShape DEF SerialInv, SerialTyped
<1>8. Consumed' = Consumed + 1
  BY <1>1, <1>2, <1>3 DEF Consumed
<1>9. LineKnown'
  <2>1. Len(line') <= arrived'
    BY <1>1, <1>2, <1>3 DEF SerialInv, LineKnown
  <2>2. ASSUME NEW k \in 1..Len(line') PROVE line'[k] = Input[(Consumed + 1) + k]
    <3>1. k \in 1..(Len(line) - 1) /\ k + 1 \in 1..Len(line) /\ (Consumed + 1) + k = Consumed + (k + 1)
      BY <1>2, <1>3
    <3> QED
      BY <1>3, <3>1 DEF SerialInv, LineKnown
  <2> QED
    BY <1>8, <2>1, <2>2 DEF LineKnown
<1>10. OrderSoFar'
  <2> SUFFICES ASSUME ~crossed' PROVE OrderSoFar'
    BY DEF OrderSoFar
  <2>1. ~crossed /\ NoneIn(HasCharacter)
    BY <1>1, SomewhereIn
  <2>2. \A u \in Reader : \A i \in Nat :
          In(u, i, HasCharacter)' => u = t /\ i = Depth(t)' /\ frames'[u][i] = f
    BY <1>1, <1>4, <2>1, GotoOnly DEF TopOnly, NoneIn
  <2>3. Stored(Consumed)
    BY <2>1 DEF SerialInv, OrderSoFar
  <2>4. Stored(Consumed + 1)
    BY <1>2, <2>3, StoredLater
  <2>5. Stored(Consumed)' /\ Stored(Consumed - 1)'
    <3>1. (Consumed + 1) - 1 = Consumed
      BY <1>2
    <3> QED
      BY <1>1, <1>8, <2>3, <2>4, <3>1 DEF Stored
  <2>6. f.in = ToNewline(Input[Consumed']) /\ Consumed' >= 1
    <3>1. 1 \in 1..Len(line)
      BY <1>2
    <3> QED
      BY <1>2, <1>3, <1>4, <1>8, <3>1 DEF SerialInv, LineKnown
  <2>7. \A u \in Reader : \A i \in Nat : In(u, i, {"enqueue", "store"})' => In(u, i, HasCharacter)'
    BY DEF In, HasCharacter, InEnqueue
  <2> QED
    BY <2>2, <2>5, <2>6, <2>7 DEF OrderSoFar, OneIn
<1> QED
  BY <1>6, <1>7, <1>9, <1>10 DEF SerialInv

(* Enqueue: the steps of a handler outside the mutex.                       *)
LEMMA EnqueueTestKeeps ==
  ASSUME SerialInv, NEW t \in Reader, EnqueueTest(t)
  PROVE  SerialInv'
<1> DEFINE g == Top(t)
<1>1. /\ At(t, "enqueue") /\ FramesTyped /\ Depth(t) > 0
      /\ UNCHANGED <<data, head, tail, length, line, arrived, owner, accepted, taken, crossed>>
  BY DEF EnqueueTest, SerialInv, SerialTyped, At
<1>2. g = frames[t][Depth(t)] /\ g \in FrameType /\ Depth(t) \in Nat /\ g.pc = "enqueue"
  BY <1>1, TopFrame
<1>3. LineKnown' /\ Consumed' = Consumed
  BY <1>1 DEF SerialInv, LineKnown, Consumed
<1>4. Stored(Consumed)' <=> Stored(Consumed)
  BY <1>1, <1>3 DEF Stored
<1>5. Stored(Consumed - 1)' <=> Stored(Consumed - 1)
  BY <1>1, <1>3 DEF Stored
<1>6. ~crossed => TopOnly(t, HasCharacter)
  BY <1>1, TopIsOnly DEF SerialInv, OrderSoFar, HasCharacter
<1>7. CASE Pop(t) /\ UNCHANGED overlap
  <2>1. SameIn(InRing) /\ SameIn(InDequeue) /\ SameIn(Holding) /\ FramesTyped'
    BY <1>1, <1>7, PopSame, PopShape DEF InRing, InEnqueue, InDequeue, Holding
  <2>2. MutexHeld' /\ NeverBelowZero' /\ FifoSoFar'
    BY <1>1, <1>7, <2>1, HeldKept, PositiveKept, FifoKept DEF SerialInv
  <2>3. SerialTyped'
    BY <1>1, <1>7, <2>1 DEF SerialInv, SerialTyped
  <2>4. ~crossed => NoneIn(HasCharacter)'
    BY <1>1, <1>6, <1>7, PopNone
  <2>5. OrderSoFar'
    BY <1>1, <1>4, <2>4 DEF SerialInv, OrderSoFar, OneIn, NoneIn, In, HasCharacter, InEnqueue
  <2> QED
    BY <1>3, <2>2, <2>3, <2>5 DEF SerialInv
<1>8. CASE /\ ~IsFull /\ Goto(t, [Top(t) EXCEPT !.pc = "store", !.reg = length])
           /\ overlap' = (overlap \/ Somewhere(InEnqueue \cup InDequeue))
  <2> DEFINE f == [Top(t) EXCEPT !.pc = "store", !.reg = length]
  <2>1. f \in FrameType /\ f.pc = "store" /\ f.reg = length /\ f.in = g.in
    BY <1>1, <1>2 DEF FrameType, SerialPoints, HasCharacter, InEnqueue, SerialInv, SerialTyped
  <2> HIDE DEF f, g
  <2>2. Goto(t, f)
    BY <1>8 DEF f
  <2>3. SameIn(Holding) /\ SameIn(InDequeue) /\ FramesTyped'
    BY <1>1, <2>1, <2>2, GotoSame, GotoShape DEF InDequeue, Holding
  <2>4. MutexHeld' /\ NeverBelowZero'
    BY <1>1, <2>3, HeldKept, PositiveKept DEF SerialInv
  <2>5. SerialTyped'
    <3>1. overlap' \in BOOLEAN
      BY <1>8 DEF SerialInv, SerialTyped
    <3> QED
      BY <1>1, <2>3, <3>1 DEF SerialInv, SerialTyped
  <2>6. FifoSoFar'
    <3> SUFFICES ASSUME ~overlap' PROVE FifoSoFar'
      BY DEF FifoSoFar
    <3>1. ~overlap /\ NoneIn(InRing)
      BY <1>1, <1>8, SomewhereIn DEF InRing
    <3>2. Window(length, head)
      BY <3>1 DEF SerialInv, FifoSoFar
    <3>3. Window(length, head)'
      BY <1>1, <3>2 DEF Window, Wrap
    <3>4. length' < S /\ length' = length
      BY <1>1, <1>8, <3>2, RingAssumption DEF Window, IsFull
    <3>5. \A u \in Reader : \A i \in Nat :
            In(u, i, InRing)' => u = t /\ i = Depth(t)' /\ frames'[u][i] = f
      BY <1>1, <2>1, <2>2, <3>1, GotoOnly DEF TopOnly, NoneIn
    <3>6. \A u \in Reader : \A i \in Nat : In(u, i, InRing)' => RingFrame(frames[u][i])'
      BY <2>1, <3>3, <3>4, <3>5 DEF RingFrame
    <3> QED
      BY <3>3, <3>5, <3>6 DEF FifoSoFar, OneIn
  <2>7. OrderSoFar'
    <3> SUFFICES ASSUME ~crossed PROVE OrderSoFar'
      BY <1>1 DEF OrderSoFar
    <3>1. /\ Consumed >= 1 /\ g.in = ToNewline(Input[Consumed])
          /\ Stored(Consumed - 1) /\ Stored(Consumed)
      <4>1. In(t, Depth(t), {"enqueue", "store"})
        BY <1>1, <1>2 DEF In
      <4> QED
        BY <1>2, <4>1 DEF SerialInv, OrderSoFar
    <3>2. \A u \in Reader : \A i \in Nat :
            In(u, i, HasCharacter)' => u = t /\ i = Depth(t)' /\ frames'[u][i] = f
      BY <1>1, <1>6, <2>1, <2>2, GotoOnly
    <3>3. \A u \in Reader : \A i \in Nat : In(u, i, {"enqueue", "store"})' => In(u, i, HasCharacter)'
      BY DEF In, HasCharacter, InEnqueue
    <3> QED
      BY <1>3, <1>4, <1>5, <2>1, <3>1, <3>2, <3>3 DEF OrderSoFar, OneIn
  <2> QED
    BY <1>3, <2>4, <2>5, <2>6, <2>7 DEF SerialInv
<1> QED
  BY <1>7, <1>8 DEF EnqueueTest

LEMMA EnqueueStoreKeeps ==
  ASSUME SerialInv, NEW t \in Reader, EnqueueStore(t)
  PROVE  SerialInv'
<1> DEFINE g == Top(t)
           f == [Top(t) EXCEPT !.pc = "head", !.slot = head]
<1>1. /\ At(t, "store") /\ Goto(t, f) /\ FramesTyped /\ Depth(t) > 0
      /\ data' = [data EXCEPT ![head] = g.in] /\ accepted' = Append(accepted, g.in)
      /\ UNCHANGED <<head, tail, length, line, arrived, owner, taken, overlap, crossed>>
  BY DEF EnqueueStore, SerialInv, SerialTyped, At
<1>2. /\ g = frames[t][Depth(t)] /\ g \in FrameType /\ Depth(t) \in Nat /\ g.pc = "store"
      /\ g.in \in Nat
  BY <1>1, TopFrame DEF FrameType
<1>3. f \in FrameType /\ f.pc = "head" /\ f.slot = head /\ f.reg = g.reg
  BY <1>2 DEF FrameType, SerialPoints, HasCharacter, InEnqueue, SerialInv, SerialTyped
<1> HIDE DEF f, g
<1>4. SameIn(Holding) /\ SameIn(InDequeue) /\ FramesTyped'
  BY <1>1, <1>3, GotoSame, GotoShape DEF InDequeue, Holding
<1>5. MutexHeld' /\ NeverBelowZero'
  BY <1>1, <1>4, HeldKept, PositiveKept DEF SerialInv
<1>6. SerialTyped'
  <2>1. accepted' \in Seq(Nat) /\ data' \in [Index -> Nat \cup {Unset}]
    BY <1>1, <1>2 DEF SerialInv, SerialTyped
  <2> QED
    BY <1>1, <1>4, <2>1 DEF SerialInv, SerialTyped
<1>7. LineKnown' /\ Consumed' = Consumed
  BY <1>1 DEF SerialInv, LineKnown, Consumed
<1>8. FifoSoFar'
  <2> SUFFICES ASSUME ~overlap PROVE FifoSoFar'
    BY <1>1 DEF FifoSoFar
  <2>1. TopOnly(t, InRing) /\ In(t, Depth(t), InRing)
    BY <1>1, TopIsOnly DEF SerialInv, FifoSoFar, InRing, InEnqueue
  <2>2. RingFrame(g)
    BY <1>2, <2>1 DEF SerialInv, FifoSoFar
  <2>3. length < S /\ Window(length, head) /\ g.reg = length
    BY <1>2, <2>2 DEF RingFrame
  <2>4. Window(length + 1, Advance(head))'
    BY <1>1, <1>2, <2>3, WindowStore DEF SerialInv
  <2>5. \A u \in Reader : \A i \in Nat :
          In(u, i, InRing)' => u = t /\ i = Depth(t)' /\ frames'[u][i] = f
    BY <1>1, <1>3, <2>1, GotoOnly
  <2>6. In(t, Depth(t), InRing)' /\ Depth(t)' \in Nat
    BY <1>1, <1>2, <1>3, GotoShape DEF In, InRing, InEnqueue
  <2>7. \A u \in Reader : \A i \in Nat : In(u, i, InRing)' => RingFrame(frames[u][i])'
    BY <1>1, <1>3, <2>3, <2>4, <2>5 DEF RingFrame
  <2> QED
    BY <2>5, <2>6, <2>7 DEF FifoSoFar, OneIn, NoneIn
<1>9. OrderSoFar'
  <2> SUFFICES ASSUME ~crossed PROVE OrderSoFar'
    BY <1>1 DEF OrderSoFar
  <2>1. TopOnly(t, HasCharacter)
    BY <1>1, TopIsOnly DEF SerialInv, OrderSoFar, HasCharacter, InEnqueue
  <2>2. \A u \in Reader : \A i \in Nat :
          In(u, i, HasCharacter)' => u = t /\ i = Depth(t)' /\ frames'[u][i] = f
    BY <1>1, <1>3, <2>1, GotoOnly
  <2>3. NoneIn({"enqueue", "store"})'
    BY <1>3, <2>2 DEF NoneIn, In, HasCharacter, InEnqueue
  <2>4. In(t, Depth(t), {"enqueue", "store"})
    BY <1>1, <1>2 DEF In
  <2>5. Consumed >= 1 /\ g.in = ToNewline(Input[Consumed]) /\ Stored(Consumed - 1)
    BY <1>2, <2>4 DEF SerialInv, OrderSoFar
  <2>6. Consumed \in Nat /\ accepted \in Seq(Nat)
    BY ConsumedKnown DEF SerialInv, SerialTyped
  <2>7. Stored(Consumed)'
    BY <1>1, <1>2, <1>7, <2>5, <2>6, StoreInOrder DEF Stored
  <2> QED
    BY <2>2, <2>3, <2>7 DEF OrderSoFar, OneIn, NoneIn
<1> QED
  BY <1>5, <1>6, <1>7, <1>8, <1>9 DEF SerialInv

LEMMA EnqueueHeadKeeps ==
  ASSUME SerialInv, NEW t \in Reader, EnqueueHead(t)
  PROVE  SerialInv'
<1> DEFINE g == Top(t)
           f == [Top(t) EXCEPT !.pc = "inc"]
<1>1. /\ At(t, "head") /\ Goto(t, f) /\ FramesTyped /\ Depth(t) > 0 /\ head' = Advance(g.slot)
      /\ UNCHANGED <<data, tail, length, line, arrived, owner, accepted, taken, overlap, crossed>>
  BY DEF EnqueueHead, SerialInv, SerialTyped, At, Histories
<1>2. /\ g = frames[t][Depth(t)] /\ g \in FrameType /\ Depth(t) \in Nat /\ g.pc = "head"
      /\ g.slot \in Index
  BY <1>1, TopFrame DEF FrameType
<1>3. f \in FrameType /\ f.pc = "inc" /\ f.reg = g.reg
  BY <1>2 DEF FrameType, SerialPoints, HasCharacter, InEnqueue
<1> HIDE DEF f, g
<1>4. SameIn(Holding) /\ SameIn(InDequeue) /\ SameIn({"enqueue", "store"}) /\ FramesTyped'
  BY <1>1, <1>3, GotoSame, GotoShape DEF InDequeue, Holding
<1>5. MutexHeld' /\ NeverBelowZero'
  BY <1>1, <1>4, HeldKept, PositiveKept DEF SerialInv
<1>6. SerialTyped'
  <2>1. head' \in Index
    BY <1>1, <1>2, AdvanceWraps
  <2> QED
    BY <1>1, <1>4, <2>1 DEF SerialInv, SerialTyped
<1>7. LineKnown' /\ Consumed' = Consumed
  BY <1>1 DEF SerialInv, LineKnown, Consumed
<1>8. FifoSoFar'
  <2> SUFFICES ASSUME ~overlap PROVE FifoSoFar'
    BY <1>1 DEF FifoSoFar
  <2>1. TopOnly(t, InRing) /\ In(t, Depth(t), InRing)
    BY <1>1, TopIsOnly DEF SerialInv, FifoSoFar, InRing, InEnqueue
  <2>2. RingFrame(g)
    BY <1>2, <2>1 DEF SerialInv, FifoSoFar
  <2>3. length < S /\ Window(length + 1, Advance(head)) /\ g.reg = length /\ g.slot = head
    BY <1>2, <2>2 DEF RingFrame
  <2>4. Window(length + 1, head)'
    BY <1>1, <2>3 DEF Window, Wrap
  <2>5. \A u \in Reader : \A i \in Nat :
          In(u, i, InRing)' => u = t /\ i = Depth(t)' /\ frames'[u][i] = f
    BY <1>1, <1>3, <2>1, GotoOnly
  <2>6. In(t, Depth(t), InRing)' /\ Depth(t)' \in Nat
    BY <1>1, <1>2, <1>3, GotoShape DEF In, InRing, InEnqueue
  <2>7. \A u \in Reader : \A i \in Nat : In(u, i, InRing)' => RingFrame(frames[u][i])'
    BY <1>1, <1>3, <2>3, <2>4, <2>5 DEF RingFrame
  <2> QED
    BY <2>5, <2>6, <2>7 DEF FifoSoFar, OneIn, NoneIn
<1>9. OrderSoFar'
  <2> SUFFICES ASSUME ~crossed PROVE OrderSoFar'
    BY <1>1 DEF OrderSoFar
  <2>1. TopOnly(t, HasCharacter)
    BY <1>1, TopIsOnly DEF SerialInv, OrderSoFar, HasCharacter, InEnqueue
  <2>2. \A u \in Reader : \A i \in Nat :
          In(u, i, HasCharacter)' => u = t /\ i = Depth(t)' /\ frames'[u][i] = f
    BY <1>1, <1>3, <2>1, GotoOnly
  <2>3. NoneIn({"enqueue", "store"})'
    BY <1>3, <2>2 DEF NoneIn, In, HasCharacter, InEnqueue
  <2>4. Stored(Consumed)'
    BY <1>1, <1>7 DEF SerialInv, OrderSoFar, Stored
  <2> QED
    BY <2>2, <2>3, <2>4 DEF OrderSoFar, OneIn, NoneIn
<1> QED
  BY <1>5, <1>6, <1>7, <1>8, <1>9 DEF SerialInv

LEMMA EnqueueLengthKeeps ==
  ASSUME SerialInv, NEW t \in Reader, EnqueueLength(t)
  PROVE  SerialInv'
<1> DEFINE g == Top(t)
<1>1. /\ At(t, "inc") /\ Pop(t) /\ FramesTyped /\ Depth(t) > 0 /\ length' \in {length + 1, g.reg + 1}
      /\ UNCHANGED <<data, head, tail, line, arrived, owner, accepted, taken, overlap, crossed>>
  BY DEF EnqueueLength, SerialInv, SerialTyped, At, Histories
<1>2. /\ g = frames[t][Depth(t)] /\ g \in FrameType /\ Depth(t) \in Nat /\ g.pc = "inc"
      /\ g.reg \in Nat
  BY <1>1, TopFrame DEF FrameType
<1> HIDE DEF g
<1>3. length' \in Nat /\ length' >= 1
  BY <1>1, <1>2 DEF SerialInv, SerialTyped
<1>4. SameIn(Holding) /\ SameIn(InDequeue) /\ FramesTyped'
  BY <1>1, PopSame, PopShape DEF InDequeue, Holding
<1>5. MutexHeld' /\ NeverBelowZero'
  BY <1>1, <1>3, <1>4, HeldKept, PositiveKept DEF SerialInv
<1>6. SerialTyped'
  BY <1>1, <1>3, <1>4 DEF SerialInv, SerialTyped
<1>7. LineKnown' /\ Consumed' = Consumed
  BY <1>1 DEF SerialInv, LineKnown, Consumed
<1>8. FifoSoFar'
  <2> SUFFICES ASSUME ~overlap PROVE FifoSoFar'
    BY <1>1 DEF FifoSoFar
  <2>1. TopOnly(t, InRing) /\ In(t, Depth(t), InRing)
    BY <1>1, TopIsOnly DEF SerialInv, FifoSoFar, InRing, InEnqueue
  <2>2. RingFrame(g)
    BY <1>2, <2>1 DEF SerialInv, FifoSoFar
  <2>3. Window(length + 1, head) /\ length' = length + 1
    BY <1>1, <1>2, <2>2 DEF RingFrame
  <2>4. Window(length, head)'
    BY <1>1, <2>3 DEF Window, Wrap
  <2>5. NoneIn(InRing)'
    BY <1>1, <2>1, PopNone
  <2> QED
    BY <2>4, <2>5 DEF FifoSoFar, OneIn, NoneIn
<1>9. OrderSoFar'
  <2> SUFFICES ASSUME ~crossed PROVE OrderSoFar'
    BY <1>1 DEF OrderSoFar
  <2>1. TopOnly(t, HasCharacter)
    BY <1>1, TopIsOnly DEF SerialInv, OrderSoFar, HasCharacter, InEnqueue
  <2>2. NoneIn(HasCharacter)'
    BY <1>1, <2>1, PopNone
  <2>3. Stored(Consumed)'
    BY <1>1, <1>7 DEF SerialInv, OrderSoFar, Stored
  <2> QED
    BY <2>2, <2>3 DEF OrderSoFar, OneIn, NoneIn, In, HasCharacter, InEnqueue
<1> QED
  BY <1>5, <1>6, <1>7, <1>8, <1>9 DEF SerialInv

-----------------------------------------------------------------------------
LEMMA SerialInvInit == SerialInit => SerialInv
<1> SUFFICES ASSUME SerialInit PROVE SerialInv
  OBVIOUS
<1>1. /\ data = [i \in Index |-> Unset] /\ head = 0 /\ tail = 0 /\ length = 0
      /\ line = <<>> /\ arrived = 0 /\ frames = [t \in Reader |-> <<>>] /\ owner = NoTask
      /\ accepted = <<>> /\ taken = <<>> /\ overlap = FALSE /\ crossed = FALSE
  BY DEF SerialInit, RingInit
<1>2. 0 \in Index /\ S \in Nat /\ S > 0 /\ Len(Input) \in Nat
  BY RingAssumption, SerialAssumption DEF Index
<1>3. SerialTyped
  BY <1>1, <1>2 DEF SerialTyped, FramesTyped
<1>4. \A C : NoneIn(C) /\ OneIn(C)
  BY <1>1 DEF NoneIn, OneIn, In, Depth
<1>5. MutexHeld /\ NeverBelowZero
  BY <1>4 DEF MutexHeld, NeverBelowZero, NoneIn
<1>6. Window(length, head)
  BY <1>1, <1>2 DEF Window, Wrap
<1>7. FifoSoFar
  BY <1>4, <1>6 DEF FifoSoFar, NoneIn
<1>8. LineKnown
  BY <1>1 DEF LineKnown
<1>9. Stored(Consumed)
  <2>1. DOMAIN accepted = {}
    BY <1>1
  <2>2. [i \in {} |-> 1] \in [DOMAIN accepted -> 1..Consumed]
    BY <2>1
  <2> QED
    BY <2>1, <2>2 DEF Stored
<1>10. OrderSoFar
  BY <1>4, <1>9 DEF OrderSoFar, NoneIn
<1> QED
  BY <1>3, <1>5, <1>7, <1>8, <1>10 DEF SerialInv

LEMMA SerialInvNext == SerialInv /\ [SerialNext]_serialVars => SerialInv'
<1> SUFFICES ASSUME SerialInv, [SerialNext]_serialVars PROVE SerialInv'
  OBVIOUS
<1>1. CASE Arrive
  BY <1>1, ArriveKeeps
<1>2. ASSUME NEW t \in Reader, CallbackFindsFree(t) PROVE SerialInv'
  BY <1>2, EnterKeeps DEF CallbackFindsFree
<1>3. ASSUME NEW t \in Reader, CallbackBlocks(t) PROVE SerialInv'
  BY <1>3, EnterKeeps DEF CallbackBlocks
<1>4. ASSUME NEW t \in Reader, NEW size \in 1..MaxRead, Read(t, size) PROVE SerialInv'
  <2>1. size \in Int
    OBVIOUS
  <2> QED
    BY <1>4, <2>1, EnterKeeps DEF Read
<1>5. ASSUME NEW t \in Reader, CallbackLocks(t) PROVE SerialInv'
  BY <1>5, CallbackLocksKeeps
<1>6. ASSUME NEW t \in Reader, ReadLock(t) PROVE SerialInv'
  BY <1>6, ReadLockKeeps
<1>7. ASSUME NEW t \in Reader, SerialStep(t) PROVE SerialInv'
  BY <1>7, ReceivedKeeps, ReadDataKeeps, EnqueueTestKeeps, EnqueueStoreKeeps, EnqueueHeadKeeps,
     EnqueueLengthKeeps, ReadTestKeeps, DequeueTakeKeeps, DequeueLengthKeeps, ReadUnlockKeeps
     DEF SerialStep
<1>8. CASE UNCHANGED serialVars
  <2>1. /\ UNCHANGED <<data, head, tail, length, frames, owner, line, arrived>>
        /\ UNCHANGED <<accepted, taken, overlap, crossed>>
    BY <1>8 DEF serialVars, ringVars, ring
  <2>2. (\A C : SameIn(C)) /\ FramesTyped'
    BY <2>1 DEF SameIn, In, Depth, SerialInv, SerialTyped, FramesTyped
  <2>3. MutexHeld'
    BY <2>1, <2>2, HeldKept DEF SerialInv
  <2> QED
    BY <2>1, <2>2, <2>3, QuietKeeps DEF SerialInv, SerialTyped
<1> QED
  BY <1>1, <1>2, <1>3, <1>4, <1>5, <1>6, <1>7, <1>8 DEF SerialNext

LEMMA InvKeepsCharacters == SerialInv => CharactersKept
<1> SUFFICES ASSUME SerialInv PROVE CharactersKept
  OBVIOUS
<1>1. SerialIndicesSafe
  BY DEF SerialInv, SerialTyped, SerialIndicesSafe
<1>2. FifoUnlessOverlap
  <2> SUFFICES ASSUME ~overlap, ~Somewhere(InEnqueue \cup InDequeue)
               PROVE  accepted = taken \o Contents
    BY DEF FifoUnlessOverlap
  <2>1. NoneIn(InRing)
    BY SomewhereIn DEF InRing, SerialInv, SerialTyped
  <2>2. Window(length, head)
    BY <2>1 DEF SerialInv, FifoSoFar
  <2> QED
    BY <2>2, WindowIsQueue DEF SerialInv
<1>3. ArrivalOrder
  <2> SUFFICES ASSUME ~crossed PROVE ArrivalOrder
    BY DEF ArrivalOrder
  <2>1. Stored(Consumed)
    BY DEF SerialInv, OrderSoFar
  <2>2. Consumed \in Int /\ arrived \in Int /\ Consumed <= arrived
    BY ConsumedKnown DEF SerialInv, Consumed
  <2>3. Stored(arrived)
    BY <2>1, <2>2, StoredLater
  <2> QED
    BY <2>3 DEF Stored, ArrivalOrder
<1> QED
  BY <1>1, <1>2, <1>3 DEF CharactersKept

(* rs232.cpp, for any number of readers, any nesting of handlers, any       *)
(* buffer and any input: the races between the handler and read() never     *)
(* move an index out of the array or the length below zero; unless ring     *)
(* operations overlap everything comes out in order, and unless a handler   *)
(* overtakes another it is in the order of arrival.                         *)
THEOREM CharactersAreKept == SerialSpec => []CharactersKept
<1>1. SerialSpec => []SerialInv
  BY SerialInvInit, SerialInvNext, PTL DEF SerialSpec
<1> QED
  BY <1>1, InvKeepsCharacters, PTL

(***************************************************************************)
(* Clock.  Of the passes of read() only one can be torn by one update, and  *)
(* the next one waits until that update is over.                            *)
(***************************************************************************)
(* What was read so far in this pass is what the chip holds.                *)
PrefixOf(s, c) == Len(s) <= Registers /\ \A k \in 1..Len(s) : s[k] = c[k]

ReadTyped ==
  /\ chip = [r \in Register |-> chip[r]] /\ updating \in BOOLEAN /\ since \in Nat
  /\ now \in Seq(Int) /\ Len(now) <= Registers
  /\ rtc \in {"idle", "wait", "read", "done"}
  /\ rtc = "wait" => now = <<>>
  /\ updating => since >= 1
  /\ rtc # "idle" => chip \in passed

(* No update since read() began.                                            *)
Still ==
  (since = 0 /\ rtc # "idle") =>
    passed = {chip} /\ PrefixOf(now, chip) /\ lastRead \in {<<>>, chip}

(* One update: the torn pass is still to be compared with a good one, or it  *)
(* is behind and this one is good.                                          *)
OnceUpdated ==
  (since = 1 /\ rtc \in {"wait", "read"}) =>
    \/ lastRead = <<>> \/ lastRead \in passed
    \/ PrefixOf(now, chip) /\ (rtc = "read" => ~updating)

ReadInv == ReadTyped /\ Still /\ OnceUpdated /\ NoTornReading

LEMMA WholePrefix ==
  ASSUME NEW s \in Seq(Int), NEW c, c = [r \in Register |-> c[r]], PrefixOf(s, c), Len(s) = Registers
  PROVE  s = c
<1>1. s = [k \in 1..Len(s) |-> s[k]]
  OBVIOUS
<1>2. \A k \in Register : s[k] = c[k]
  BY DEF PrefixOf, Register
<1> QED
  BY <1>1, <1>2 DEF Register

LEMMA ReadInit == ClockInit => ReadInv
<1> SUFFICES ASSUME ClockInit PROVE ReadInv
  OBVIOUS
<1>1. chip = [r \in Register |-> chip[r]]
  BY DEF ClockInit
<1>2. now \in Seq(Int) /\ Len(now) = 0
  BY DEF ClockInit
<1>3. /\ updating \in BOOLEAN /\ ~updating /\ since = 0 /\ rtc = "idle"
      /\ Len(now) <= Registers
  <2>1. updating \in BOOLEAN /\ ~updating
    BY Zenon DEF ClockInit
  <2> QED
    BY <1>2, <2>1, ClockAssumption DEF ClockInit
<1>4. ReadTyped
  BY <1>1, <1>2, <1>3 DEF ReadTyped
<1> QED
  BY <1>3, <1>4 DEF ReadInv, Still, OnceUpdated, NoTornReading

LEMMA UpdatesKeep ==
  ASSUME ReadInv, UpdateBegins \/ UpdateEnds
  PROVE  ReadInv'
<1>1. /\ rtc' = rtc /\ now' = now /\ lastRead' = lastRead
  BY DEF UpdateBegins, UpdateEnds
<1>2. ReadTyped /\ Still /\ OnceUpdated /\ NoTornReading
  BY DEF ReadInv
<1>3. CASE UpdateBegins
  <2>1. since' = since + 1 /\ updating' = TRUE /\ chip' = chip /\ passed' = passed
    BY <1>3 DEF UpdateBegins
  <2>2. ReadTyped'
    BY <1>1, <1>2, <2>1 DEF ReadTyped
  <2>3. Still' /\ OnceUpdated'
    BY <1>1, <1>2, <2>1 DEF ReadTyped, Still, OnceUpdated
  <2>4. NoTornReading'
    BY <1>1, <1>2, <2>1 DEF ReadTyped, NoTornReading
  <2> QED
    BY <2>2, <2>3, <2>4 DEF ReadInv
<1>4. CASE UpdateEnds
  <2>1. /\ since' = since /\ updating /\ updating' = FALSE /\ chip' = Ticked(chip)
        /\ passed' = passed \cup {Ticked(chip)}
    BY <1>4 DEF UpdateEnds
  <2>2. chip' = [r \in Register |-> chip'[r]]
    BY <2>1 DEF Ticked
  <2>3. ReadTyped'
    BY <1>1, <1>2, <2>1, <2>2 DEF ReadTyped
  <2>4. Still' /\ NoTornReading'
    BY <1>1, <1>2, <2>1 DEF ReadTyped, Still, NoTornReading
  <2>5. OnceUpdated'
    <3>1. rtc = "wait" => PrefixOf(now, chip')
      BY <1>2 DEF ReadTyped, PrefixOf
    <3> QED
      BY <1>1, <1>2, <2>1, <3>1 DEF ReadTyped, OnceUpdated
  <2> QED
    BY <2>3, <2>4, <2>5 DEF ReadInv
<1> QED
  BY <1>3, <1>4

LEMMA ReadStepsKeep ==
  ASSUME ReadInv, ReadBegins \/ UpdateOver
  PROVE  ReadInv'
<1>1. /\ chip' = chip /\ updating' = updating /\ ReadTyped /\ Still /\ OnceUpdated
  BY DEF ReadBegins, UpdateOver, ReadInv
<1>2. CASE ReadBegins
  <2>1. /\ rtc' = "wait" /\ now' = <<>> /\ lastRead' = <<>> /\ passed' = {chip}
        /\ since' = IF updating THEN 1 ELSE 0
    BY <1>2 DEF ReadBegins
  <2>2. now' \in Seq(Int) /\ Len(now') = 0
    BY <2>1
  <2> QED
    BY <1>1, <2>1, <2>2, ClockAssumption DEF ReadInv, ReadTyped, Still, OnceUpdated, NoTornReading, PrefixOf
<1>3. CASE UpdateOver
  <2>1. /\ rtc = "wait" /\ ~updating /\ rtc' = "read" /\ now' = now /\ lastRead' = lastRead
        /\ passed' = passed /\ since' = since
    BY <1>3 DEF UpdateOver
  <2> QED
    BY <1>1, <2>1 DEF ReadInv, ReadTyped, Still, OnceUpdated, NoTornReading, PrefixOf
<1> QED
  BY <1>2, <1>3

LEMMA RegisterKeeps ==
  ASSUME ReadInv, NEW v \in 0..(Modulus - 1), getRegister(v)
  PROVE  ReadInv'
<1>1. /\ rtc = "read" /\ Len(now) < Registers /\ (~updating => v = chip[Len(now) + 1])
      /\ now' = Append(now, v) /\ chip' = chip /\ updating' = updating /\ rtc' = rtc
      /\ lastRead' = lastRead /\ passed' = passed /\ since' = since
  BY DEF getRegister
<1>2. ReadTyped /\ Still /\ OnceUpdated
  BY DEF ReadInv
<1>3. /\ now' \in Seq(Int) /\ Len(now') = Len(now) + 1 /\ now'[Len(now) + 1] = v
      /\ \A k \in 1..Len(now) : now'[k] = now[k]
  BY <1>1, <1>2 DEF ReadTyped
<1>4. Len(now') <= Registers
  BY <1>1, <1>2, <1>3, ClockAssumption DEF ReadTyped
<1>5. ~updating /\ PrefixOf(now, chip) => PrefixOf(now', chip)
  <2> SUFFICES ASSUME ~updating, PrefixOf(now, chip) PROVE PrefixOf(now', chip)
    OBVIOUS
  <2>1. \A k \in 1..Len(now') : k \in 1..Len(now) \/ k = Len(now) + 1
    BY <1>2, <1>3 DEF ReadTyped
  <2> QED
    BY <1>1, <1>3, <1>4, <2>1 DEF PrefixOf
<1>6. ReadTyped'
  BY <1>1, <1>2, <1>3, <1>4 DEF ReadTyped
<1>7. Still' /\ OnceUpdated' /\ NoTornReading'
  <2>1. since = 0 => ~updating
    BY <1>2 DEF ReadTyped
  <2> QED
    BY <1>1, <1>2, <1>5, <2>1 DEF Still, OnceUpdated, NoTornReading
<1> QED
  BY <1>6, <1>7 DEF ReadInv

LEMMA CompareKeeps ==
  ASSUME ReadInv, CompareReadings
  PROVE  ReadInv'
<1>1. /\ rtc = "read" /\ Len(now) = Registers
      /\ chip' = chip /\ updating' = updating /\ passed' = passed /\ since' = since
  BY DEF CompareReadings
<1>2. ReadTyped /\ Still /\ OnceUpdated
  BY DEF ReadInv
<1>3. now \in Seq(Int) /\ now # <<>> /\ chip \in passed /\ since \in Nat
  BY <1>1, <1>2, ClockAssumption DEF ReadTyped
<1>4. PrefixOf(now, chip) => now = chip
  BY <1>1, <1>2, <1>3, WholePrefix DEF ReadTyped
<1>5. since = 0 => now = chip
  BY <1>1, <1>2, <1>4 DEF Still
<1>6. CASE SameTwice /\ rtc' = "done" /\ now' = now /\ lastRead' = lastRead
  <2>1. since <= 1 => now \in passed
    <3>1. since <= 1 => since \in {0, 1}
      BY <1>3
    <3> QED
      BY <1>1, <1>2, <1>3, <1>4, <1>5, <1>6, <3>1 DEF OnceUpdated, SameTwice
  <2>2. ReadTyped'
    BY <1>1, <1>2, <1>6 DEF ReadTyped
  <2> QED
    BY <1>1, <1>2, <1>6, <2>1, <2>2 DEF ReadInv, Still, OnceUpdated, NoTornReading
<1>7. CASE ~SameTwice /\ rtc' = "wait" /\ lastRead' = now /\ now' = <<>>
  <2>1. now' \in Seq(Int) /\ Len(now') = 0
    BY <1>7
  <2>2. PrefixOf(now', chip)
    BY <1>7, <2>1, ClockAssumption DEF PrefixOf
  <2>3. ReadTyped'
    BY <1>1, <1>2, <1>3, <1>7, <2>1, ClockAssumption DEF ReadTyped
  <2>4. Still' /\ OnceUpdated' /\ NoTornReading'
    BY <1>1, <1>2, <1>5, <1>7, <2>2 DEF Still, OnceUpdated, NoTornReading
  <2> QED
    BY <2>3, <2>4 DEF ReadInv
<1> QED
  BY <1>6, <1>7 DEF CompareReadings

(* rtc.cpp, for any number of registers and any values: what read() returns  *)
(* is what the chip held at one moment since it began, although an update    *)
(* may fall anywhere between its port accesses, as long as only one does.   *)
THEOREM ReadingIsNotTorn == ClockSpec => []NoTornReading
<1>1. ReadInv /\ [ClockNext]_clockVars => ReadInv'
  <2> SUFFICES ASSUME ReadInv, [ClockNext]_clockVars PROVE ReadInv'
    OBVIOUS
  <2>1. ASSUME UNCHANGED readVars PROVE ReadInv'
    <3>1. /\ chip' = chip /\ updating' = updating /\ rtc' = rtc /\ now' = now /\ lastRead' = lastRead
          /\ passed' = passed /\ since' = since
      BY <2>1 DEF readVars
    <3> QED
      BY <3>1 DEF ReadInv, ReadTyped, Still, OnceUpdated, NoTornReading, PrefixOf
  <2>2. CASE UNCHANGED clockVars
    BY <2>1, <2>2 DEF clockVars, readVars
  <2>3. ASSUME NEW y \in Year, NEW mon \in 1..12, NEW h \in Hour, NEW bcd \in BOOLEAN,
               NEW twelve \in BOOLEAN, NEW d \in 1..DaysIn(y, mon), ToDate(y, mon, d, h, bcd, twelve)
        PROVE  ReadInv'
    BY <2>1, <2>3 DEF ToDate
  <2> QED
    BY <2>2, <2>3, UpdatesKeep, ReadStepsKeep, RegisterKeeps, CompareKeeps DEF ClockNext
<1>2. ReadInv => NoTornReading
  BY DEF ReadInv
<1> QED
  BY ReadInit, <1>1, <1>2, PTL DEF ClockSpec

(***************************************************************************)
(* What read() returned becomes a date: the chip's encoding and the        *)
(* arithmetic of getEpoch and converterEpochToDate undo each other.        *)
(***************************************************************************)
(* A register that is at most 99 in BCD, and back.                          *)
LEMMA BinaryIs ==
  ASSUME NEW n \in 0..99, NEW bcd \in BOOLEAN
  PROVE  Binary(Encode(n, bcd), bcd) = n
  BY SMT DEF Binary, Encode

(* The year of two digits, in the century of RTC_CURRENT_YEAR or the next.  *)
LEMMA FullYearIs ==
  ASSUME NEW y \in CurrentYear..(CurrentYear + 99)
  PROVE  FullYear(y % 100) = y
  BY ClockAssumption, SMT DEF FullYear

(* The hour: below 24 in any format, noon and midnight exchanged.           *)
LEMMA HourIs ==
  ASSUME NEW h \in 0..23, NEW bcd \in BOOLEAN, NEW twelve \in BOOLEAN
  PROVE  BinaryHour(EncodeHour(h, bcd, twelve), bcd, twelve)
           = IF twelve /\ h \in {0, 12} THEN 12 - h ELSE h
<1>1. CASE twelve
  <2>1. CASE bcd
    BY <1>1, <2>1, SMT DEF BinaryHour, EncodeHour, Encode
  <2>2. CASE ~bcd
    BY <1>1, <2>2, SMT DEF BinaryHour, EncodeHour, Encode
  <2> QED BY <2>1, <2>2
<1>2. CASE ~twelve
  BY <1>2, SMT DEF BinaryHour, EncodeHour, Encode
<1> QED BY <1>1, <1>2

LEMMA JulianOfEpoch == JulianDay(1, 1, 1970) = 2440588
  BY SMT DEF JulianDay

(* The date for the days since 1970: years begin in March, the leap day is   *)
(* the last day of one.  century and inCentury split the year, day counts    *)
(* the days since March began.                                              *)
LEMMA DateIs ==
  ASSUME NEW y \in Nat, NEW mon \in 1..12, NEW d \in 1..DaysIn(y, mon)
  PROVE  Date(EpochDay(d, mon, y)) = <<y, mon, d>>
<1> DEFINE a == (14 - mon) \div 12
           yy == y + 4800 - a
           m == mon + 12 * a - 3
           c == yy \div 100
           u == yy % 100
           w == u \div 4
           day == d + (153 * m + 2) \div 5
           e == EpochDay(d, mon, y)
<1>1. a = IF mon <= 2 THEN 1 ELSE 0
  BY SMT
<1>2. m \in 0..11 /\ mon = (IF m <= 9 THEN m + 3 ELSE m - 9) /\ yy \in Nat
      /\ y = yy - 4800 + (IF m <= 9 THEN 0 ELSE 1)
  BY <1>1, SMT
<1>3. /\ d \in 1..31 /\ day \in 1..366
      /\ day = 366 => u % 4 = 3 /\ (u = 99 => c % 4 = 3)
  BY <1>1, SMT DEF DaysIn, Leap
<1>4. yy = 100 * c + u /\ u = 4 * w + (u % 4) /\ c = 4 * (c \div 4) + (c % 4)
      /\ yy \div 4 = 25 * c + w /\ yy \div 400 = c \div 4
      /\ c \in Int /\ u \in 0..99 /\ w \in 0..24 /\ c \div 4 \in Int /\ u % 4 \in 0..3 /\ c % 4 \in 0..3
  <2>1. yy \in Int
    BY <1>2
  <2> HIDE DEF yy
  <2>2. yy = 100 * c + u /\ c \in Int /\ u \in 0..99
    BY <2>1, SMT
  <2>3. yy \div 4 = 25 * c + w /\ yy \div 400 = c \div 4
    BY <2>1, SMT
  <2> HIDE DEF c, u
  <2>4. u = 4 * w + (u % 4) /\ c = 4 * (c \div 4) + (c % 4)
        /\ w \in 0..24 /\ c \div 4 \in Int /\ u % 4 \in 0..3 /\ c % 4 \in 0..3
    BY <2>2, SMT
  <2> QED BY <2>2, <2>3, <2>4
<1>5. e = day + 36524 * c + c \div 4 + 365 * u + w - 2472633
  BY <1>2, <1>4, JulianOfEpoch, SMT DEF EpochDay, JulianDay
<1> DEFINE a2 == (4 * e + 102032) \div 146097 + 15
           b2 == e + 2442113 + a2 - a2 \div 4
           y2 == (20 * b2 - 2442) \div 7305
           c2 == b2 - 365 * y2 - y2 \div 4
           m2 == (c2 * 1000) \div 30601
           d2 == c2 - m2 * 30 - (m2 * 601) \div 1000
<1>6. day \in Int /\ e \in Int
  BY <1>3, <1>4, <1>5
<1>7. Date(e) = IF m2 <= 13 THEN <<y2 - 4716, m2 - 1, d2>> ELSE <<y2 - 4715, m2 - 13, d2>>
  BY DEF Date
<1>8. m2 = m + 4 /\ d2 = d /\ y2 = yy - 84
  <2> HIDE DEF yy, c, u, w, day, e
  <2>1. a2 = c - 52
    BY <1>3, <1>4, <1>5, <1>6, SMT
  <2> HIDE DEF a2
  <2>2. b2 = day + 36525 * c + 365 * u + w - 30559
    BY <1>3, <1>4, <1>5, <1>6, <2>1, SMT
  <2> HIDE DEF b2
  <2>3. y2 = yy - 84
    BY <1>3, <1>4, <1>6, <2>2, SMT
  <2> HIDE DEF y2
  <2>4. c2 = day + 122
    BY <1>3, <1>4, <1>6, <2>2, <2>3, SMT
  <2> HIDE DEF c2
  <2>5. m2 = m + 4 /\ d2 = d
    BY <1>1, <1>2, <1>3, <2>4, SMT DEF day, DaysIn
  <2> QED BY <2>3, <2>5
<1> QED
  <2> HIDE DEF a, yy, m, c, u, w, day, a2, b2, y2, c2, m2, d2
  <2>1. CASE m <= 9
    BY <1>2, <1>7, <1>8, <2>1 DEF e
  <2>2. CASE ~(m <= 9)
    BY <1>2, <1>7, <1>8, <2>2 DEF e
  <2> QED BY <2>1, <2>2

(* What a TimeDescriptor shows.                                             *)
LEMMA ShownIs ==
  ASSUME NEW y \in Year, NEW mon \in 1..12, NEW h \in Hour, NEW bcd \in BOOLEAN,
         NEW twelve \in BOOLEAN, NEW d \in 1..DaysIn(y, mon), ToDate(y, mon, d, h, bcd, twelve)
  PROVE  DateSurvives' /\ HourSurvives'
<1> DEFINE years == FullYear(Binary(Encode(y % 100, bcd), bcd))
           months == Binary(Encode(mon, bcd), bcd)
           days == Binary(Encode(d, bcd), bcd)
           hours == BinaryHour(EncodeHour(h, bcd, twelve), bcd, twelve)
<1>1. y \in CurrentYear..(CurrentYear + 99) /\ y \in Nat /\ h \in 0..23 /\ CurrentYear \in Nat
  BY ClockAssumption
<1>2. years = y
  <2>1. y % 100 \in 0..99
    BY <1>1, SMT
  <2> QED BY <1>1, <2>1, BinaryIs, FullYearIs
<1>3. months = mon
  BY BinaryIs
<1>4. days = d
  <2>1. d \in 0..99
    BY DEF DaysIn
  <2> QED BY <2>1, BinaryIs
<1>5. hours = IF twelve /\ h \in {0, 12} THEN 12 - h ELSE h
  BY <1>1, HourIs
<1>6. shown' = [chip |-> <<y, mon, d>>, chipHour |-> h, twelve |-> twelve,
                date |-> Date(EpochDay(days, months, years) + hours \div 24), hour |-> hours % 24]
  BY DEF ToDate
<1> HIDE DEF years, months, days, hours
<1>7. hours \in 0..23
  BY <1>1, <1>5
<1>8. hours \div 24 = 0 /\ hours % 24 = hours
  BY <1>7, SMT
<1>9. EpochDay(d, mon, y) + 0 = EpochDay(d, mon, y)
  <2>1. d \in Int /\ mon \in Int /\ y \in Int
    BY <1>1 DEF DaysIn
  <2> QED BY <2>1, SMT DEF EpochDay, JulianDay
<1>10. Date(EpochDay(days, months, years) + hours \div 24) = <<y, mon, d>>
  BY <1>1, <1>2, <1>3, <1>4, <1>8, <1>9, DateIs
<1>11. DateSurvives'
  BY <1>6, <1>10 DEF DateSurvives
<1>12. shown'.hour = hours /\ shown'.twelve = twelve /\ shown'.chipHour = h
  BY <1>6, <1>8
<1> QED
  BY <1>5, <1>11, <1>12 DEF HourSurvives

(* rtc.cpp and time.cpp together, for every date of the century that begins  *)
(* with RTC_CURRENT_YEAR: no torn reading, the date of the chip survives BCD *)
(* and the epoch, and so does its hour but for noon and midnight of a twelve *)
(* hour chip.                                                               *)
THEOREM TimeAlwaysSurvives == ClockSpec => []TimeSurvives
<1>1. ClockInit => DateSurvives /\ HourSurvives
  BY DEF ClockInit, DateSurvives, HourSurvives
<1>2. DateSurvives /\ HourSurvives /\ [ClockNext]_clockVars => DateSurvives' /\ HourSurvives'
  <2> SUFFICES ASSUME DateSurvives, HourSurvives, [ClockNext]_clockVars
               PROVE  DateSurvives' /\ HourSurvives'
    OBVIOUS
  <2>1. ASSUME UNCHANGED shown PROVE DateSurvives' /\ HourSurvives'
    BY <2>1 DEF DateSurvives, HourSurvives
  <2>2. UNCHANGED shown \/ \E y \in Year, mon \in 1..12, h \in Hour, bcd, twelve \in BOOLEAN :
                             \E d \in 1..DaysIn(y, mon) : ToDate(y, mon, d, h, bcd, twelve)
    BY DEF ClockNext, UpdateBegins, UpdateEnds, ReadBegins, UpdateOver, CompareReadings,
           getRegister, clockVars
  <2> QED
    BY <2>1, <2>2, ShownIs
<1> QED
  BY <1>1, <1>2, ReadingIsNotTorn, PTL DEF ClockSpec, TimeSurvives

(***************************************************************************)
(* Graphics.  Which pixels share a cell of the buffer, and which text cells  *)
(* the nine by nine pixels of Font::Draw reach.                              *)
(***************************************************************************)
LEMMA QuotientIs ==
  ASSUME NEW a \in Nat, NEW b \in Nat \ {0}, NEW q \in Nat, NEW r \in 0..(b - 1), a = b * q + r
  PROVE  a \div b = q /\ a % b = r
<1> DEFINE p == a \div b  s == a % b
<1>1. p \in Int /\ s \in Int /\ 0 <= s /\ s < b /\ a = b * p + s
  BY SMT
<1> HIDE DEF p, s
<1>2. b * (p - q) = r - s
  BY <1>1
<1>3. p - q >= 1 => b * (p - q) >= b
  BY <1>1
<1>4. p - q <= -1 => b * (p - q) <= -b
  BY <1>1
<1>5. p = q /\ r = s
  BY <1>1, <1>2, <1>3, <1>4
<1> QED
  BY <1>5 DEF p, s

(* A screen side is a whole number of characters.                           *)
LEMMA WholeCells ==
  ASSUME NEW w \in Nat, NEW f \in Nat \ {0}, w % f = 0
  PROVE  w \div f \in Nat /\ w = f * (w \div f)
<1> DEFINE n == w \div f  r == w % f
<1>1. n \in Int /\ r = 0 /\ w = f * n + r
  BY SMT
<1> HIDE DEF n, r
<1>2. n < 0 => f * n <= -f
  BY <1>1
<1>3. n \in Nat /\ w = f * n
  BY <1>1, <1>2
<1> QED
  BY <1>3 DEF n

TextColumns == ScreenWidth \div FontWidth
TextRows == ScreenHeight \div FontHeight

LEMMA ScreenSizes ==
  /\ TextColumns \in Nat /\ ScreenWidth = FontWidth * TextColumns /\ TextColumns >= 2
  /\ TextRows \in Nat /\ ScreenHeight = FontHeight * TextRows
  /\ TextCells = (0..(TextColumns - 1)) \X (0..(TextRows - 1))
<1>1. /\ ScreenWidth \in Nat /\ FontWidth \in Nat \ {0} /\ ScreenWidth % FontWidth = 0
      /\ ScreenHeight \in Nat /\ FontHeight \in Nat \ {0} /\ ScreenHeight % FontHeight = 0
      /\ ScreenWidth > FontWidth
  BY GraphicsAssumption
<1>2. TextColumns \in Nat /\ ScreenWidth = FontWidth * TextColumns
  BY <1>1, WholeCells DEF TextColumns
<1>3. TextRows \in Nat /\ ScreenHeight = FontHeight * TextRows
  BY <1>1, WholeCells DEF TextRows
<1>4. TextColumns >= 2
  <2>1. TextColumns \in {0, 1} => FontWidth * TextColumns <= FontWidth
    BY <1>1
  <2> QED
    BY <1>1, <1>2, <2>1
<1>5. TextCells = (0..(TextColumns - 1)) \X (0..(TextRows - 1))
  BY DEF TextCells, TextColumns, TextRows
<1> QED
  BY <1>2, <1>3, <1>4, <1>5

(* Characters side by side: c*f .. c*f + f-1 meets t*f .. t*f + f only if c   *)
(* is t or the next one.                                                    *)
LEMMA NextTo ==
  ASSUME NEW f \in Nat \ {0}, NEW c \in Nat, NEW t \in Nat, NEW k \in 0..(f - 1),
         c * f + k >= t * f, c * f + k <= t * f + f
  PROVE  c = t \/ c = t + 1
<1>1. c < t => c * f + f <= t * f
  <2> SUFFICES ASSUME c < t PROVE c * f + f <= t * f
    OBVIOUS
  <2>1. t - c - 1 \in Nat
    OBVIOUS
  <2>2. (t - c - 1) * f >= 0
    BY <2>1
  <2> QED
    BY <2>2
<1>2. c > t + 1 => c * f >= t * f + f + f
  <2> SUFFICES ASSUME c > t + 1 PROVE c * f >= t * f + f + f
    OBVIOUS
  <2>1. c - t - 2 \in Nat
    OBVIOUS
  <2>2. (c - t - 2) * f >= 0
    BY <2>1
  <2> QED
    BY <2>2
<1> DEFINE x == c * f  y == t * f
<1>3. x \in Int /\ y \in Int /\ x + k >= y /\ x + k <= y + f /\ (c < t => x + f <= y)
      /\ (c > t + 1 => x >= y + f + f)
  BY <1>1, <1>2
<1> HIDE DEF x, y
<1> QED
  BY <1>3

(* The pixels of a character are on the screen.                             *)
LEMMA OnScreen ==
  ASSUME NEW c \in TextCells, NEW fx \in 0..(FontWidth - 1), NEW fy \in 0..(FontHeight - 1)
  PROVE  /\ c[1] \in Nat /\ c[2] \in Nat
         /\ c[1] * FontWidth + fx \in 0..(ScreenWidth - 1)
         /\ c[2] * FontHeight + fy \in 0..(ScreenHeight - 1)
<1>1. c[1] \in 0..(TextColumns - 1) /\ c[2] \in 0..(TextRows - 1)
  BY ScreenSizes
<1>2. \A i, n, f \in Nat : \A k \in 0..(f - 1) : i < n => i * f + k \in 0..(f * n - 1)
  <2> SUFFICES ASSUME NEW i \in Nat, NEW n \in Nat, NEW f \in Nat, NEW k \in 0..(f - 1), i < n
               PROVE  i * f + k \in 0..(f * n - 1)
    OBVIOUS
  <2>1. n - i - 1 \in Nat
    OBVIOUS
  <2>2. (n - i - 1) * f >= 0 /\ i * f >= 0
    BY <2>1
  <2> QED
    BY <2>2
<1>3. c[1] \in Nat /\ c[1] < TextColumns /\ TextColumns \in Nat /\ FontWidth \in Nat
  BY <1>1, ScreenSizes, GraphicsAssumption
<1>4. c[2] \in Nat /\ c[2] < TextRows /\ TextRows \in Nat /\ FontHeight \in Nat
  BY <1>1, ScreenSizes, GraphicsAssumption
<1>5. c[1] * FontWidth + fx \in 0..(FontWidth * TextColumns - 1)
  BY <1>2, <1>3
<1>6. c[2] * FontHeight + fy \in 0..(FontHeight * TextRows - 1)
  BY <1>2, <1>4
<1> QED
  BY <1>3, <1>4, <1>5, <1>6, ScreenSizes

(* Two pixels in one cell: they are the same, or one is behind the end of a  *)
(* line without padding and the other begins the next line.                  *)
LEMMA SameCell ==
  ASSUME NEW x \in 0..ScreenWidth, NEW y \in Nat, NEW u \in 0..(ScreenWidth - 1), NEW v \in Nat,
         y * Pitch + x = v * Pitch + u
  PROVE  (x = u /\ y = v) \/ (Pitch = ScreenWidth /\ x = ScreenWidth /\ u = 0 /\ v = y + 1)
<1>1. Pitch \in Nat /\ ScreenWidth \in Nat /\ Pitch >= ScreenWidth /\ ScreenWidth > 0
  BY GraphicsAssumption
<1>2. (v - y) * Pitch = x - u /\ v - y \in Int
  BY <1>1
<1>3. v - y >= 2 => (v - y) * Pitch >= Pitch + Pitch
  <2> SUFFICES ASSUME v - y >= 2 PROVE (v - y) * Pitch >= Pitch + Pitch
    OBVIOUS
  <2>1. (v - y - 2) * Pitch >= 0
    BY <1>1
  <2> QED
    BY <1>1, <2>1
<1>4. v - y <= -1 => (v - y) * Pitch <= -Pitch
  <2> SUFFICES ASSUME v - y <= -1 PROVE (v - y) * Pitch <= -Pitch
    OBVIOUS
  <2>1. (y - v - 1) * Pitch >= 0
    BY <1>1
  <2> QED
    BY <1>1, <2>1
<1>5. v - y = 0 \/ v - y = 1
  <2> DEFINE z == (v - y) * Pitch
  <2>1. z = x - u /\ (v - y >= 2 => z >= Pitch + Pitch) /\ (v - y <= -1 => z <= -Pitch)
    BY <1>2, <1>3, <1>4
  <2> HIDE DEF z
  <2> QED
    BY <1>1, <2>1
<1>6. CASE v - y = 0
  BY <1>1, <1>2, <1>6
<1>7. CASE v - y = 1
  <2>1. (v - y) * Pitch = Pitch
    BY <1>1, <1>7
  <2> QED
    BY <1>1, <1>2, <1>7, <2>1
<1> QED
  BY <1>5, <1>6, <1>7

(* The rectangle that Draw goes through for text cell t.                    *)
Square(t) == (t[1] * FontWidth .. (t[1] * FontWidth + FontWidth))
               \X (t[2] * FontHeight .. (t[2] * FontHeight + FontHeight))
PixelOf(c, fx, fy) == <<c[1] * FontWidth + fx, c[2] * FontHeight + fy>>

(* A pixel of that rectangle that falls into a cell of character c is that    *)
(* pixel of c, next to t, or it has wrapped into one of the first column.     *)
LEMMA Reaches ==
  ASSUME NEW t \in TextCells, NEW c \in TextCells,
         NEW fx \in 0..(FontWidth - 1), NEW fy \in 0..(FontHeight - 1),
         NEW p \in Square(t), Clipped(p), CellOf(p) = CellOf(PixelOf(c, fx, fy))
  PROVE  /\ c = t \/ c \in DrawnOver(t)
         /\ c = t => p = PixelOf(c, fx, fy)
<1> DEFINE W == FontWidth  H == FontHeight
<1>1. /\ W \in Nat \ {0} /\ H \in Nat /\ H >= 2 /\ Pitch \in Nat /\ ScreenWidth \in Nat
  BY GraphicsAssumption
<1>2. t[1] \in 0..(TextColumns - 1) /\ t[2] \in 0..(TextRows - 1) /\ t = <<t[1], t[2]>> /\ c = <<c[1], c[2]>>
  BY ScreenSizes
<1>3. t[1] \in Nat /\ t[2] \in Nat /\ c[1] \in Nat /\ c[2] \in Nat
  BY <1>2, OnScreen, ScreenSizes
<1> DEFINE a == t[1] * W  b == t[2] * H  u == c[1] * W + fx  v == c[2] * H + fy
<1>4. a \in Nat /\ b \in Nat /\ u \in 0..(ScreenWidth - 1) /\ v \in Nat
  <2>1. a \in Nat /\ b \in Nat
    BY <1>1, <1>3
  <2>2. u \in 0..(ScreenWidth - 1) /\ v \in 0..(ScreenHeight - 1)
    BY OnScreen
  <2>3. ScreenHeight \in Nat
    BY GraphicsAssumption
  <2> HIDE DEF a, b, u, v
  <2> QED
    BY <2>1, <2>2, <2>3
<1>5. p[1] \in a..(a + W) /\ p[2] \in b..(b + H) /\ p = <<p[1], p[2]>>
  BY DEF Square
<1>6. p[2] * Pitch + p[1] = v * Pitch + u
  BY DEF CellOf, PixelOf
<1>7. p[1] <= ScreenWidth
  BY DEF Clipped
<1>8. PixelOf(c, fx, fy) = <<u, v>>
  BY DEF PixelOf
<1> DEFINE x == p[1]  y == p[2]
<1>9. x \in 0..ScreenWidth /\ y \in Nat /\ x \in Nat
  <2> HIDE DEF a, b
  <2> QED
    BY <1>1, <1>4, <1>5, <1>7
<1>10. (x = u /\ y = v) \/ (Pitch = ScreenWidth /\ x = ScreenWidth /\ u = 0 /\ v = y + 1)
  <2> HIDE DEF u, v, x, y
  <2>1. y * Pitch + x = v * Pitch + u
    BY <1>6 DEF x, y
  <2> QED
    BY <1>4, <1>9, <2>1, SameCell
<1>11. CASE x = u /\ y = v
  <2>1. c[1] = t[1] \/ c[1] = t[1] + 1
    <3>1. c[1] * W + fx >= t[1] * W /\ c[1] * W + fx <= t[1] * W + W
      BY <1>4, <1>5, <1>11
    <3> QED
      BY <1>1, <1>3, <3>1, NextTo
  <2>2. c[2] = t[2] \/ c[2] = t[2] + 1
    <3>1. c[2] * H + fy >= t[2] * H /\ c[2] * H + fy <= t[2] * H + H
      BY <1>1, <1>4, <1>5, <1>11
    <3> QED
      BY <1>1, <1>3, <3>1, NextTo
  <2>3. c = t \/ c \in {<<t[1] + 1, t[2]>>, <<t[1], t[2] + 1>>, <<t[1] + 1, t[2] + 1>>}
    BY <1>2, <2>1, <2>2
  <2>4. p = PixelOf(c, fx, fy)
    BY <1>5, <1>8, <1>11
  <2> QED
    BY <2>3, <2>4 DEF DrawnOver
<1>12. CASE Pitch = ScreenWidth /\ x = ScreenWidth /\ u = 0 /\ v = y + 1
  <2>1. t[1] = TextColumns - 1
    <3>1. ScreenWidth = W * TextColumns /\ TextColumns \in Nat
      BY ScreenSizes
    <3>2. W * TextColumns <= t[1] * W + W
      BY <1>1, <1>3, <1>5, <1>12, <3>1
    <3>3. t[1] + 1 < TextColumns => t[1] * W + W < W * TextColumns
      <4> SUFFICES ASSUME t[1] + 1 < TextColumns PROVE t[1] * W + W < W * TextColumns
        OBVIOUS
      <4> DEFINE n == t[1]  k == TextColumns - n - 2
      <4>1. k \in Nat /\ n \in Nat /\ TextColumns = n + k + 2
        BY <1>3, <3>1
      <4> HIDE DEF n, k, W
      <4>2. k * W >= 0 /\ W > 0
        BY <1>1, <4>1
      <4>3. W * TextColumns = n * W + k * W + W + W
        BY <1>1, <4>1
      <4>4. n * W + W < W * TextColumns
        <5> DEFINE nw == n * W  kw == k * W  wc == W * TextColumns
        <5>1. kw >= 0 /\ wc = nw + kw + W + W /\ nw \in Int /\ kw \in Int
          BY <1>1, <4>1, <4>2, <4>3
        <5> HIDE DEF nw, kw, wc
        <5>2. nw + W < wc
          BY <1>1, <4>2, <5>1
        <5> QED
          BY <5>2 DEF nw, wc
      <4> QED
        BY <4>4 DEF n
    <3>4. ~(t[1] + 1 < TextColumns)
      <4> DEFINE nw == t[1] * W  wc == W * TextColumns
      <4>1. nw \in Int /\ wc \in Int /\ wc <= nw + W /\ (t[1] + 1 < TextColumns => nw + W < wc)
        BY <1>1, <1>3, <3>1, <3>2, <3>3
      <4> HIDE DEF nw, wc
      <4> QED
        BY <1>1, <4>1
    <3> QED
      BY <1>2, <1>3, <3>1, <3>4
  <2>2. c[1] = 0
    <3>1. c[1] >= 1 => c[1] * W >= W
      BY <1>1, <1>3
    <3>2. fx \in Nat
      BY <1>1
    <3> QED
      BY <1>1, <1>3, <1>12, <3>1, <3>2
  <2>3. c[2] = t[2] \/ c[2] = t[2] + 1
    <3> DEFINE m == c[2]  n == t[2]
    <3>1. m * H + fy >= n * H + 1 /\ m * H + fy <= n * H + H + 1 /\ fy \in Nat /\ fy < H
      BY <1>1, <1>3, <1>5, <1>12
    <3>2. m >= n + 2 => m * H >= n * H + H + H
      <4> SUFFICES ASSUME m >= n + 2 PROVE m * H >= n * H + H + H
        OBVIOUS
      <4>1. (m - n - 2) * H >= 0
        BY <1>1, <1>3
      <4> QED
        BY <1>1, <1>3, <4>1
    <3>3. m < n => m * H + H <= n * H
      <4> SUFFICES ASSUME m < n PROVE m * H + H <= n * H
        OBVIOUS
      <4>1. (n - m - 1) * H >= 0
        BY <1>1, <1>3
      <4> QED
        BY <1>1, <1>3, <4>1
    <3> DEFINE mh == m * H  nh == n * H
    <3>4. /\ mh \in Int /\ nh \in Int /\ mh + fy >= nh + 1 /\ mh + fy <= nh + H + 1
          /\ (m >= n + 2 => mh >= nh + H + H) /\ (m < n => mh + H <= nh)
      BY <1>1, <1>3, <3>1, <3>2, <3>3
    <3> HIDE DEF mh, nh
    <3> QED
      BY <1>1, <1>3, <3>1, <3>4
  <2>4. c \in DrawnOver(t)
    BY <1>2, <1>12, <2>1, <2>2, <2>3 DEF DrawnOver, TextColumns
  <2>5. c # t
    <3>1. TextColumns >= 2 /\ TextColumns \in Nat
      BY ScreenSizes
    <3> QED
      BY <2>1, <2>2, <3>1
  <2> QED
    BY <2>4, <2>5
<1> QED
  BY <1>10, <1>11, <1>12

(* A pixel on the screen is in the buffer, in its own line.                 *)
LEMMA InBuffer ==
  ASSUME NEW u \in 0..(ScreenWidth - 1), NEW v \in 0..(ScreenHeight - 1)
  PROVE  /\ v * Pitch + u \in BufferCells /\ v * Pitch + u \in ReachedCells
         /\ (v * Pitch + u) \div Pitch = v
<1>1. /\ Pitch \in Nat \ {0} /\ ScreenWidth \in Nat /\ ScreenHeight \in Nat /\ ScreenWidth <= Pitch
      /\ u \in Nat /\ v \in Nat /\ u < Pitch /\ v < ScreenHeight
  BY GraphicsAssumption
<1>2. v * Pitch + u \in Nat
  BY <1>1
<1>3. (v * Pitch + u) \div Pitch = v
  <2> DEFINE z == v * Pitch + u
  <2>1. z = Pitch * v + u /\ u \in 0..(Pitch - 1) /\ z \in Nat
    BY <1>1
  <2> HIDE DEF z
  <2>2. z \div Pitch = v
    BY <1>1, <2>1, QuotientIs
  <2> QED
    BY <2>2 DEF z
<1>4. v * Pitch + Pitch <= Pitch * ScreenHeight
  <2> DEFINE k == ScreenHeight - v - 1
  <2>1. k \in Nat /\ ScreenHeight = v + k + 1
    BY <1>1
  <2> HIDE DEF k
  <2>2. k * Pitch >= 0 /\ Pitch * ScreenHeight = v * Pitch + k * Pitch + Pitch
    BY <1>1, <2>1
  <2> QED
    BY <1>1, <2>1, <2>2
<1>5. v * Pitch + u < Pitch * ScreenHeight
  <2> DEFINE a == v * Pitch  b == Pitch * ScreenHeight
  <2>1. a \in Int /\ b \in Int /\ a + Pitch <= b
    BY <1>1, <1>4
  <2> HIDE DEF a, b
  <2>2. a + u < b
    BY <1>1, <2>1
  <2> QED
    BY <2>2 DEF a, b
<1> DEFINE z == v * Pitch + u  b == Pitch * ScreenHeight
<1>6. z \in Nat /\ b \in Nat /\ z < b
  BY <1>1, <1>2, <1>5
<1> HIDE DEF z, b
<1>7. z \in 0..(b - 1) /\ z \in 0..(b + ScreenWidth)
  BY <1>1, <1>6
<1> QED
  BY <1>3, <1>7 DEF BufferCells, ReachedCells, z, b

(* So a pixel that passes pixel()'s comparison and leaves its line lies in   *)
(* the column or the row just behind the screen.                             *)
LEMMA StrayAtEdge ==
  ASSUME NEW p \in Nat \X Nat, Clipped(p), CellOf(p) \notin BufferCells \/ CellOf(p) \div Pitch # p[2]
  PROVE  p[1] = ScreenWidth \/ p[2] = ScreenHeight
<1> SUFFICES ASSUME p[1] # ScreenWidth, p[2] # ScreenHeight PROVE FALSE
  OBVIOUS
<1>1. p[1] \in 0..(ScreenWidth - 1) /\ p[2] \in 0..(ScreenHeight - 1)
  BY GraphicsAssumption DEF Clipped
<1> QED
  BY <1>1, InBuffer DEF CellOf

LEMMA PaintStray ==
  ASSUME NEW shape, shape \subseteq Nat \X Nat, StrayOnlyAtEdge,
         stray \in BOOLEAN, edge \in BOOLEAN,
         stray' = (stray \/ \E p \in shape : Clipped(p) /\ (CellOf(p) \notin BufferCells
                                                            \/ CellOf(p) \div Pitch # p[2])),
         edge' = (edge \/ \E p \in shape : p[1] = ScreenWidth \/ p[2] = ScreenHeight)
  PROVE  StrayOnlyAtEdge' /\ stray' \in BOOLEAN /\ edge' \in BOOLEAN
<1>1. stray' \in BOOLEAN /\ edge' \in BOOLEAN
  OBVIOUS
<1>2. ASSUME stray' PROVE edge'
  <2>1. CASE stray
    BY <2>1 DEF StrayOnlyAtEdge
  <2>2. CASE ~stray
    <3>1. PICK p \in shape : Clipped(p) /\ (CellOf(p) \notin BufferCells \/ CellOf(p) \div Pitch # p[2])
      BY <1>2, <2>2
    <3>2. p[1] = ScreenWidth \/ p[2] = ScreenHeight
      BY <3>1, StrayAtEdge
    <3> QED
      BY <3>2
  <2> QED
    BY <2>1, <2>2
<1> QED
  BY <1>1, <1>2 DEF StrayOnlyAtEdge

DrawTyped ==
  /\ DOMAIN intact = TextCells /\ stray \in BOOLEAN /\ edge \in BOOLEAN
DrawInv == DrawTyped /\ DrawingContained

(* The cell of a pixel of a character, and what it must hold.               *)
HoldsGlyph(buffer, c, g) ==
  \A fx \in 0..(FontWidth - 1), fy \in 0..(FontHeight - 1) :
    buffer[CellOf(PixelOf(c, fx, fy))] = IF <<fx, fy>> \in g THEN Fore ELSE Back

LEMMA IntactIs ==
  GlyphsIntact <=> \A c \in TextCells : intact[c] # NoGlyph => HoldsGlyph(backbuffer, c, intact[c])
  BY DEF GlyphsIntact, HoldsGlyph, PixelOf

LEMMA CellReached ==
  ASSUME NEW c \in TextCells, NEW fx \in 0..(FontWidth - 1), NEW fy \in 0..(FontHeight - 1)
  PROVE  CellOf(PixelOf(c, fx, fy)) \in ReachedCells
<1> DEFINE u == c[1] * FontWidth + fx  v == c[2] * FontHeight + fy
<1>1. u \in 0..(ScreenWidth - 1) /\ v \in 0..(ScreenHeight - 1)
  BY OnScreen
<1> HIDE DEF u, v
<1>2. v * Pitch + u \in ReachedCells
  BY <1>1, InBuffer
<1> QED
  BY <1>2 DEF CellOf, PixelOf, u, v

LEMMA SquareNat ==
  ASSUME NEW t \in TextCells
  PROVE  Square(t) \subseteq Nat \X Nat
<1>1. t[1] \in Nat /\ t[2] \in Nat /\ FontWidth \in Nat /\ FontHeight \in Nat
  BY ScreenSizes, GraphicsAssumption
<1>2. t[1] * FontWidth \in Nat /\ t[2] * FontHeight \in Nat
  BY <1>1
<1> DEFINE a == t[1] * FontWidth  b == t[2] * FontHeight
<1> HIDE DEF a, b
<1>3. a \in Nat /\ b \in Nat
  BY <1>2 DEF a, b
<1>4. a..(a + FontWidth) \subseteq Nat /\ b..(b + FontHeight) \subseteq Nat
  BY <1>1, <1>3
<1> QED
  BY <1>4 DEF Square, a, b

(* Font::Draw with a background.                                            *)
LEMMA DrawBackKeeps ==
  ASSUME DrawInv, NEW g \in Glyph, NEW t \in TextCells, DrawBack(g, t)
  PROVE  DrawInv'
<1> DEFINE x == t[1] * FontWidth  y == t[2] * FontHeight
           Shade(p) == IF InGlyph(g, p[1] - x, p[2] - y) THEN Fore ELSE Back
           hit(k) == {p \in Square(t) : Clipped(p) /\ CellOf(p) = k}
<1>1. /\ backbuffer' = [k \in ReachedCells |->
           IF hit(k) = {} THEN backbuffer[k] ELSE Shade(CHOOSE p \in hit(k) : TRUE)]
      /\ intact' = [c \in TextCells |-> IF c = t THEN g
                                        ELSE IF c \in DrawnOver(t) THEN NoGlyph ELSE intact[c]]
  BY DEF DrawBack, Paint, Square
<1>2. StrayOnlyAtEdge' /\ stray' \in BOOLEAN /\ edge' \in BOOLEAN
  <2>1. /\ stray' = (stray \/ \E p \in Square(t) : Clipped(p) /\ (CellOf(p) \notin BufferCells
                                                            \/ CellOf(p) \div Pitch # p[2]))
        /\ edge' = (edge \/ \E p \in Square(t) : p[1] = ScreenWidth \/ p[2] = ScreenHeight)
    BY DEF DrawBack, Paint, Square
  <2>2. StrayOnlyAtEdge /\ stray \in BOOLEAN /\ edge \in BOOLEAN
    BY DEF DrawInv, DrawTyped, DrawingContained
  <2> QED
    BY <2>1, <2>2, SquareNat, PaintStray
<1>3. ASSUME NEW c \in TextCells, intact'[c] # NoGlyph,
             NEW fx \in 0..(FontWidth - 1), NEW fy \in 0..(FontHeight - 1)
      PROVE  backbuffer'[CellOf(PixelOf(c, fx, fy))] = IF <<fx, fy>> \in intact'[c] THEN Fore ELSE Back
  <2> DEFINE q == PixelOf(c, fx, fy)  k == CellOf(q)
  <2>1. k \in ReachedCells
    BY CellReached
  <2>2. \A p \in hit(k) : (c = t \/ c \in DrawnOver(t)) /\ (c = t => p = q)
    BY Reaches
  <2>3. CASE c = t
    <3>1. q \in hit(k)
      <4>1. x + fx \in x..(x + FontWidth) /\ y + fy \in y..(y + FontHeight)
        <5>1. x \in Nat /\ y \in Nat /\ FontWidth \in Nat /\ FontHeight \in Nat
          <6>1. t[1] \in Nat /\ t[2] \in Nat /\ FontWidth \in Nat /\ FontHeight \in Nat
            BY ScreenSizes, GraphicsAssumption
          <6> QED
            BY <6>1
        <5> HIDE DEF x, y
        <5> QED
          BY <5>1
      <4>2. q = <<x + fx, y + fy>>
        BY <2>3 DEF PixelOf
      <4>3. x + fx <= ScreenWidth /\ y + fy <= ScreenHeight
        <5>1. x + fx \in 0..(ScreenWidth - 1) /\ y + fy \in 0..(ScreenHeight - 1)
          BY OnScreen
        <5>2. ScreenWidth \in Nat /\ ScreenHeight \in Nat
          BY GraphicsAssumption
        <5> DEFINE m == x + fx  n == y + fy
        <5> HIDE DEF m, n
        <5>3. m <= ScreenWidth /\ n <= ScreenHeight
          BY <5>1, <5>2 DEF m, n
        <5> QED
          BY <5>3 DEF m, n
      <4>4. q \in Square(t)
        BY <4>1, <4>2 DEF Square
      <4>5. Clipped(q)
        BY <4>2, <4>3 DEF Clipped
      <4> QED
        BY <4>4, <4>5
    <3>2. hit(k) = {q}
      BY <2>2, <2>3, <3>1
    <3>3. backbuffer'[k] = Shade(q)
      <4> HIDE DEF q, k, hit, Shade
      <4>1. hit(k) # {} /\ (CHOOSE p \in hit(k) : TRUE) = q
        BY <3>2
      <4> QED
        BY <1>1, <2>1, <4>1
    <3>4. q[1] - x = fx /\ q[2] - y = fy /\ fx # FontWidth /\ fy # FontHeight
      <4>1. x \in Int /\ y \in Int
        <5>1. t[1] \in Nat /\ t[2] \in Nat /\ FontWidth \in Nat /\ FontHeight \in Nat
          BY ScreenSizes, GraphicsAssumption
        <5> QED
          BY <5>1
      <4>2. q[1] = x + fx /\ q[2] = y + fy
        BY <2>3 DEF PixelOf
      <4> HIDE DEF q, x, y
      <4> QED
        BY <4>1, <4>2, GraphicsAssumption
    <3>5. Shade(q) = IF <<fx, fy>> \in g THEN Fore ELSE Back
      BY <3>4 DEF InGlyph
    <3>6. intact'[c] = g
      BY <1>1, <2>3
    <3> QED
      BY <3>3, <3>5, <3>6
  <2>4. CASE c # t
    <3>1. c \notin DrawnOver(t) /\ intact'[c] = intact[c]
      BY <1>1, <1>3, <2>4
    <3>2. hit(k) = {}
      BY <2>2, <2>4, <3>1
    <3>3. backbuffer'[k] = backbuffer[k]
      <4> HIDE DEF k, hit, Shade
      <4> QED
        BY <1>1, <2>1, <3>2
    <3>4. HoldsGlyph(backbuffer, c, intact[c])
      BY <1>3, <3>1, IntactIs DEF DrawInv, DrawingContained
    <3> QED
      BY <3>1, <3>3, <3>4 DEF HoldsGlyph
  <2> QED
    BY <2>3, <2>4
<1>4. GlyphsIntact'
  BY <1>3 DEF GlyphsIntact, PixelOf
<1>5. DOMAIN intact' = TextCells
  BY <1>1
<1> QED
  BY <1>2, <1>4, <1>5 DEF DrawInv, DrawTyped, DrawingContained

(* Font::Draw without one: the pixels of the character itself, none of them  *)
(* in the extra row and column.                                             *)
LEMMA DrawForeKeeps ==
  ASSUME DrawInv, NEW g \in Glyph, NEW t \in TextCells, DrawFore(g, t)
  PROVE  DrawInv'
<1> DEFINE x == t[1] * FontWidth  y == t[2] * FontHeight
           shape == {p \in Square(t) : InGlyph(g, p[1] - x, p[2] - y)}
           hit(k) == {p \in shape : Clipped(p) /\ CellOf(p) = k}
<1>1. /\ backbuffer' = [k \in ReachedCells |->
           IF hit(k) = {} THEN backbuffer[k] ELSE Plain(CHOOSE p \in hit(k) : TRUE)]
      /\ intact' = [intact EXCEPT ![t] = NoGlyph]
  BY DEF DrawFore, Paint, Square
<1>2. StrayOnlyAtEdge' /\ stray' \in BOOLEAN /\ edge' \in BOOLEAN
  <2>1. /\ stray' = (stray \/ \E p \in shape : Clipped(p) /\ (CellOf(p) \notin BufferCells
                                                            \/ CellOf(p) \div Pitch # p[2]))
        /\ edge' = (edge \/ \E p \in shape : p[1] = ScreenWidth \/ p[2] = ScreenHeight)
    BY DEF DrawFore, Paint, Square
  <2>2. StrayOnlyAtEdge /\ stray \in BOOLEAN /\ edge \in BOOLEAN
    BY DEF DrawInv, DrawTyped, DrawingContained
  <2>3. shape \subseteq Nat \X Nat
    BY SquareNat
  <2> HIDE DEF shape
  <2> QED
    BY <2>1, <2>2, <2>3, PaintStray
<1>3. ASSUME NEW c \in TextCells, c # t,
             NEW fx \in 0..(FontWidth - 1), NEW fy \in 0..(FontHeight - 1)
      PROVE  hit(CellOf(PixelOf(c, fx, fy))) = {}
  <2> SUFFICES ASSUME NEW p \in shape, Clipped(p), CellOf(p) = CellOf(PixelOf(c, fx, fy)) PROVE FALSE
    OBVIOUS
  <2>1. /\ t[1] \in Nat /\ t[2] \in Nat /\ FontWidth \in Nat \ {0} /\ FontHeight \in Nat \ {0}
        /\ c[1] \in Nat /\ c[2] \in Nat /\ c = <<c[1], c[2]>> /\ t = <<t[1], t[2]>>
    BY ScreenSizes, GraphicsAssumption
  <2>2. x \in Nat /\ y \in Nat
    BY <2>1
  <2> DEFINE i == p[1] - x  j == p[2] - y
  <2>3. /\ p = <<p[1], p[2]>> /\ p[1] \in x..(x + FontWidth) /\ p[2] \in y..(y + FontHeight)
        /\ i # FontWidth /\ j # FontHeight
    BY DEF Square, InGlyph
  <2>4. i \in 0..(FontWidth - 1) /\ j \in 0..(FontHeight - 1) /\ p[1] = x + i /\ p[2] = y + j
    <3> HIDE DEF x, y
    <3> QED
      BY <2>1, <2>2, <2>3
  <2> HIDE DEF i, j
  <2> DEFINE u == c[1] * FontWidth + fx  v == c[2] * FontHeight + fy
  <2>5. /\ t[1] * FontWidth + i \in 0..(ScreenWidth - 1) /\ t[2] * FontHeight + j \in 0..(ScreenHeight - 1)
        /\ u \in 0..(ScreenWidth - 1) /\ v \in 0..(ScreenHeight - 1)
    BY <2>4, OnScreen
  <2>6. p[1] = u /\ p[2] = v
    <3> DEFINE a == p[1]  b == p[2]
    <3>1. a \in 0..(ScreenWidth - 1) /\ b \in 0..(ScreenHeight - 1)
      BY <2>4, <2>5
    <3>2. b * Pitch + a = v * Pitch + u
      BY DEF CellOf, PixelOf
    <3>3. ScreenWidth \in Nat /\ ScreenHeight \in Nat
      BY GraphicsAssumption
    <3> HIDE DEF a, b, u, v
    <3>4. a \in 0..ScreenWidth /\ b \in Nat /\ v \in Nat /\ a # ScreenWidth
      BY <2>5, <3>1, <3>3
    <3>5. a = u /\ b = v
      BY <2>5, <3>2, <3>4, SameCell
    <3> QED
      BY <3>5 DEF a, b
  <2>7. c[1] = t[1] /\ c[2] = t[2]
    <3>1. \A m, n \in Nat, f \in Nat \ {0} : \A k, l \in 0..(f - 1) : m * f + k = n * f + l => m = n
      <4> SUFFICES ASSUME NEW m \in Nat, NEW n \in Nat, NEW f \in Nat \ {0}, NEW k \in 0..(f - 1),
                          NEW l \in 0..(f - 1), m * f + k = n * f + l
                   PROVE  m = n
        OBVIOUS
      <4> DEFINE z == m * f + k
      <4>1. z \in Nat /\ z = f * m + k /\ z = f * n + l
        OBVIOUS
      <4> HIDE DEF z
      <4>2. z \div f = m /\ z \div f = n
        BY <4>1, QuotientIs
      <4> QED
        BY <4>2
    <3>2. c[1] * FontWidth + fx = t[1] * FontWidth + i /\ c[2] * FontHeight + fy = t[2] * FontHeight + j
      BY <2>4, <2>6
    <3> QED
      BY <2>1, <2>4, <3>1, <3>2
  <2> QED
    BY <1>3, <2>1, <2>7
<1>4. DOMAIN intact = TextCells
  BY DEF DrawInv, DrawTyped
<1>5. ASSUME NEW c \in TextCells, intact'[c] # NoGlyph PROVE HoldsGlyph(backbuffer, c, intact[c])'
  <2>1. c # t /\ intact'[c] = intact[c]
    BY <1>1, <1>4, <1>5
  <2>2. HoldsGlyph(backbuffer, c, intact[c])
    BY <1>5, <2>1, IntactIs DEF DrawInv, DrawingContained
  <2>3. ASSUME NEW fx \in 0..(FontWidth - 1), NEW fy \in 0..(FontHeight - 1)
        PROVE  backbuffer'[CellOf(PixelOf(c, fx, fy))] = backbuffer[CellOf(PixelOf(c, fx, fy))]
    <3> DEFINE k == CellOf(PixelOf(c, fx, fy))
    <3>1. k \in ReachedCells /\ hit(k) = {}
      BY <1>3, <2>1, CellReached
    <3> HIDE DEF k, hit
    <3>2. backbuffer'[k] = backbuffer[k]
      BY <1>1, <3>1
    <3> QED
      BY <3>2 DEF k
  <2> QED
    BY <2>1, <2>2, <2>3 DEF HoldsGlyph, CellOf, PixelOf
<1>6. GlyphsIntact'
  BY <1>5 DEF GlyphsIntact, HoldsGlyph, PixelOf
<1>7. DOMAIN intact' = TextCells
  BY <1>1, <1>4
<1> QED
  BY <1>2, <1>6, <1>7 DEF DrawInv, DrawTyped, DrawingContained

LEMMA RectKeeps ==
  ASSUME DrawInv, NEW a \in Nat, NEW b \in Nat, NEW w \in Nat, NEW h \in Nat, putrect(a, b, w, h)
  PROVE  DrawInv'
<1> DEFINE shape == (a..(a + w)) \X (b..(b + h))
<1>1. /\ stray' = (stray \/ \E p \in shape : Clipped(p) /\ (CellOf(p) \notin BufferCells
                                                          \/ CellOf(p) \div Pitch # p[2]))
      /\ edge' = (edge \/ \E p \in shape : p[1] = ScreenWidth \/ p[2] = ScreenHeight)
      /\ intact' = [t \in TextCells |-> NoGlyph]
  BY DEF putrect, Paint
<1>2. shape \subseteq Nat \X Nat
  <2>1. a..(a + w) \subseteq Nat /\ b..(b + h) \subseteq Nat
    OBVIOUS
  <2> QED
    BY <2>1
<1>3. StrayOnlyAtEdge /\ stray \in BOOLEAN /\ edge \in BOOLEAN
  BY DEF DrawInv, DrawTyped, DrawingContained
<1> HIDE DEF shape
<1>4. StrayOnlyAtEdge' /\ stray' \in BOOLEAN /\ edge' \in BOOLEAN
  BY <1>1, <1>2, <1>3, PaintStray
<1>5. GlyphsIntact' /\ DOMAIN intact' = TextCells
  BY <1>1 DEF GlyphsIntact
<1> QED
  BY <1>4, <1>5 DEF DrawInv, DrawTyped, DrawingContained

(* graphics.cpp and font.cpp, for any screen of at least two columns of text, *)
(* any pitch and any characters: a character stays until its cell, or one    *)
(* whose extra row and column reach it, is drawn, and a pixel leaves its      *)
(* line or the buffer only from the column or row just behind the screen.    *)
THEOREM DrawingIsContained == GraphicsSpec => []DrawingContained
<1>1. GraphicsInit => DrawInv
  <2> SUFFICES ASSUME GraphicsInit PROVE DrawInv
    OBVIOUS
  <2>1. intact = [t \in TextCells |-> NoGlyph]
    BY DEF GraphicsInit
  <2>2. stray \in BOOLEAN /\ edge \in BOOLEAN /\ ~stray
    BY Zenon DEF GraphicsInit
  <2>3. GlyphsIntact /\ DOMAIN intact = TextCells
    BY <2>1 DEF GlyphsIntact
  <2> QED
    BY <2>2, <2>3 DEF DrawInv, DrawTyped, DrawingContained, StrayOnlyAtEdge
<1>2. DrawInv /\ [GraphicsNext]_graphicsVars => DrawInv'
  <2> SUFFICES ASSUME DrawInv, [GraphicsNext]_graphicsVars PROVE DrawInv'
    OBVIOUS
  <2>1. ASSUME backbuffer' = backbuffer, stray' = stray, edge' = edge, intact' = intact PROVE DrawInv'
    BY <2>1 DEF DrawInv, DrawTyped, DrawingContained, GlyphsIntact, StrayOnlyAtEdge
  <2>2. ASSUME ConstructFramebuffer \/ FillFramebuffer \/ InitGraphics \/ swap \/ UNCHANGED graphicsVars
        PROVE  DrawInv'
    BY <2>1, <2>2 DEF ConstructFramebuffer, FillFramebuffer, InitGraphics, swap, graphicsVars, drawVars
  <2>3. ASSUME resetDoubleBuffer PROVE DrawInv'
    <3>1. intact' = [t \in TextCells |-> NoGlyph] /\ stray' = stray /\ edge' = edge
      BY <2>3 DEF resetDoubleBuffer
    <3>2. GlyphsIntact' /\ DOMAIN intact' = TextCells
      BY <3>1 DEF GlyphsIntact
    <3> QED
      BY <3>1, <3>2 DEF DrawInv, DrawTyped, DrawingContained, StrayOnlyAtEdge
  <2>4. ASSUME putrect(1, 1, 0, 0) \/ putrect(0, 0, ScreenWidth, ScreenHeight)
               \/ putrect(ScreenWidth + 1, 0, 1, 1)
        PROVE  DrawInv'
    <3>1. ScreenWidth \in Nat /\ ScreenHeight \in Nat /\ ScreenWidth + 1 \in Nat
      BY GraphicsAssumption
    <3> QED
      BY <2>4, <3>1, RectKeeps
  <2> QED
    BY <2>2, <2>3, <2>4, DrawBackKeeps, DrawForeKeeps DEF GraphicsNext
<1>3. DrawInv => DrawingContained
  BY DEF DrawInv
<1> QED
  BY <1>1, <1>2, <1>3, PTL DEF GraphicsSpec
=============================================================================
