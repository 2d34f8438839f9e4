------------------------------ MODULE CpuTime ------------------------------
(***************************************************************************)
(* Scheduler/tasks.cpp: who is charged for the CPU.  _schedule charges the  *)
(* interval since _last_time with interrupts off, so a switch is one        *)
(* action; tasks_get_self_time does the same without the lock, statement by *)
(* statement, and the timer may switch tasks in between.  Idling reads the  *)
(* clock four times, twice on the way in and twice on the way out, so time  *)
(* passes between the two.  Which task runs next is Scheduler's question:   *)
(* here any task may.                                                       *)
(***************************************************************************)
EXTENDS Integers

CONSTANTS
  Thread,   \* the tasks
  Idle,     \* current_task == NULL
  MaxNanos  \* bound: the time of one run

ASSUME CpuTimeAssumption == Idle \notin Thread /\ Thread # {}

VARIABLES
  nanos,     \* _get_cpu_time_ns()
  onCpu,     \* whom tasks_update_time charges: current_task, or the task it will be after idling
  phase,     \* where _schedule is in its idle branch; "run" outside it
  lastTime,  \* _last_time
  timeUsed,  \* time_used of every task
  idleTime,  \* _idle_time, a uint64_t: a negative value stands for its residue
  idleStart, \* _idle_start
  selfCall,  \* where a task is in tasks_get_self_time, and its locals
  ran,       \* history: the time each task, and Idle, really had the CPU
  raced      \* history: a switch fell into a call of tasks_get_self_time

timeVars == <<nanos, onCpu, phase, lastTime, timeUsed, idleTime, idleStart, selfCall, ran, raced>>

NotInCall == [at |-> "out", time |-> 0, delta |-> 0]

CpuTimeInit ==
  /\ nanos = 0 /\ lastTime = 0 /\ onCpu \in Thread /\ phase = "run"
  /\ timeUsed = [t \in Thread |-> 0] /\ idleTime = 0 /\ idleStart = 0
  /\ selfCall = [t \in Thread |-> NotInCall]
  /\ ran = [t \in Thread \cup {Idle} |-> 0] /\ raced = FALSE

(* Time passes for whoever has the CPU.                                     *)
Elapses ==
  /\ nanos < MaxNanos /\ nanos' = nanos + 1
  /\ ran' = [ran EXCEPT ![onCpu] = @ + 1]
  /\ UNCHANGED <<onCpu, phase, lastTime, timeUsed, idleTime, idleStart, selfCall, raced>>

(* Fault: the start of the next interval is not set.                        *)
UpdateTimeOnlyCharges ==
  /\ timeUsed' = [t \in Thread |-> IF t = onCpu THEN timeUsed[t] + nanos - lastTime ELSE timeUsed[t]]
  /\ UNCHANGED lastTime
(* tasks_update_time for a task; its branch for Idle is in StopIdling.      *)
UpdateTime ==
  /\ timeUsed' = [t \in Thread |-> IF t = onCpu THEN timeUsed[t] + nanos - lastTime ELSE timeUsed[t]]
  /\ lastTime' = nanos

(* _schedule with a task ready: the timer may have asked for it anywhere.    *)
SwitchThread(t) ==
  /\ phase = "run" /\ onCpu # t /\ onCpu' = t
  /\ UpdateTime
  /\ raced' = (raced \/ selfCall[onCpu] # NotInCall)
  /\ UNCHANGED <<nanos, phase, idleTime, idleStart, selfCall, ran>>

(* _schedule with none ready, called by a task that gives up the CPU: its    *)
(* account is closed, then current_task = NULL.                             *)
StartIdling ==
  /\ phase = "run" /\ selfCall[onCpu] = NotInCall
  /\ UpdateTime
  /\ onCpu' = Idle /\ phase' = "starting"
  /\ UNCHANGED <<nanos, idleTime, idleStart, selfCall, ran, raced>>

(* The second reading of the clock on the way in.                           *)
IdleBegins ==
  /\ phase = "starting" /\ phase' = "idle"
  /\ idleStart' = nanos
  /\ UNCHANGED <<nanos, onCpu, lastTime, timeUsed, idleTime, selfCall, ran, raced>>

(* The loop has found a ready task; tasks_update_time, its branch for no     *)
(* current_task.  The time from here on is charged to that task.            *)
StopIdling(t) ==
  /\ phase = "idle" /\ phase' = "stopping"
  /\ idleTime' = idleTime + nanos - lastTime
  /\ lastTime' = nanos /\ onCpu' = t
  /\ UNCHANGED <<nanos, timeUsed, idleStart, selfCall, ran, raced>>

(* The second reading on the way out: _idle_start - now is not the time      *)
(* spent idling but its negative.                                           *)
IdleSettles ==
  /\ phase = "stopping" /\ phase' = "run"
  /\ idleStart' = idleStart - nanos
  /\ idleTime' = idleTime + (idleStart - nanos)
  /\ UNCHANGED <<nanos, onCpu, lastTime, timeUsed, selfCall, ran, raced>>

(***************************************************************************)
(* tasks_get_self_time                                                     *)
(***************************************************************************)
SelfStep(t, from, call) ==
  /\ phase = "run" /\ onCpu = t /\ selfCall[t].at = from
  /\ selfCall' = [selfCall EXCEPT ![t] = call]
  /\ UNCHANGED <<nanos, onCpu, phase, idleTime, idleStart, ran, raced>>

(* Bound: no call begins after a race.                                      *)
SelfReadTime(t) ==
  /\ ~raced
  /\ SelfStep(t, "out", [at |-> "read", time |-> nanos, delta |-> 0])
  /\ UNCHANGED <<lastTime, timeUsed>>

SelfDelta(t) ==
  /\ SelfStep(t, "read", [at |-> "charge", time |-> selfCall[t].time,
                          delta |-> selfCall[t].delta + selfCall[t].time - lastTime])
  /\ UNCHANGED <<lastTime, timeUsed>>

SelfCharge(t) ==
  /\ SelfStep(t, "charge", [selfCall[t] EXCEPT !.at = "store"])
  /\ timeUsed' = [timeUsed EXCEPT ![t] = @ + selfCall[t].delta]
  /\ UNCHANGED lastTime

SelfStore(t) ==
  /\ SelfStep(t, "store", NotInCall)
  /\ lastTime' = selfCall[t].time
  /\ UNCHANGED timeUsed

CpuTimeNext ==
  \/ Elapses \/ StartIdling \/ IdleBegins \/ IdleSettles
  \/ \E t \in Thread : \/ SwitchThread(t) \/ StopIdling(t)
                       \/ SelfReadTime(t) \/ SelfDelta(t) \/ SelfCharge(t) \/ SelfStore(t)

CpuTimeSpec == CpuTimeInit /\ [][CpuTimeNext]_timeVars

(***************************************************************************)
(* Properties.                                                             *)
(***************************************************************************)
(* Every task is charged exactly the time it had the CPU, the open interval *)
(* since _last_time apart, through any order of switches, idling and calls  *)
(* of tasks_get_self_time (and outside the moment between its two stores),  *)
(* as long as no switch falls into such a call: one that does makes the     *)
(* call charge an interval twice.  The idle branch neither charges its time *)
(* to a task nor loses any of a task's.                                     *)
AccountsBalance ==
  ~raced => \A t \in Thread : (onCpu = t => selfCall[t].at # "store") =>
    timeUsed[t] + (IF onCpu = t THEN nanos - lastTime ELSE 0) = ran[t]

(* "count the time we spent idling": outside the idle branch _idle_time is   *)
(* the time the CPU idled.  It is not: tasks_update_time counts the interval *)
(* and the two statements after it take it off again.                       *)
IdleTimeCounted == phase = "run" => idleTime = ran[Idle]
=============================================================================
