-------------------------- MODULE SchedulerProofs --------------------------
(***************************************************************************)
(* Scheduler for any tasks, primitives and time slice.  What _enqueue_task,*)
(* _dequeue_task and _remove_task do to the tasks a list holds comes       *)
(* first; the invariants only use these facts.                             *)
(***************************************************************************)
EXTENDS Scheduler, SequenceTheorems, TLAPS

(* The tasks of a list are what its places hold.                            *)
LEMMA MembersOfSeq ==
  ASSUME NEW q \in Seq(Task)
  PROVE  /\ Members(q) \subseteq Task
         /\ \A x : x \in Members(q) <=> \E i \in 1..Len(q) : q[i] = x
         /\ Distinct(q) <=> \A i, j \in 1..Len(q) : q[i] = q[j] => i = j
<1>1. DOMAIN q = 1..Len(q) /\ \A i \in 1..Len(q) : q[i] \in Task
  OBVIOUS
<1>2. \A x : x \in Members(q) <=> \E i \in 1..Len(q) : q[i] = x
  BY <1>1, Zenon DEF Members
<1> QED
  BY <1>1, <1>2, Zenon DEF Distinct

(* An empty list holds nobody, and only an empty list does.                 *)
LEMMA EmptyMembers ==
  /\ <<>> \in Seq(Task) /\ Members(<<>>) = {} /\ Distinct(<<>>)
  /\ \A q \in Seq(Task) : q # <<>> => Members(q) # {}
<1>1. <<>> \in Seq(Task) /\ Len(<<>>) = 0 /\ 1..0 = {}
  OBVIOUS
<1>2. Members(<<>>) = {} /\ Distinct(<<>>)
  BY <1>1, MembersOfSeq
<1>3. ASSUME NEW q \in Seq(Task), q # <<>> PROVE Members(q) # {}
  <2>1. 1 \in 1..Len(q)
    BY <1>3
  <2> QED
    BY <2>1, MembersOfSeq
<1> QED
  BY <1>1, <1>2, <1>3

(* _enqueue_task of a task that is not in the list adds just this task.     *)
LEMMA EnqueueMembers ==
  ASSUME NEW q \in Seq(Task), NEW t \in Task, t \notin Members(q)
  PROVE  /\ Enqueue(q, t) \in Seq(Task)
         /\ Members(Enqueue(q, t)) = Members(q) \cup {t}
         /\ Enqueue(q, t) # <<>>
         /\ Distinct(q) => Distinct(Enqueue(q, t))
<1> DEFINE a == Append(q, t)
           n == Len(q)
<1>1. Enqueue(q, t) = a
  BY DEF Enqueue
<1>2. /\ a \in Seq(Task) /\ n \in Nat /\ Len(a) = n + 1 /\ a[n + 1] = t
      /\ \A i \in 1..n : a[i] = q[i] /\ i \in 1..(n + 1)
      /\ n + 1 \in 1..(n + 1)
      /\ \A i \in 1..(n + 1) : i \in 1..n \/ i = n + 1
  OBVIOUS
<1>3. a # <<>>
  BY <1>2
<1> HIDE DEF a, n
<1>4. \A i \in 1..n : q[i] # t
  BY MembersOfSeq DEF n
<1>5. ASSUME NEW x PROVE x \in Members(a) <=> x \in Members(q) \/ x = t
  <2>1. x \in Members(a) <=> \E i \in 1..(n + 1) : a[i] = x
    BY <1>2, MembersOfSeq
  <2>2. x \in Members(q) <=> \E i \in 1..n : q[i] = x
    BY MembersOfSeq DEF n
  <2> QED
    BY <1>2, <2>1, <2>2, Zenon
<1>6. Distinct(q) => Distinct(a)
  <2>1. Distinct(q) <=> \A i, j \in 1..n : q[i] = q[j] => i = j
    BY MembersOfSeq DEF n
  <2>2. Distinct(a) <=> \A i, j \in 1..(n + 1) : a[i] = a[j] => i = j
    BY <1>2, MembersOfSeq
  <2> QED
    BY <1>2, <1>4, <2>1, <2>2, Zenon
<1> QED
  BY <1>1, <1>2, <1>3, <1>5, <1>6

(* _dequeue_task takes the head out and leaves the others.                  *)
LEMMA DequeueMembers ==
  ASSUME NEW q \in Seq(Task), q # <<>>, Distinct(q)
  PROVE  /\ Head(q) \in Members(q)
         /\ Tail(q) \in Seq(Task)
         /\ Members(Tail(q)) = Members(q) \ {Head(q)}
         /\ Distinct(Tail(q))
<1> DEFINE n == Len(q)
           a == Tail(q)
<1>1. /\ a \in Seq(Task) /\ n \in Nat /\ n > 0 /\ Len(a) = n - 1
      /\ Head(q) = q[1] /\ 1 \in 1..n
      /\ \A i \in 1..(n - 1) : a[i] = q[i + 1]
  OBVIOUS
<1> HIDE DEF a, n
<1>2. \A i, j \in 1..n : q[i] = q[j] => i = j
  BY MembersOfSeq DEF n
<1>3. \A x : x \in Members(q) <=> \E i \in 1..n : q[i] = x
  BY MembersOfSeq DEF n
<1>4. \A x : x \in Members(a) <=> \E i \in 1..(n - 1) : a[i] = x
  BY <1>1, MembersOfSeq
<1>5. ASSUME NEW i \in 1..(n - 1) PROVE a[i] \in Members(q) /\ a[i] # q[1]
  <2>1. a[i] = q[i + 1] /\ i + 1 \in 1..n /\ i + 1 # 1
    BY <1>1
  <2> QED
    BY <1>1, <1>2, <1>3, <2>1
<1>6. ASSUME NEW i \in 1..n, q[i] # q[1] PROVE q[i] \in Members(a)
  <2>1. i - 1 \in 1..(n - 1) /\ (i - 1) + 1 = i
    BY <1>1, <1>6
  <2>2. a[i - 1] = q[i]
    BY <1>1, <2>1
  <2> QED
    BY <1>4, <2>1, <2>2
<1>7. Members(a) = Members(q) \ {q[1]}
  BY <1>3, <1>4, <1>5, <1>6
<1>8. ASSUME NEW i \in 1..(n - 1), NEW j \in 1..(n - 1), a[i] = a[j] PROVE i = j
  <2>1. q[i + 1] = q[j + 1] /\ i + 1 \in 1..n /\ j + 1 \in 1..n
    BY <1>1, <1>8
  <2>2. i + 1 = j + 1
    BY <1>2, <2>1
  <2> QED
    BY <2>2
<1>9. Distinct(a)
  BY <1>1, <1>8, MembersOfSeq
<1> QED
  BY <1>1, <1>3, <1>7, <1>9 DEF a

(* _remove_task takes one task out of the middle and leaves the others.     *)
LEMMA RemoveMembers ==
  ASSUME NEW q \in Seq(Task), NEW k \in DOMAIN q, Distinct(q)
  PROVE  /\ q[k] \in Members(q)
         /\ RemoveTask(q, k) \in Seq(Task)
         /\ Members(RemoveTask(q, k)) = Members(q) \ {q[k]}
         /\ Distinct(RemoveTask(q, k))
<1> DEFINE n == Len(q)
           b == SubSeq(q, 1, k - 1)
           c == SubSeq(q, k + 1, Len(q))
           a == b \o c
<1>1. n \in Nat /\ k \in 1..n /\ \A i \in 1..n : q[i] \in Task
  OBVIOUS
<1>2. /\ b \in Seq(Task) /\ Len(b) = k - 1
      /\ \A i \in 1..(k - 1) : b[i] = q[i]
  BY <1>1, SubSeqProperties
<1>3. /\ c \in Seq(Task) /\ Len(c) = n - k
      /\ \A i \in 1..(n - k) : c[i] = q[k + i]
  BY <1>1, SubSeqProperties
<1> HIDE DEF b, c, n
<1>4. /\ a \in Seq(Task) /\ Len(a) = n - 1
      /\ \A i \in 1..(n - 1) : a[i] = IF i < k THEN q[i] ELSE q[i + 1]
  <2>1. /\ a \in Seq(Task) /\ Len(a) = Len(b) + Len(c)
        /\ \A i \in 1..(Len(b) + Len(c)) :
             a[i] = IF i <= Len(b) THEN b[i] ELSE c[i - Len(b)]
    BY <1>2, <1>3, ConcatProperties
  <2> HIDE DEF a
  <2>2. Len(b) + Len(c) = n - 1
    BY <1>1, <1>2, <1>3
  <2>3. ASSUME NEW i \in 1..(n - 1) PROVE a[i] = IF i < k THEN q[i] ELSE q[i + 1]
    <3>1. CASE i < k
      <4>1. i <= Len(b) /\ i \in 1..(k - 1)
        BY <1>1, <1>2, <3>1
      <4> QED
        BY <1>2, <2>1, <2>2, <3>1, <4>1
    <3>2. CASE ~(i < k)
      <4>1. ~(i <= Len(b)) /\ i - Len(b) \in 1..(n - k) /\ k + (i - Len(b)) = i + 1
        BY <1>1, <1>2, <3>2
      <4> QED
        BY <1>3, <2>1, <2>2, <3>2, <4>1
    <3> QED
      BY <3>1, <3>2
  <2> QED
    BY <2>1, <2>2, <2>3
<1> HIDE DEF a
<1>5. \A i, j \in 1..n : q[i] = q[j] => i = j
  BY MembersOfSeq DEF n
<1>6. \A x : x \in Members(q) <=> \E i \in 1..n : q[i] = x
  BY MembersOfSeq DEF n
<1>7. \A x : x \in Members(a) <=> \E i \in 1..(n - 1) : a[i] = x
  BY <1>4, MembersOfSeq
<1>8. ASSUME NEW i \in 1..(n - 1) PROVE a[i] \in Members(q) /\ a[i] # q[k]
  <2>1. CASE i < k
    <3>1. a[i] = q[i] /\ i \in 1..n /\ i # k
      BY <1>1, <1>4, <2>1
    <3> QED
      BY <1>1, <1>5, <1>6, <3>1
  <2>2. CASE ~(i < k)
    <3>1. a[i] = q[i + 1] /\ i + 1 \in 1..n /\ i + 1 # k
      BY <1>1, <1>4, <2>2
    <3> QED
      BY <1>1, <1>5, <1>6, <3>1
  <2> QED
    BY <2>1, <2>2
<1>9. ASSUME NEW i \in 1..n, q[i] # q[k] PROVE q[i] \in Members(a)
  <2>1. CASE i < k
    BY <1>1, <1>4, <1>7, <2>1
  <2>2. CASE i > k
    <3>1. i - 1 \in 1..(n - 1) /\ ~(i - 1 < k) /\ (i - 1) + 1 = i
      BY <1>1, <2>2
    <3>2. a[i - 1] = q[i]
      BY <1>4, <3>1
    <3> QED
      BY <1>7, <3>1, <3>2
  <2> QED
    BY <1>1, <1>9, <2>1, <2>2
<1>10. Members(a) = Members(q) \ {q[k]}
  BY <1>6, <1>7, <1>8, <1>9
<1>11. ASSUME NEW i \in 1..(n - 1), NEW j \in 1..(n - 1), a[i] = a[j] PROVE i = j
  <2>1. /\ i \in 1..n /\ i + 1 \in 1..n /\ j \in 1..n /\ j + 1 \in 1..n
        /\ i \in Int /\ j \in Int
    BY <1>1
  <2> QED
    BY <1>1, <1>4, <1>5, <1>11, <2>1
<1>12. Distinct(a)
  BY <1>4, <1>11, MembersOfSeq
<1>13. RemoveTask(q, k) = a
  BY DEF RemoveTask, a, b, c
<1> QED
  BY <1>1, <1>4, <1>6, <1>10, <1>12, <1>13

(* Waking a list of waiters appends them all to the ready list.             *)
LEMMA AppendMembers ==
  ASSUME NEW q \in Seq(Task), NEW r \in Seq(Task),
         Distinct(q), Distinct(r), Members(q) \cap Members(r) = {}
  PROVE  /\ q \o r \in Seq(Task)
         /\ Members(q \o r) = Members(q) \cup Members(r)
         /\ Distinct(q \o r)
<1> DEFINE m == Len(q)
           n == Len(r)
           a == q \o r
<1>1. /\ a \in Seq(Task) /\ m \in Nat /\ n \in Nat /\ Len(a) = m + n
      /\ \A i \in 1..(m + n) : a[i] = IF i <= m THEN q[i] ELSE r[i - m]
  BY ConcatProperties
<1> HIDE DEF a, m, n
<1>2. \A x : x \in Members(q) <=> \E i \in 1..m : q[i] = x
  BY MembersOfSeq DEF m
<1>3. \A x : x \in Members(r) <=> \E i \in 1..n : r[i] = x
  BY MembersOfSeq DEF n
<1>4. \A x : x \in Members(a) <=> \E i \in 1..(m + n) : a[i] = x
  <2>1. \A x : x \in Members(a) <=> \E i \in 1..Len(a) : a[i] = x
    BY <1>1, MembersOfSeq, Zenon
  <2> QED
    BY <1>1, <2>1, Zenon
<1>5. ASSUME NEW i \in 1..(m + n)
      PROVE  \/ i \in 1..m /\ a[i] = q[i] /\ q[i] \in Members(q)
             \/ i - m \in 1..n /\ a[i] = r[i - m] /\ r[i - m] \in Members(r)
  <2>1. CASE i <= m
    BY <1>1, <1>2, <2>1
  <2>2. CASE ~(i <= m)
    <3>1. i - m \in 1..n /\ a[i] = r[i - m]
      BY <1>1, <2>2
    <3> QED
      BY <1>3, <3>1
  <2> QED
    BY <2>1, <2>2
<1>6. ASSUME NEW i \in 1..m PROVE q[i] \in Members(a)
  <2>1. i \in 1..(m + n) /\ a[i] = q[i]
    BY <1>1
  <2> QED
    BY <1>4, <2>1
<1>7. ASSUME NEW i \in 1..n PROVE r[i] \in Members(a)
  <2>1. m + i \in 1..(m + n) /\ ~(m + i <= m) /\ (m + i) - m = i
    BY <1>1
  <2>2. a[m + i] = r[i]
    BY <1>1, <2>1
  <2> QED
    BY <1>4, <2>1, <2>2
<1>8. Members(a) = Members(q) \cup Members(r)
  BY <1>2, <1>3, <1>4, <1>5, <1>6, <1>7
<1>9. ASSUME NEW i \in 1..(m + n), NEW j \in 1..(m + n), a[i] = a[j]
      PROVE  i = j
  <2>0. /\ \A k, l \in 1..m : q[k] = q[l] => k = l
        /\ \A k, l \in 1..n : r[k] = r[l] => k = l
    BY MembersOfSeq DEF m, n
  <2>1. CASE i \in 1..m /\ a[i] = q[i] /\ q[i] \in Members(q)
    <3>1. j \in 1..m /\ a[j] = q[j]
      BY <1>5, <1>9, <2>1
    <3> QED
      BY <1>9, <2>0, <2>1, <3>1
  <2>2. CASE i - m \in 1..n /\ a[i] = r[i - m] /\ r[i - m] \in Members(r)
    <3>1. j - m \in 1..n /\ a[j] = r[j - m]
      BY <1>5, <1>9, <2>2
    <3>2. i - m = j - m
      BY <1>9, <2>0, <2>2, <3>1
    <3> QED
      BY <1>1, <3>2
  <2> QED
    BY <1>5, <2>1, <2>2
<1>10. Distinct(a)
  BY <1>1, <1>9, MembersOfSeq
<1> QED
  BY <1>1, <1>8, <1>10 DEF a

(***************************************************************************)
(* _schedule.                                                              *)
(***************************************************************************)
(* The map of _state_lists for any states and lists, also those of a        *)
(* section that has not called _schedule yet.                               *)
ListsHold(st, rdy, slp, stp, wt) ==
  /\ st \in [Task -> States]
  /\ rdy \in Seq(Task) /\ slp \in Seq(Task) /\ stp \in Seq(Task)
  /\ wt \in [Sync -> Seq(Task)]
  /\ Distinct(rdy) /\ Distinct(slp) /\ Distinct(stp)
  /\ \A s \in Sync : Distinct(wt[s])
  /\ \A t \in Task :
       /\ st[t] = "READY" <=> t \in Members(rdy)
       /\ st[t] = "SLEEPING" <=> t \in Members(slp)
       /\ st[t] = "STOPPED" <=> t \in Members(stp)
       /\ st[t] = "BLOCKED" <=> \E s \in Sync : t \in Members(wt[s])
  /\ \A s, r \in Sync : s # r => Members(wt[s]) \cap Members(wt[r]) = {}

RunningIs(cur, st) == \A t \in Task : st[t] = "RUNNING" <=> t = cur

(* What a section leaves behind when it calls _schedule: the current task    *)
(* may have given up the CPU, nobody else runs.                             *)
OpenSection(st, rdy, slp, stp, wt) ==
  /\ current_task \in Task /\ borrowed \in Task \cup {NULL}
  /\ ListsHold(st, rdy, slp, stp, wt)
  /\ \A t \in Task : st[t] = "RUNNING" => t = current_task
  /\ st[current_task] # "READY"
  /\ rdy = <<>> => st[current_task] \notin {"UNUSED", "STOPPED"}

(* A switch only moves the task it dispatches and the one it preempts.      *)
OnlyDispatches(st) ==
  \A t \in Task : /\ st[t] \notin {"READY", "RUNNING"} => state'[t] = st[t]
                  /\ st[t] \in {"READY", "RUNNING"} => state'[t] \in {"READY", "RUNNING"}

(* tasks_switch_to: the head of the ready list runs; the task it replaces    *)
(* goes back into the list if it was running.                               *)
LEMMA SwitchKeepsLists ==
  ASSUME NEW prev \in Task, NEW st, NEW rdy, NEW slp, NEW stp, NEW wt,
         ListsHold(st, rdy, slp, stp, wt), rdy # <<>>,
         \A t \in Task : st[t] = "RUNNING" => t = prev,
         SwitchTo(prev, st, rdy)
  PROVE  /\ ListsHold(state', ready', slp, stp, wt)
         /\ RunningIs(current_task', state')
         /\ current_task' \in Task /\ borrowed' = NULL
         /\ slice' = TimeSlice /\ elapsed' = 0
         /\ OnlyDispatches(st)
<1> DEFINE next == Head(rdy)
           rest == Tail(rdy)
<1>1. /\ next \in Members(rdy) /\ rest \in Seq(Task) /\ Distinct(rest)
      /\ Members(rest) = Members(rdy) \ {next}
  BY DequeueMembers DEF ListsHold
<1>2. next \in Task /\ st[next] = "READY" /\ st \in [Task -> States]
  BY <1>1, MembersOfSeq DEF ListsHold
<1>3. current_task' = next /\ borrowed' = NULL /\ slice' = TimeSlice /\ elapsed' = 0
  BY DEF SwitchTo
<1>4. CASE st[prev] = "RUNNING"
  <2>1. /\ state' = [st EXCEPT ![prev] = "READY", ![next] = "RUNNING"]
        /\ ready' = Enqueue(rest, prev)
    BY <1>4 DEF SwitchTo
  <2>2. prev # next /\ prev \notin Members(rdy)
    BY <1>2, <1>4 DEF ListsHold
  <2>3. /\ ready' \in Seq(Task) /\ Distinct(ready')
        /\ Members(ready') = (Members(rdy) \ {next}) \cup {prev}
    BY <1>1, <2>1, <2>2, EnqueueMembers
  <2>4. /\ state' \in [Task -> States]
        /\ state'[prev] = "READY" /\ state'[next] = "RUNNING"
        /\ \A t \in Task \ {prev, next} : state'[t] = st[t]
    BY <1>2, <2>1, <2>2 DEF States
  <2>5. \A t \in Task : state'[t] = "READY" <=> t \in Members(ready')
    BY <1>4, <2>3, <2>4 DEF ListsHold
  <2>6. ListsHold(state', ready', slp, stp, wt)
    BY <1>2, <1>4, <2>3, <2>4, <2>5 DEF ListsHold
  <2> QED
    BY <1>2, <1>3, <1>4, <2>4, <2>6 DEF RunningIs, OnlyDispatches
<1>5. CASE st[prev] # "RUNNING"
  <2>1. state' = [st EXCEPT ![next] = "RUNNING"] /\ ready' = rest
    BY <1>2, <1>5 DEF SwitchTo
  <2>2. /\ state' \in [Task -> States] /\ state'[next] = "RUNNING"
        /\ \A t \in Task \ {next} : state'[t] = st[t]
    BY <1>2, <2>1 DEF States
  <2>3. \A t \in Task : state'[t] = "READY" <=> t \in Members(ready')
    BY <1>1, <2>1, <2>2 DEF ListsHold
  <2>4. ListsHold(state', ready', slp, stp, wt)
    BY <1>1, <1>2, <2>1, <2>2, <2>3 DEF ListsHold
  <2> QED
    BY <1>2, <1>3, <1>5, <2>2, <2>4 DEF RunningIs, OnlyDispatches
<1> QED
  BY <1>4, <1>5

(* What holds of the CPU between two steps: somebody runs on an armed time  *)
(* slice, or the idle loop sits on the stack of a task that has one.        *)
CpuOwned ==
  /\ current_task \in Task \cup {NULL} /\ borrowed \in Task \cup {NULL}
  /\ slice \in 0..TimeSlice
  /\ IdleStackLive /\ SliceArmed
  /\ current_task = NULL => slice = 0 /\ borrowed \in Task

(* _schedule at the end of any section restores the map and hands the CPU    *)
(* to one task or to the idle loop.                                         *)
LEMMA ScheduleKeepsLists ==
  ASSUME NEW st, NEW rdy, NEW slp, NEW stp, NEW wt, NEW since \in 0..TimeSlice,
         OpenSection(st, rdy, slp, stp, wt),
         Schedule(st, rdy, since)
  PROVE  /\ ListsHold(state', ready', slp, stp, wt)
         /\ RunningIs(current_task', state')
         /\ CpuOwned'
         /\ elapsed' \in 0..TimeSlice
         /\ OnlyDispatches(st)
<1> USE TimeAssumption, TaskAssumption
<1>1. CASE rdy # <<>> /\ SwitchTo(current_task, st, rdy)
  <2>1. /\ ListsHold(state', ready', slp, stp, wt)
        /\ RunningIs(current_task', state')
        /\ current_task' \in Task /\ borrowed' = NULL
        /\ slice' = TimeSlice /\ elapsed' = 0
        /\ OnlyDispatches(st)
    BY <1>1, SwitchKeepsLists DEF OpenSection
  <2> QED
    BY <2>1 DEF CpuOwned, IdleStackLive, SliceArmed
<1>2. CASE rdy = <<>> /\ st[current_task] = "RUNNING" /\ KeepRunning(st, rdy, since)
  BY <1>2 DEF KeepRunning, OpenSection, RunningIs, OnlyDispatches, CpuOwned, IdleStackLive, SliceArmed
<1>3. CASE rdy = <<>> /\ st[current_task] # "RUNNING" /\ BeginIdle(st, rdy, since)
  BY <1>3 DEF BeginIdle, OpenSection, RunningIs, OnlyDispatches, CpuOwned, IdleStackLive, SliceArmed
<1> QED
  BY <1>1, <1>2, <1>3 DEF Schedule

(***************************************************************************)
(* The inductive invariant.                                                *)
(***************************************************************************)
(* The cleaner is woken exactly when somebody has exited.                   *)
CleanerWoken ==
  IF stopped = <<>> THEN state[Cleaner] = "PAUSED"
                    ELSE state[Cleaner] \in {"READY", "RUNNING"}

TimesOK ==
  /\ wakeup \in [Task -> 0..Never] /\ elapsed \in 0..TimeSlice
  /\ scan \in Nat /\ need_schedule \in BOOLEAN

SchedulerInv ==
  /\ ListsHold(state, ready, sleeping, stopped, waiting)
  /\ RunningIs(current_task, state)
  /\ CpuOwned
  /\ TimesOK
  /\ CleanerWoken

(* No task exits while another that exited still waits for the cleaner: the  *)
(* condition under which tasks_exit finds the cleaner PAUSED.  The run       *)
(* scheduler_two_exits shows what happens without it.                       *)
ExitApart == stopped # <<>> => Members(stopped') \subseteq Members(stopped)

LEMMA InvGivesProperties ==
  ASSUME SchedulerInv
  PROVE  StatesMatchLists /\ IdleStackLive /\ SliceArmed
  BY DEF SchedulerInv, ListsHold, RunningIs, CpuOwned, TimesOK, StatesMatchLists, TypeOK

LEMMA InitEstablishesInv ==
  ASSUME Init
  PROVE  SchedulerInv
<1> USE TaskAssumption, TimeAssumption
<1>1. ListsHold(state, ready, sleeping, stopped, waiting)
  BY EmptyMembers DEF Init, ListsHold, States
<1>2. /\ state[Main] = "RUNNING" /\ state[Cleaner] = "PAUSED"
      /\ \A t \in Task \ {Main, Cleaner} : state[t] = "UNUSED"
  BY DEF Init
<1>3. RunningIs(current_task, state)
  BY <1>2 DEF Init, RunningIs
<1>4. CpuOwned
  BY DEF Init, CpuOwned, IdleStackLive, SliceArmed
<1>5. TimesOK
  <2>1. Never \in 0..Never
    BY DEF Never
  <2>2. wakeup \in [Task -> 0..Never]
    BY <2>1, Zenon DEF Init
  <2>3. elapsed \in 0..TimeSlice /\ scan \in Nat
    BY SMT DEF Init
  <2>4. need_schedule \in BOOLEAN
    BY Zenon DEF Init
  <2> QED
    BY <2>2, <2>3, <2>4 DEF TimesOK
<1>6. CleanerWoken
  BY <1>2 DEF Init, CleanerWoken
<1> QED
  BY <1>1, <1>3, <1>4, <1>5, <1>6 DEF SchedulerInv

(* What _schedule leaves of the invariant, for every operation that ends in  *)
(* it.                                                                      *)
LEMMA ScheduleKeepsInv ==
  ASSUME SchedulerInv, NEW st, NEW rdy, NEW since \in 0..TimeSlice,
         OpenSection(st, rdy, sleeping', stopped', waiting'),
         Schedule(st, rdy, since),
         wakeup' \in [Task -> 0..Never], scan' \in Nat, need_schedule' \in BOOLEAN,
         IF stopped' = <<>> THEN st[Cleaner] = "PAUSED"
                            ELSE st[Cleaner] \in {"READY", "RUNNING"}
  PROVE  SchedulerInv' /\ OnlyDispatches(st)
<1>1. /\ ListsHold(state', ready', sleeping', stopped', waiting')
      /\ RunningIs(current_task', state')
      /\ CpuOwned'
      /\ elapsed' \in 0..TimeSlice
      /\ OnlyDispatches(st)
  BY ScheduleKeepsLists
<1>2. TimesOK'
  BY <1>1 DEF TimesOK
<1>3. CleanerWoken'
  BY <1>1, TaskAssumption DEF OnlyDispatches, CleanerWoken
<1>4. RunningIs(current_task, state)'
  BY <1>1 DEF RunningIs
<1>5. ListsHold(state, ready, sleeping, stopped, waiting)'
  BY <1>1
<1> QED
  BY <1>1, <1>2, <1>3, <1>4, <1>5 DEF SchedulerInv

(* A task that calls into the scheduler is the one that runs, and its state  *)
(* says so.                                                                 *)
LEMMA CallerRuns ==
  ASSUME SchedulerInv, NEW t \in Task, Calls(t) \/ (scan = 0 /\ current_task = t)
  PROVE  /\ current_task = t /\ state[t] = "RUNNING"
         /\ t \notin Members(ready) /\ t \notin Members(sleeping)
         /\ t \notin Members(stopped)
         /\ \A s \in Sync : t \notin Members(waiting[s])
         /\ borrowed \in Task \cup {NULL} /\ elapsed \in 0..TimeSlice
  BY DEF Calls, SchedulerInv, ListsHold, RunningIs, CpuOwned, TimesOK

(* No sleeper is disturbed.                                                  *)
SleepersKept ==
  \A t \in Task : state[t] = "SLEEPING" /\ state'[t] # "SLEEPING" => wakeup[t] = 0

LEMMA TasksNewKeepsInv ==
  ASSUME SchedulerInv, NEW t \in Task, NEW new \in Task, TasksNew(t, new)
  PROVE  SchedulerInv' /\ SleepersKept
<1> USE TaskAssumption
<1>1. /\ state' = [state EXCEPT ![new] = "READY"] /\ state[new] = "UNUSED"
      /\ ready' = Enqueue(ready, new)
      /\ UNCHANGED <<current_task, borrowed, sleeping, stopped, waiting, wakeup,
                     slice, elapsed, scan, need_schedule>>
  BY DEF TasksNew, timerVars
<1>2. ListsHold(state, ready, sleeping, stopped, waiting) /\ state \in [Task -> States]
  BY DEF SchedulerInv, ListsHold
<1>3. new \notin Members(ready) /\ ready \in Seq(Task) /\ Distinct(ready)
  BY <1>1, <1>2 DEF ListsHold
<1>4. /\ ready' \in Seq(Task) /\ Distinct(ready')
      /\ Members(ready') = Members(ready) \cup {new}
  BY <1>1, <1>3, EnqueueMembers
<1>5. ListsHold(state', ready', sleeping', stopped', waiting')
  BY <1>1, <1>2, <1>4 DEF ListsHold, States
<1>6. RunningIs(current_task, state)'
  BY <1>1, <1>2 DEF SchedulerInv, RunningIs
<1>7. CpuOwned' /\ TimesOK' /\ CleanerWoken'
  BY <1>1, <1>2 DEF SchedulerInv, CpuOwned, IdleStackLive, SliceArmed, TimesOK, CleanerWoken
<1>8. SleepersKept
  BY <1>1, <1>2 DEF SleepersKept
<1> QED
  BY <1>5, <1>6, <1>7, <1>8 DEF SchedulerInv

LEMMA TasksScheduleKeepsInv ==
  ASSUME SchedulerInv, NEW t \in Task, TasksSchedule(t)
  PROVE  SchedulerInv' /\ SleepersKept
<1>1. /\ Calls(t) /\ Schedule(state, ready, elapsed)
      /\ UNCHANGED <<sleeping, stopped, waiting, wakeup, scan, need_schedule>>
  BY DEF TasksSchedule, timerVars
<1>2. OpenSection(state, ready, sleeping', stopped', waiting')
  BY <1>1, CallerRuns DEF OpenSection, SchedulerInv, RunningIs
<1>3. SchedulerInv' /\ OnlyDispatches(state)
  BY <1>1, <1>2, CallerRuns, ScheduleKeepsInv DEF SchedulerInv, TimesOK, CleanerWoken
<1> QED
  BY <1>3 DEF OnlyDispatches, SleepersKept

LEMMA BlockCurrentPausedKeepsInv ==
  ASSUME SchedulerInv, NEW t \in Task, BlockCurrentPaused(t)
  PROVE  SchedulerInv' /\ SleepersKept
<1> DEFINE st == [state EXCEPT ![t] = "PAUSED"]
<1>1. /\ Calls(t) /\ t = Main /\ Schedule(st, ready, elapsed)
      /\ UNCHANGED <<sleeping, stopped, waiting, wakeup, scan, need_schedule>>
  BY DEF BlockCurrentPaused, timerVars
<1>2. current_task = t /\ state[t] = "RUNNING" /\ state \in [Task -> States]
  BY <1>1, CallerRuns DEF SchedulerInv, ListsHold
<1>3. /\ st \in [Task -> States] /\ st[t] = "PAUSED"
      /\ \A u \in Task \ {t} : st[u] = state[u]
  BY <1>2 DEF States
<1> HIDE DEF st
<1>4. ListsHold(st, ready, sleeping', stopped', waiting')
  BY <1>1, <1>2, <1>3 DEF SchedulerInv, ListsHold
<1>5. OpenSection(st, ready, sleeping', stopped', waiting')
  BY <1>1, <1>2, <1>3, <1>4, CallerRuns DEF OpenSection, SchedulerInv, RunningIs
<1>6. SchedulerInv' /\ OnlyDispatches(st)
  BY <1>1, <1>3, <1>5, CallerRuns, TaskAssumption, ScheduleKeepsInv
     DEF SchedulerInv, TimesOK, CleanerWoken
<1> QED
  BY <1>2, <1>3, <1>6 DEF OnlyDispatches, SleepersKept

LEMMA NanoSleepKeepsInv ==
  ASSUME SchedulerInv, NEW t \in Task, NEW time \in 0..MaxSleep, NanoSleep(t, time)
  PROVE  SchedulerInv' /\ SleepersKept
<1> DEFINE st == [state EXCEPT ![t] = "SLEEPING"]
<1>1. /\ Calls(t) /\ Schedule(st, ready, elapsed)
      /\ wakeup' = [wakeup EXCEPT ![t] = time]
      /\ sleeping' = Enqueue(sleeping, t)
      /\ UNCHANGED <<stopped, waiting, scan, need_schedule>>
  BY DEF NanoSleep, timerVars
<1>2. /\ current_task = t /\ state[t] = "RUNNING" /\ state \in [Task -> States]
      /\ sleeping \in Seq(Task) /\ Distinct(sleeping) /\ t \notin Members(sleeping)
  BY <1>1, CallerRuns DEF SchedulerInv, ListsHold
<1>3. /\ sleeping' \in Seq(Task) /\ Distinct(sleeping')
      /\ Members(sleeping') = Members(sleeping) \cup {t}
  BY <1>1, <1>2, EnqueueMembers
<1>4. /\ st \in [Task -> States] /\ st[t] = "SLEEPING"
      /\ \A u \in Task \ {t} : st[u] = state[u]
  BY <1>2 DEF States
<1>5. wakeup' \in [Task -> 0..Never]
  BY <1>1, TimeAssumption DEF SchedulerInv, TimesOK, Never
<1> HIDE DEF st
<1>6. ListsHold(st, ready, sleeping', stopped', waiting')
  BY <1>1, <1>2, <1>3, <1>4 DEF SchedulerInv, ListsHold
<1>7. OpenSection(st, ready, sleeping', stopped', waiting')
  BY <1>1, <1>2, <1>4, <1>6, CallerRuns DEF OpenSection, SchedulerInv, RunningIs
<1>8. t # Cleaner
  BY <1>1 DEF Calls
<1>9. SchedulerInv' /\ OnlyDispatches(st)
  BY <1>1, <1>4, <1>5, <1>7, <1>8, CallerRuns, TaskAssumption, ScheduleKeepsInv
     DEF SchedulerInv, TimesOK, CleanerWoken
<1> QED
  BY <1>2, <1>4, <1>9 DEF OnlyDispatches, SleepersKept

LEMMA SyncBlockKeepsInv ==
  ASSUME SchedulerInv, NEW t \in Task, NEW s \in Sync, SyncBlock(t, s)
  PROVE  SchedulerInv' /\ SleepersKept
<1> DEFINE st == [state EXCEPT ![t] = "BLOCKED"]
<1>1. /\ Calls(t) /\ Schedule(st, ready, elapsed)
      /\ waiting' = [waiting EXCEPT ![s] = Enqueue(waiting[s], t)]
      /\ UNCHANGED <<sleeping, stopped, wakeup, scan, need_schedule>>
  BY DEF SyncBlock, timerVars
<1>2. /\ current_task = t /\ state[t] = "RUNNING" /\ state \in [Task -> States]
      /\ waiting \in [Sync -> Seq(Task)] /\ \A r \in Sync : Distinct(waiting[r])
      /\ \A r \in Sync : t \notin Members(waiting[r])
  BY <1>1, CallerRuns DEF SchedulerInv, ListsHold
<1>3. /\ Enqueue(waiting[s], t) \in Seq(Task) /\ Distinct(Enqueue(waiting[s], t))
      /\ Members(Enqueue(waiting[s], t)) = Members(waiting[s]) \cup {t}
  BY <1>2, EnqueueMembers
<1>4. /\ waiting' \in [Sync -> Seq(Task)] /\ Distinct(waiting'[s])
      /\ Members(waiting'[s]) = Members(waiting[s]) \cup {t}
      /\ \A r \in Sync \ {s} : waiting'[r] = waiting[r]
  BY <1>1, <1>2, <1>3
<1>5. /\ st \in [Task -> States] /\ st[t] = "BLOCKED"
      /\ \A u \in Task \ {t} : st[u] = state[u]
  BY <1>2 DEF States
<1> HIDE DEF st
<1>6. ListsHold(st, ready, sleeping', stopped', waiting')
  <2>1. ASSUME NEW u \in Task
        PROVE  st[u] = "BLOCKED" <=> \E r \in Sync : u \in Members(waiting'[r])
    BY <1>2, <1>4, <1>5 DEF SchedulerInv, ListsHold
  <2>2. ASSUME NEW r \in Sync, NEW q \in Sync, r # q
        PROVE  Members(waiting'[r]) \cap Members(waiting'[q]) = {}
    <3>1. Members(waiting[r]) \cap Members(waiting[q]) = {}
      BY <2>2 DEF SchedulerInv, ListsHold
    <3>2. t \notin Members(waiting[r]) /\ t \notin Members(waiting[q])
      BY <1>2
    <3>3. /\ r = s \/ waiting'[r] = waiting[r]
          /\ q = s \/ waiting'[q] = waiting[q]
      BY <1>4
    <3> QED
      BY <1>4, <2>2, <3>1, <3>2, <3>3
  <2>3. \A r \in Sync : Distinct(waiting'[r])
    BY <1>2, <1>4
  <2>4. ASSUME NEW u \in Task
        PROVE  /\ st[u] = "READY" <=> u \in Members(ready)
               /\ st[u] = "SLEEPING" <=> u \in Members(sleeping')
               /\ st[u] = "STOPPED" <=> u \in Members(stopped')
    BY <1>1, <1>2, <1>5 DEF SchedulerInv, ListsHold
  <2> QED
    BY <1>1, <1>4, <1>5, <2>1, <2>2, <2>3, <2>4 DEF SchedulerInv, ListsHold
<1>7. OpenSection(st, ready, sleeping', stopped', waiting')
  BY <1>1, <1>2, <1>5, <1>6, CallerRuns DEF OpenSection, SchedulerInv, RunningIs
<1>8. t # Cleaner
  BY <1>1 DEF Calls
<1>9. SchedulerInv' /\ OnlyDispatches(st)
  BY <1>1, <1>5, <1>7, <1>8, CallerRuns, TaskAssumption, ScheduleKeepsInv
     DEF SchedulerInv, TimesOK, CleanerWoken
<1> QED
  BY <1>2, <1>5, <1>9 DEF OnlyDispatches, SleepersKept

LEMMA SyncUnblockKeepsInv ==
  ASSUME SchedulerInv, NEW t \in Task, NEW s \in Sync, SyncUnblock(t, s)
  PROVE  SchedulerInv' /\ SleepersKept
<1> DEFINE woken == Members(waiting[s])
           st == [u \in Task |-> IF u \in woken THEN "READY" ELSE state[u]]
           rdy == ready \o waiting[s]
<1>1. /\ Calls(t) /\ Schedule(st, rdy, elapsed)
      /\ waiting' = [waiting EXCEPT ![s] = <<>>]
      /\ wakeup' = [u \in Task |-> IF u \in woken THEN Never ELSE wakeup[u]]
      /\ UNCHANGED <<sleeping, stopped, scan, need_schedule>>
  BY DEF SyncUnblock, timerVars
<1>2. /\ current_task = t /\ state[t] = "RUNNING" /\ state \in [Task -> States]
      /\ waiting \in [Sync -> Seq(Task)] /\ \A r \in Sync : Distinct(waiting[r])
      /\ t \notin woken /\ woken \subseteq Task
      /\ \A u \in woken : state[u] = "BLOCKED"
      /\ ready \in Seq(Task) /\ Distinct(ready)
      /\ \A u \in Task : u \in Members(ready) <=> state[u] = "READY"
  BY <1>1, CallerRuns, MembersOfSeq DEF SchedulerInv, ListsHold
<1>3. /\ rdy \in Seq(Task) /\ Distinct(rdy) /\ Members(rdy) = Members(ready) \cup woken
  BY <1>2, AppendMembers
<1>4. /\ waiting' \in [Sync -> Seq(Task)] /\ Members(waiting'[s]) = {}
      /\ Distinct(waiting'[s]) /\ \A r \in Sync \ {s} : waiting'[r] = waiting[r]
  BY <1>1, <1>2, EmptyMembers
<1>5. /\ st \in [Task -> States] /\ \A u \in woken : st[u] = "READY"
      /\ \A u \in Task \ woken : st[u] = state[u]
  BY <1>2 DEF States
<1>6. wakeup' \in [Task -> 0..Never]
  <2>1. Never \in 0..Never
    BY TimeAssumption DEF Never
  <2> QED
    BY <1>1, <2>1 DEF SchedulerInv, TimesOK
<1> HIDE DEF st, rdy, woken
<1>7. ListsHold(st, rdy, sleeping', stopped', waiting')
  <2>1. ASSUME NEW u \in Task
        PROVE  st[u] = "BLOCKED" <=> \E r \in Sync : u \in Members(waiting'[r])
    <3>1. state[u] = "BLOCKED" <=> \E r \in Sync : u \in Members(waiting[r])
      BY DEF SchedulerInv, ListsHold
    <3>2. CASE u \in woken
      <4>1. \A r \in Sync \ {s} : u \notin Members(waiting[r])
        BY <3>2 DEF SchedulerInv, ListsHold, woken
      <4> QED
        BY <1>4, <1>5, <3>2, <4>1
    <3>3. CASE u \notin woken
      BY <1>4, <1>5, <3>1, <3>3 DEF woken
    <3> QED
      BY <3>2, <3>3
  <2>2. ASSUME NEW r \in Sync, NEW q \in Sync, r # q
        PROVE  Members(waiting'[r]) \cap Members(waiting'[q]) = {}
    <3>1. Members(waiting[r]) \cap Members(waiting[q]) = {}
      BY <2>2 DEF SchedulerInv, ListsHold
    <3>2. /\ Members(waiting'[r]) = {} \/ waiting'[r] = waiting[r]
          /\ Members(waiting'[q]) = {} \/ waiting'[q] = waiting[q]
      BY <1>4
    <3> QED
      BY <3>1, <3>2
  <2>3. \A r \in Sync : Distinct(waiting'[r])
    BY <1>2, <1>4
  <2>4. ASSUME NEW u \in Task
        PROVE  /\ st[u] = "READY" <=> u \in Members(rdy)
               /\ st[u] = "SLEEPING" <=> u \in Members(sleeping')
               /\ st[u] = "STOPPED" <=> u \in Members(stopped')
    BY <1>1, <1>2, <1>3, <1>5 DEF SchedulerInv, ListsHold
  <2> QED
    BY <1>1, <1>3, <1>4, <1>5, <2>1, <2>2, <2>3, <2>4 DEF SchedulerInv, ListsHold
<1>8. OpenSection(st, rdy, sleeping', stopped', waiting')
  BY <1>1, <1>2, <1>5, <1>7, CallerRuns DEF OpenSection, SchedulerInv, RunningIs
<1>9. Cleaner \notin woken
  <2>1. state[Cleaner] # "BLOCKED"
    BY DEF SchedulerInv, CleanerWoken
  <2> QED
    BY <1>2, <2>1
<1>10. SchedulerInv' /\ OnlyDispatches(st)
  BY <1>1, <1>5, <1>6, <1>8, <1>9, CallerRuns, TaskAssumption, ScheduleKeepsInv
     DEF SchedulerInv, TimesOK, CleanerWoken
<1> QED
  BY <1>2, <1>5, <1>10 DEF OnlyDispatches, SleepersKept

LEMMA TasksExitKeepsInv ==
  ASSUME SchedulerInv, ExitApart, NEW t \in Task, TasksExit(t)
  PROVE  SchedulerInv' /\ SleepersKept
<1> DEFINE st == [state EXCEPT ![t] = "STOPPED", ![Cleaner] = "READY"]
           rdy == Enqueue(ready, Cleaner)
<1>1. /\ Calls(t) /\ t \in Exiting /\ Schedule(st, rdy, elapsed)
      /\ stopped' = Enqueue(stopped, t)
      /\ UNCHANGED <<sleeping, waiting, wakeup, scan, need_schedule>>
  BY DEF TasksExit, timerVars
<1>2. /\ current_task = t /\ state[t] = "RUNNING" /\ state \in [Task -> States]
      /\ stopped \in Seq(Task) /\ Distinct(stopped) /\ t \notin Members(stopped)
      /\ ready \in Seq(Task) /\ Distinct(ready) /\ t # Cleaner /\ Cleaner \in Task
  BY <1>1, CallerRuns, TaskAssumption DEF SchedulerInv, ListsHold
<1>3. /\ stopped' \in Seq(Task) /\ Distinct(stopped') /\ stopped' # <<>>
      /\ Members(stopped') = Members(stopped) \cup {t}
  BY <1>1, <1>2, EnqueueMembers
<1>4. stopped = <<>> /\ state[Cleaner] = "PAUSED"
  BY <1>2, <1>3 DEF ExitApart, SchedulerInv, CleanerWoken
<1>5. Cleaner \notin Members(ready)
  BY <1>2, <1>4 DEF SchedulerInv, ListsHold
<1>6. /\ rdy \in Seq(Task) /\ Distinct(rdy) /\ rdy # <<>>
      /\ Members(rdy) = Members(ready) \cup {Cleaner}
  BY <1>2, <1>5, EnqueueMembers
<1>7. /\ st \in [Task -> States] /\ st[t] = "STOPPED" /\ st[Cleaner] = "READY"
      /\ \A u \in Task \ {t, Cleaner} : st[u] = state[u]
  BY <1>2 DEF States
<1> HIDE DEF st, rdy
<1>8. ListsHold(st, rdy, sleeping', stopped', waiting')
  <2>1. ASSUME NEW u \in Task
        PROVE  /\ st[u] = "READY" <=> u \in Members(rdy)
               /\ st[u] = "SLEEPING" <=> u \in Members(sleeping')
               /\ st[u] = "STOPPED" <=> u \in Members(stopped')
               /\ st[u] = "BLOCKED" <=> \E s \in Sync : u \in Members(waiting'[s])
    BY <1>1, <1>2, <1>3, <1>4, <1>6, <1>7 DEF SchedulerInv, ListsHold
  <2> QED
    BY <1>1, <1>3, <1>6, <1>7, <2>1 DEF SchedulerInv, ListsHold
<1>9. OpenSection(st, rdy, sleeping', stopped', waiting')
  BY <1>1, <1>2, <1>6, <1>7, <1>8, CallerRuns DEF OpenSection, SchedulerInv, RunningIs
<1>10. SchedulerInv' /\ OnlyDispatches(st)
  BY <1>1, <1>3, <1>7, <1>9, CallerRuns, TaskAssumption, ScheduleKeepsInv
     DEF SchedulerInv, TimesOK
<1> QED
  BY <1>2, <1>4, <1>7, <1>10 DEF OnlyDispatches, SleepersKept

LEMMA CleanerLoopKeepsInv ==
  ASSUME SchedulerInv, CleanerLoop
  PROVE  SchedulerInv' /\ SleepersKept
<1> DEFINE st == [t \in Task |-> CASE t \in Members(stopped) -> "UNUSED"
                                   [] t = Cleaner -> "PAUSED"
                                   [] OTHER -> state[t]]
<1>1. /\ scan = 0 /\ current_task = Cleaner /\ Schedule(st, ready, elapsed)
      /\ stopped' = <<>>
      /\ UNCHANGED <<sleeping, waiting, wakeup, scan, need_schedule>>
  BY DEF CleanerLoop, timerVars
<1>2. /\ state[Cleaner] = "RUNNING" /\ state \in [Task -> States] /\ Cleaner \in Task
      /\ Cleaner \notin Members(stopped) /\ Members(stopped) \subseteq Task
      /\ \A u \in Members(stopped) : state[u] = "STOPPED"
  BY <1>1, CallerRuns, TaskAssumption, MembersOfSeq DEF SchedulerInv, ListsHold
<1>3. /\ st \in [Task -> States] /\ st[Cleaner] = "PAUSED"
      /\ \A u \in Members(stopped) : st[u] = "UNUSED"
      /\ \A u \in Task \ (Members(stopped) \cup {Cleaner}) : st[u] = state[u]
  BY <1>2 DEF States
<1> HIDE DEF st
<1>4. stopped' \in Seq(Task) /\ Members(stopped') = {} /\ Distinct(stopped')
  BY <1>1, EmptyMembers
<1>5. ListsHold(st, ready, sleeping', stopped', waiting')
  <2>1. ASSUME NEW u \in Task
        PROVE  /\ st[u] = "READY" <=> u \in Members(ready)
               /\ st[u] = "SLEEPING" <=> u \in Members(sleeping')
               /\ st[u] = "STOPPED" <=> u \in Members(stopped')
               /\ st[u] = "BLOCKED" <=> \E s \in Sync : u \in Members(waiting'[s])
    BY <1>1, <1>2, <1>3, <1>4 DEF SchedulerInv, ListsHold
  <2> QED
    BY <1>1, <1>3, <1>4, <2>1 DEF SchedulerInv, ListsHold
<1>6. OpenSection(st, ready, sleeping', stopped', waiting')
  BY <1>1, <1>2, <1>3, <1>5, CallerRuns DEF OpenSection, SchedulerInv, RunningIs
<1>7. SchedulerInv' /\ OnlyDispatches(st)
  BY <1>1, <1>2, <1>3, <1>6, CallerRuns, ScheduleKeepsInv DEF SchedulerInv, TimesOK
<1> QED
  BY <1>2, <1>3, <1>7 DEF OnlyDispatches, SleepersKept

LEMMA IdleWakeKeepsInv ==
  ASSUME SchedulerInv, IdleWake
  PROVE  SchedulerInv' /\ SleepersKept
<1>1. /\ current_task = NULL /\ ready # <<>> /\ SwitchTo(borrowed, state, ready)
      /\ UNCHANGED <<sleeping, stopped, waiting, wakeup, scan, need_schedule>>
  BY DEF IdleWake, timerVars
<1>2. borrowed \in Task /\ \A t \in Task : state[t] # "RUNNING"
  BY <1>1, TaskAssumption DEF SchedulerInv, CpuOwned, RunningIs
<1>3. /\ ListsHold(state', ready', sleeping, stopped, waiting)
      /\ RunningIs(current_task', state')
      /\ current_task' \in Task /\ borrowed' = NULL
      /\ slice' = TimeSlice /\ elapsed' = 0
      /\ OnlyDispatches(state)
  BY <1>1, <1>2, SwitchKeepsLists DEF SchedulerInv
<1>4. ListsHold(state, ready, sleeping, stopped, waiting)' /\ RunningIs(current_task, state)'
  BY <1>1, <1>3 DEF RunningIs
<1>5. CpuOwned'
  BY <1>3, TaskAssumption, TimeAssumption DEF CpuOwned, IdleStackLive, SliceArmed
<1>6. TimesOK'
  BY <1>1, <1>3, TimeAssumption DEF SchedulerInv, TimesOK
<1>7. CleanerWoken'
  BY <1>1, <1>3, TaskAssumption DEF SchedulerInv, OnlyDispatches, CleanerWoken
<1> QED
  BY <1>3, <1>4, <1>5, <1>6, <1>7 DEF SchedulerInv, OnlyDispatches, SleepersKept

(* An iteration of _on_timer's walk moves one sleeper whose time has come to *)
(* the ready list.                                                          *)
LEMMA WakeSleeperKeepsInv ==
  ASSUME SchedulerInv, WakeSleeper
  PROVE  SchedulerInv' /\ SleepersKept
<1> DEFINE t == sleeping[scan]
<1>1. /\ scan \in DOMAIN sleeping /\ wakeup[t] = 0
      /\ state' = [state EXCEPT ![t] = "READY"]
      /\ wakeup' = [wakeup EXCEPT ![t] = Never]
      /\ ready' = Enqueue(ready, t)
      /\ sleeping' = RemoveTask(sleeping, scan)
      /\ need_schedule' = TRUE
      /\ UNCHANGED <<current_task, borrowed, stopped, waiting, slice, elapsed, scan>>
  BY DEF WakeSleeper, Expired
<1>2. ListsHold(state, ready, sleeping, stopped, waiting)
  BY DEF SchedulerInv
<1>3. /\ t \in Members(sleeping) /\ sleeping' \in Seq(Task) /\ Distinct(sleeping')
      /\ Members(sleeping') = Members(sleeping) \ {t}
  BY <1>1, <1>2, RemoveMembers DEF ListsHold
<1>4. /\ t \in Task /\ state[t] = "SLEEPING" /\ t \notin Members(ready)
      /\ state \in [Task -> States] /\ ready \in Seq(Task) /\ Distinct(ready)
  BY <1>2, <1>3, MembersOfSeq DEF ListsHold
<1> HIDE DEF t
<1>5. /\ ready' \in Seq(Task) /\ Distinct(ready')
      /\ Members(ready') = Members(ready) \cup {t}
  BY <1>1, <1>4, EnqueueMembers
<1>6. /\ state' \in [Task -> States] /\ state'[t] = "READY"
      /\ \A u \in Task \ {t} : state'[u] = state[u]
  BY <1>1, <1>4 DEF States
<1>7. ListsHold(state, ready, sleeping, stopped, waiting)'
  <2>1. ASSUME NEW u \in Task
        PROVE  /\ state'[u] = "READY" <=> u \in Members(ready')
               /\ state'[u] = "SLEEPING" <=> u \in Members(sleeping')
               /\ state'[u] = "STOPPED" <=> u \in Members(stopped')
               /\ state'[u] = "BLOCKED" <=> \E s \in Sync : u \in Members(waiting'[s])
    BY <1>1, <1>2, <1>3, <1>4, <1>5, <1>6 DEF ListsHold
  <2> QED
    BY <1>1, <1>2, <1>3, <1>5, <1>6, <2>1 DEF ListsHold
<1>8. RunningIs(current_task, state)'
  BY <1>1, <1>4, <1>6 DEF SchedulerInv, RunningIs
<1>9. CpuOwned'
  BY <1>1, <1>6 DEF SchedulerInv, CpuOwned, IdleStackLive, SliceArmed
<1>10. TimesOK'
  <2>1. Never \in 0..Never
    BY TimeAssumption DEF Never
  <2> QED
    BY <1>1, <2>1 DEF SchedulerInv, TimesOK
<1>11. CleanerWoken'
  <2>1. t # Cleaner
    BY <1>4 DEF SchedulerInv, CleanerWoken
  <2> QED
    BY <1>1, <1>6, <2>1, TaskAssumption DEF SchedulerInv, CleanerWoken
<1>12. SleepersKept
  BY <1>1, <1>6 DEF SleepersKept
<1> QED
  BY <1>7, <1>8, <1>9, <1>10, <1>11, <1>12 DEF SchedulerInv

LEMMA OnTimerScheduleKeepsInv ==
  ASSUME SchedulerInv, OnTimerSchedule
  PROVE  SchedulerInv' /\ SleepersKept
<1> DEFINE since == IF slice # 0 THEN 0 ELSE elapsed
<1>1. /\ current_task # NULL /\ scan' = 0 /\ need_schedule' = FALSE
      /\ Schedule(state, ready, since)
      /\ UNCHANGED <<sleeping, stopped, waiting, wakeup>>
  BY DEF OnTimerSchedule
<1>2. since \in 0..TimeSlice
  BY TimeAssumption DEF SchedulerInv, TimesOK
<1> HIDE DEF since
<1>3. OpenSection(state, ready, sleeping', stopped', waiting')
  BY <1>1 DEF OpenSection, SchedulerInv, RunningIs, CpuOwned
<1>4. SchedulerInv' /\ OnlyDispatches(state)
  BY <1>1, <1>2, <1>3, ScheduleKeepsInv DEF SchedulerInv, TimesOK, CleanerWoken
<1> QED
  BY <1>4 DEF OnlyDispatches, SleepersKept

(* The steps that move no task.                                              *)
LEMMA QuietKeepsInv ==
  ASSUME SchedulerInv,
         OnTimer \/ PassSleeper \/ OnTimerReturn \/ Elapse \/ UNCHANGED vars
  PROVE  SchedulerInv' /\ SleepersKept
<1> USE TimeAssumption
<1>1. UNCHANGED <<current_task, borrowed, state, ready, sleeping, stopped, waiting>>
  BY DEF OnTimer, PassSleeper, OnTimerReturn, Elapse, vars
<1>2. /\ ListsHold(state, ready, sleeping, stopped, waiting)'
      /\ RunningIs(current_task, state)' /\ CleanerWoken' /\ SleepersKept
  BY <1>1 DEF SchedulerInv, ListsHold, RunningIs, CleanerWoken, SleepersKept
<1>3. CASE OnTimer
  BY <1>1, <1>2, <1>3 DEF OnTimer, SchedulerInv, CpuOwned, IdleStackLive, SliceArmed, TimesOK
<1>4. CASE PassSleeper
  BY <1>1, <1>2, <1>4 DEF PassSleeper, SchedulerInv, CpuOwned, IdleStackLive, SliceArmed, TimesOK
<1>5. CASE OnTimerReturn
  <2>1. slice' \in 0..TimeSlice /\ elapsed' \in 0..TimeSlice
    BY <1>5 DEF OnTimerReturn, SchedulerInv, CpuOwned, TimesOK, WantsSchedule, SliceExpired
  <2>2. SliceArmed' /\ (current_task' = NULL => slice' = 0)
    BY <1>1, <1>5
       DEF OnTimerReturn, SchedulerInv, CpuOwned, SliceArmed, TimesOK, WantsSchedule, SliceExpired
  <2>3. CpuOwned'
    BY <1>1, <2>1, <2>2 DEF SchedulerInv, CpuOwned, IdleStackLive
  <2>4. TimesOK'
    BY <1>5, <2>1 DEF OnTimerReturn, SchedulerInv, TimesOK
  <2> QED
    BY <1>2, <2>3, <2>4 DEF SchedulerInv
<1>6. CASE Elapse
  <2>1. elapsed' \in 0..TimeSlice
    BY <1>6 DEF Elapse, SchedulerInv, TimesOK, Lesser
  <2>2. wakeup' \in [Task -> 0..Never]
    BY <1>6 DEF Elapse, SchedulerInv, TimesOK, Never
  <2> QED
    BY <1>1, <1>2, <1>6, <2>1, <2>2
       DEF Elapse, timerVars, SchedulerInv, CpuOwned, IdleStackLive, SliceArmed, TimesOK
<1>7. CASE UNCHANGED vars
  BY <1>1, <1>2, <1>7 DEF vars, SchedulerInv, CpuOwned, IdleStackLive, SliceArmed, TimesOK
<1> QED
  BY <1>3, <1>4, <1>5, <1>6, <1>7

(* Every step of the scheduler keeps the invariant and no sleeper is woken   *)
(* early, as long as tasks exit one at a time.                              *)
LEMMA StepKeepsInv ==
  ASSUME SchedulerInv, [Next]_vars, ExitApart
  PROVE  SchedulerInv' /\ SleepersKept
<1>1. CASE \E t \in Task : Operation(t)
  <2> PICK t \in Task : Operation(t)
    BY <1>1
  <2>1. CASE \E new \in Task : TasksNew(t, new)
    BY <2>1, TasksNewKeepsInv
  <2>2. CASE TasksSchedule(t)
    BY <2>2, TasksScheduleKeepsInv
  <2>3. CASE BlockCurrentPaused(t)
    BY <2>3, BlockCurrentPausedKeepsInv
  <2>4. CASE \E time \in 0..MaxSleep : NanoSleep(t, time)
    BY <2>4, NanoSleepKeepsInv
  <2>5. CASE \E s \in Sync : SyncBlock(t, s) \/ SyncUnblock(t, s)
    BY <2>5, SyncBlockKeepsInv, SyncUnblockKeepsInv
  <2>6. CASE TasksExit(t)
    BY <2>6, TasksExitKeepsInv
  <2> QED
    BY <2>1, <2>2, <2>3, <2>4, <2>5, <2>6 DEF Operation
<1>2. CASE CleanerLoop
  BY <1>2, CleanerLoopKeepsInv
<1>3. CASE IdleWake
  BY <1>3, IdleWakeKeepsInv
<1>4. CASE Timer
  BY <1>4, QuietKeepsInv, WakeSleeperKeepsInv, OnTimerScheduleKeepsInv DEF Timer
<1>5. CASE Elapse \/ UNCHANGED vars
  BY <1>5, QuietKeepsInv
<1> QED
  BY <1>1, <1>2, <1>3, <1>4, <1>5 DEF Next

(***************************************************************************)
(* Theorems.                                                               *)
(***************************************************************************)
(* With tasks exiting one at a time, for any tasks, primitives and slice:   *)
(* states and lists agree, the idle loop borrows a live stack, preemption   *)
(* stays armed.                                                             *)
THEOREM ListsMatchIfExitsApart ==
  Spec /\ [][ExitApart]_vars => [](StatesMatchLists /\ IdleStackLive /\ SliceArmed)
<1>1. Init => SchedulerInv
  BY InitEstablishesInv
<1>2. SchedulerInv /\ [Next]_vars /\ [ExitApart]_vars => SchedulerInv'
  <2>1. CASE UNCHANGED vars
    BY <2>1, QuietKeepsInv
  <2>2. CASE ~UNCHANGED vars
    BY <2>2, StepKeepsInv
  <2> QED
    BY <2>1, <2>2
<1>3. SchedulerInv => StatesMatchLists /\ IdleStackLive /\ SliceArmed
  BY InvGivesProperties
<1> QED
  BY <1>1, <1>2, <1>3, PTL DEF Spec

(* Where at most one task has an entry function that returns, exits are     *)
(* always apart: the cleaner has freed the task before it can exit again.   *)
LEMMA SingleExiterApart ==
  ASSUME \A t, u \in Exiting : t = u,
         SchedulerInv, Members(stopped) \subseteq Exiting, [Next]_vars
  PROVE  ExitApart /\ (Members(stopped) \subseteq Exiting)'
<1>1. CASE stopped' = stopped
  BY <1>1 DEF ExitApart
<1>2. CASE \E t \in Task : TasksExit(t)
  <2> PICK t \in Task : TasksExit(t)
    BY <1>2
  <2>1. Calls(t) /\ t \in Exiting /\ stopped' = Enqueue(stopped, t)
    BY DEF TasksExit
  <2>2. stopped \in Seq(Task) /\ t \notin Members(stopped)
    BY <2>1, CallerRuns DEF SchedulerInv, ListsHold
  <2>3. stopped = <<>>
    BY <2>1, <2>2, EmptyMembers
  <2>4. Members(stopped') = Members(stopped) \cup {t}
    BY <2>1, <2>2, EnqueueMembers
  <2> QED
    BY <2>1, <2>3, <2>4 DEF ExitApart
<1>3. CASE CleanerLoop
  BY <1>3, EmptyMembers DEF CleanerLoop, ExitApart
<1>4. stopped' = stopped \/ (\E t \in Task : TasksExit(t)) \/ CleanerLoop
  BY DEF Next, Operation, TasksNew, TasksSchedule, BlockCurrentPaused, NanoSleep, SyncBlock,
         SyncUnblock, IdleWake, Timer, OnTimer, WakeSleeper, PassSleeper, OnTimerSchedule,
         OnTimerReturn, Elapse, vars
<1> QED
  BY <1>1, <1>2, <1>3, <1>4

(* At most one task has an entry function that returns.                     *)
OneExiter == \A t, u \in Exiting : t = u

LEMMA OneExiterInv ==
  ASSUME OneExiter
  PROVE  Spec => [](SchedulerInv /\ Members(stopped) \subseteq Exiting)
<1> DEFINE Inv == SchedulerInv /\ Members(stopped) \subseteq Exiting
<1>1. Init => Inv
  BY InitEstablishesInv, EmptyMembers DEF Init
<1>2. Inv /\ [Next]_vars => Inv'
  BY StepKeepsInv, SingleExiterApart DEF OneExiter
<1> HIDE DEF Inv
<1>3. Spec => []Inv
  BY <1>1, <1>2, PTL DEF Spec
<1> QED
  BY <1>3 DEF Inv

(* Every state a task can be in has its list, through any interleaving of    *)
(* operations, preemption and timer walks, for any number of tasks that do   *)
(* not return and one that does, again and again.                           *)
THEOREM TasksAreListed ==
  ASSUME OneExiter
  PROVE  Spec => []StatesMatchLists
<1>1. SchedulerInv => StatesMatchLists
  BY InvGivesProperties
<1> QED
  BY <1>1, OneExiterInv, PTL

(* _schedule never idles on the stack of a task that exited.                *)
THEOREM IdleStackIsLive ==
  ASSUME OneExiter
  PROVE  Spec => []IdleStackLive
<1>1. SchedulerInv => IdleStackLive
  BY InvGivesProperties
<1> QED
  BY <1>1, OneExiterInv, PTL

(* The arithmetic of the time slice never leaves a running task without one. *)
THEOREM SliceStaysArmed ==
  ASSUME OneExiter
  PROVE  Spec => []SliceArmed
<1>1. SchedulerInv => SliceArmed
  BY InvGivesProperties
<1> QED
  BY <1>1, OneExiterInv, PTL

(* Only _on_timer's walk ends a sleep, and only when its time has come.     *)
THEOREM NobodyWakesEarly ==
  ASSUME OneExiter
  PROVE  Spec => NoEarlyWake
<1> DEFINE Inv == SchedulerInv /\ Members(stopped) \subseteq Exiting
<1>1. Inv /\ [Next]_vars =>
        [\A t \in Task : (state[t] = "SLEEPING" /\ state'[t] # "SLEEPING") => wakeup[t] = 0]_vars
  BY StepKeepsInv, SingleExiterApart DEF OneExiter, SleepersKept
<1>2. Spec => []Inv
  BY OneExiterInv
<1> HIDE DEF Inv
<1> QED
  BY <1>1, <1>2, PTL DEF Spec, NoEarlyWake
=============================================================================
