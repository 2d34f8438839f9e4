----------------------------- MODULE TaskQueues -----------------------------
(***************************************************************************)
(* What the task lists promise: two queues of tasks.  Tasks are dispatched *)
(* in the order in which they became ready, a sleeper may be taken out of  *)
(* the middle, and no task is ever lost or in two places.                  *)
(***************************************************************************)
EXTENDS Integers, Sequences

CONSTANTS Task, Main, NULL

VARIABLES running, readyQ, sleepQ

queues == <<running, readyQ, sleepQ>>

Queued(q) == {q[i] : i \in DOMAIN q}

Init == running = Main /\ readyQ = <<>> /\ sleepQ = <<>>

Create(t) ==
  /\ t \notin Queued(readyQ) \cup Queued(sleepQ) \cup {running}
  /\ readyQ' = Append(readyQ, t)
  /\ UNCHANGED <<running, sleepQ>>

(* The running task goes to the end of the line.                            *)
Rotate ==
  /\ running # NULL /\ readyQ # <<>>
  /\ running' = Head(readyQ)
  /\ readyQ' = Append(Tail(readyQ), running)
  /\ UNCHANGED sleepQ

Sleep ==
  /\ running # NULL
  /\ sleepQ' = Append(sleepQ, running)
  /\ running' = IF readyQ = <<>> THEN NULL ELSE Head(readyQ)
  /\ readyQ' = IF readyQ = <<>> THEN <<>> ELSE Tail(readyQ)

Wake(i) ==
  /\ readyQ' = Append(readyQ, sleepQ[i])
  /\ sleepQ' = SubSeq(sleepQ, 1, i - 1) \o SubSeq(sleepQ, i + 1, Len(sleepQ))
  /\ UNCHANGED running

Dispatch ==
  /\ running = NULL /\ readyQ # <<>>
  /\ running' = Head(readyQ)
  /\ readyQ' = Tail(readyQ)
  /\ UNCHANGED sleepQ

Next ==
  \/ \E t \in Task : Create(t)
  \/ Rotate \/ Sleep \/ Dispatch
  \/ \E i \in DOMAIN sleepQ : Wake(i)

Spec == Init /\ [][Next]_queues
=============================================================================
