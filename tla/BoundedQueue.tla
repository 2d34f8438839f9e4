---------------------------- MODULE BoundedQueue ----------------------------
(***************************************************************************)
(* What Library/RingBuffer.hpp promises: a first-in first-out queue of at  *)
(* most Capacity values, whose calls report a status and a value.          *)
(***************************************************************************)
EXTENDS Integers, Sequences

CONSTANTS
  Capacity,  \* how many values fit
  Value,     \* what may be queued
  Zero       \* the value handed out when there is none

VARIABLES
  queue,     \* the queued values, oldest first
  reply      \* status and value of the last call

Reply(status, val) == [status |-> status, val |-> val]

QueueInit == queue = <<>> /\ reply = Reply(0, Zero)

Put(v) ==
  \/ /\ Len(queue) < Capacity
     /\ queue' = Append(queue, v)
     /\ reply' = Reply(0, v)
  \/ /\ Len(queue) = Capacity
     /\ queue' = queue
     /\ reply' = Reply(-1, v)

Get ==
  \/ /\ queue # <<>>
     /\ queue' = Tail(queue)
     /\ reply' = Reply(0, Head(queue))
  \/ /\ queue = <<>>
     /\ queue' = queue
     /\ reply' = Reply(-1, Zero)

Look ==
  /\ queue' = queue
  /\ reply' = IF queue = <<>> THEN Reply(-1, Zero) ELSE Reply(0, Head(queue))

QueueNext == (\E v \in Value : Put(v)) \/ Get \/ Look

QueueSpec == QueueInit /\ [][QueueNext]_<<queue, reply>>
=============================================================================
