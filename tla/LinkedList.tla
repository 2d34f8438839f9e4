----------------------------- MODULE LinkedList -----------------------------
(***************************************************************************)
(* Library/LinkedList.hpp: a doubly linked list.  A node stands for its     *)
(* value; order is the sequence the list is meant to be, which each call    *)
(* updates by its meaning while the pointers follow the code.  Callers pass *)
(* nodes of the list; a removed node is theirs to delete and keeps its old  *)
(* links.                                                                   *)
(***************************************************************************)
EXTENDS Integers, Sequences

LX == INSTANCE SequencesExt

CONSTANTS Node, NullNode

ASSUME NullNodeAssumption == NullNode \notin Node

VARIABLES
  first, last, count,  \* head, tail and count of the list
  next, prev,          \* links of every allocated node
  removed,             \* nodes handed back by Remove, not yet deleted
  order                \* the list as a sequence, first node first

listVars == <<first, last, count, next, prev, removed, order>>

Listed == LX!ToSet(order)
Fresh == Node \ (Listed \cup removed)
Position(n) == CHOOSE i \in DOMAIN order : order[i] = n

ListInit ==
  /\ first = NullNode /\ last = NullNode /\ count = 0
  /\ next = [n \in Node |-> NullNode] /\ prev = next
  /\ removed = {} /\ order = <<>>

(* new node into an empty list: InsertFront and InsertBack.                 *)
InsertFirst(new) ==
  /\ first = NullNode
  /\ first' = new /\ last' = new
  /\ next' = [next EXCEPT ![new] = NullNode]
  /\ prev' = [prev EXCEPT ![new] = NullNode]
  /\ count' = count + 1
  /\ order' = <<new>>
  /\ UNCHANGED removed

InsertBefore(n, new) ==
  /\ prev' = [m \in Node |-> IF m = new THEN prev[n] ELSE IF m = n THEN new ELSE prev[m]]
  /\ next' = [m \in Node |-> IF m = new THEN n ELSE IF m = prev[n] THEN new ELSE next[m]]
  /\ first' = IF prev[n] = NullNode THEN new ELSE first
  /\ count' = count + 1
  /\ order' = LX!InsertAt(order, Position(n), new)
  /\ UNCHANGED <<last, removed>>

InsertAfter(n, new) ==
  /\ next' = [m \in Node |-> IF m = new THEN next[n] ELSE IF m = n THEN new ELSE next[m]]
  /\ prev' = [m \in Node |-> IF m = new THEN n ELSE IF m = next[n] THEN new ELSE prev[m]]
  /\ last' = IF next[n] = NullNode THEN new ELSE last
  /\ count' = count + 1
  /\ order' = LX!InsertAt(order, Position(n) + 1, new)
  /\ UNCHANGED <<first, removed>>

InsertFront(new) == first # NullNode /\ InsertBefore(first, new)
InsertBack(new) == last # NullNode /\ InsertAfter(last, new)

(* Fault: the tail is only moved when the head is not.                      *)
RemoveElse(del) ==
  /\ first' = IF del = first THEN next[del] ELSE first
  /\ last' = IF del # first /\ del = last THEN prev[del] ELSE last
  /\ prev' = [m \in Node |-> IF m = next[del] THEN prev[del] ELSE prev[m]]
  /\ next' = [m \in Node |-> IF m = prev[del] THEN next[del] ELSE next[m]]
  /\ count' = count - 1
  /\ removed' = removed \cup {del}
  /\ order' = LX!RemoveAt(order, Position(del))
Remove(del) ==
  /\ first' = IF del = first THEN next[del] ELSE first
  /\ last' = IF del = last THEN prev[del] ELSE last
  /\ prev' = [m \in Node |-> IF m = next[del] THEN prev[del] ELSE prev[m]]
  /\ next' = [m \in Node |-> IF m = prev[del] THEN next[del] ELSE next[m]]
  /\ count' = count - 1
  /\ removed' = removed \cup {del}
  /\ order' = LX!RemoveAt(order, Position(del))

RemoveFront == first # NullNode /\ Remove(first)
RemoveBack == last # NullNode /\ Remove(last)
(* With no neighbour on that side the code would dereference NULL.          *)
RemoveBefore(n) == prev[n] # NullNode /\ Remove(prev[n])
RemoveAfter(n) == next[n] # NullNode /\ Remove(next[n])

(* The caller deletes a node it got back.                                   *)
Delete(n) ==
  /\ removed' = removed \ {n}
  /\ UNCHANGED <<first, last, count, next, prev, order>>

(* ~LinkedList: RemoveBack and delete until it returns NULL.                *)
Destroy ==
  /\ order # <<>>
  /\ first' = NullNode /\ last' = NullNode /\ count' = 0
  /\ order' = <<>>
  /\ UNCHANGED <<next, prev, removed>>

ListNext ==
  \/ \E new \in Fresh :
       \/ InsertFirst(new) \/ InsertFront(new) \/ InsertBack(new)
       \/ \E n \in Listed : InsertBefore(n, new) \/ InsertAfter(n, new)
  \/ \E n \in Listed : Remove(n) \/ RemoveBefore(n) \/ RemoveAfter(n)
  \/ RemoveFront \/ RemoveBack \/ Destroy
  \/ \E n \in removed : Delete(n)

ListSpec == ListInit /\ [][ListNext]_listVars

(***************************************************************************)
(* Properties.                                                             *)
(***************************************************************************)
ListLen == Len(order)

(* Walking next from the head visits exactly the nodes of the list in       *)
(* order and ends; Count() is their number.  A removed or deleted node is   *)
(* never reached, although it keeps its own links.                          *)
ForwardWalk ==
  /\ count = ListLen
  /\ first = IF order = <<>> THEN NullNode ELSE order[1]
  /\ \A i \in 1..ListLen : next[order[i]] = IF i = ListLen THEN NullNode ELSE order[i + 1]

(* Walking prev from the tail visits the same nodes in the opposite order.  *)
BackwardWalk ==
  /\ last = IF order = <<>> THEN NullNode ELSE order[ListLen]
  /\ \A i \in 1..ListLen : prev[order[i]] = IF i = 1 THEN NullNode ELSE order[i - 1]

(* Through any sequence of insertions, removals and deletions both chains of  *)
(* pointers are the same list.                                              *)
BothWalksAgree == ForwardWalk /\ BackwardWalk
=============================================================================
