--------------------------- MODULE TaskListProofs ---------------------------
(***************************************************************************)
(* What the pointer operations of TaskList do to the sequence a list       *)
(* holds, for lists of any length.  These are the facts that let the other *)
(* modules treat a task list as a sequence.                                *)
(***************************************************************************)
EXTENDS TaskLists, TLAPS, SequenceTheorems, FiniteSetTheorems, WellFoundedInduction

(* _enqueue_task appends a task that is not in the list.                    *)
THEOREM EnqueueAppends ==
  ASSUME NEW list \in ListType, NEW nxt \in NextType, NEW task \in Task,
         NEW q, IsList(list, nxt, q), Outside(q, task)
  PROVE  IsList(EnqueueList(list, task), EnqueueNext(list, nxt, task), Append(q, task))
<1> DEFINE a == Append(q, task)
           n == Len(q)
<1> USE NullAssumption DEF IsList
<1>1. /\ a \in Seq(Task) /\ Len(a) = n + 1 /\ n \in Nat
      /\ \A i \in 1..n : a[i] = q[i] /\ q[i] \in Task
      /\ a[n + 1] = task
  OBVIOUS
<1> HIDE DEF a
<1>2. ASSUME NEW i \in 1..Len(a), NEW j \in 1..Len(a), a[i] = a[j]
      PROVE  i = j
  <2>1. i \in 1..n \/ i = n + 1
    BY <1>1
  <2>2. j \in 1..n \/ j = n + 1
    BY <1>1
  <2>3. CASE i \in 1..n /\ j \in 1..n
    BY <1>1, <1>2, <2>3
  <2>4. CASE i \in 1..n /\ j = n + 1
    BY <1>1, <1>2, <2>4 DEF Outside
  <2>5. CASE i = n + 1 /\ j \in 1..n
    BY <1>1, <1>2, <2>5 DEF Outside
  <2>6. CASE i = n + 1 /\ j = n + 1
    BY <2>6
  <2> QED BY <2>1, <2>2, <2>3, <2>4, <2>5, <2>6
<1>3. /\ EnqueueList(list, task).head = a[1]
      /\ EnqueueList(list, task).tail = a[Len(a)]
  BY <1>1 DEF EnqueueList
<1>4. ASSUME NEW i \in 1..Len(a)
      PROVE  EnqueueNext(list, nxt, task)[a[i]]
               = IF i = Len(a) THEN NULL ELSE a[i + 1]
  <2>1. CASE i = n + 1
    BY <1>1, <2>1 DEF EnqueueNext
  <2>2. CASE i = n
    BY <1>1, <2>2 DEF EnqueueNext, Outside
  <2>3. CASE i < n
    <3>1. i \in 1..n /\ n \in 1..n /\ i + 1 \in 1..n /\ i # n /\ i # Len(a)
      BY <1>1, <2>3
    <3>2. q[i] # q[n] /\ q[i] # task /\ a[i] = q[i] /\ a[i + 1] = q[i + 1]
      BY <1>1, <3>1 DEF Outside
    <3>3. list.tail = q[n] /\ nxt[q[i]] = q[i + 1]
      BY <1>1, <3>1
    <3>4. EnqueueNext(list, nxt, task)[q[i]] = nxt[q[i]]
      BY <1>1, <3>1, <3>2, <3>3 DEF EnqueueNext
    <3> QED
      BY <3>1, <3>2, <3>3, <3>4
  <2> QED BY <1>1, <2>1, <2>2, <2>3
<1> QED BY <1>1, <1>2, <1>3, <1>4 DEF a

(* Enqueueing a task that is in the list cuts the list off behind it.       *)
THEOREM EnqueueTwiceTruncates ==
  ASSUME NEW list \in ListType, NEW nxt \in NextType,
         NEW q, IsList(list, nxt, q), NEW k \in 1..Len(q)
  PROVE  IsList(EnqueueList(list, q[k]), EnqueueNext(list, nxt, q[k]), SubSeq(q, 1, k))
<1> DEFINE a == SubSeq(q, 1, k)
           n == Len(q)
<1> USE NullAssumption DEF IsList
<1>1. /\ a \in Seq(Task) /\ Len(a) = k /\ k \in Nat /\ n \in Nat
      /\ \A i \in 1..k : a[i] = q[i] /\ i \in 1..n
      /\ \A i \in 1..n : q[i] \in Task
  OBVIOUS
<1> HIDE DEF a
<1>2. \A i, j \in 1..Len(a) : a[i] = a[j] => i = j
  BY <1>1
<1>3. /\ EnqueueList(list, q[k]).head = a[1]
      /\ EnqueueList(list, q[k]).tail = a[Len(a)]
  BY <1>1 DEF EnqueueList
<1>4. ASSUME NEW i \in 1..Len(a)
      PROVE  EnqueueNext(list, nxt, q[k])[a[i]]
               = IF i = Len(a) THEN NULL ELSE a[i + 1]
  <2>1. CASE i = k
    BY <1>1, <2>1 DEF EnqueueNext
  <2>2. CASE i < k
    <3>1. /\ i \in 1..n /\ i + 1 \in 1..k /\ n \in 1..n
          /\ q[i] # q[k] /\ q[i] # q[n] /\ i # n
      BY <1>1, <2>2
    <3> QED BY <1>1, <2>2, <3>1 DEF EnqueueNext
  <2> QED BY <1>1, <2>1, <2>2
<1> QED BY <1>1, <1>2, <1>3, <1>4 DEF a

(* _dequeue_task takes the first task off, and leaves its next pointer NULL. *)
THEOREM DequeueTakesHead ==
  ASSUME NEW list \in ListType, NEW nxt \in NextType,
         NEW q, IsList(list, nxt, q), list.head # NULL
  PROVE  /\ q # <<>> /\ list.head = Head(q)
         /\ IsList(DequeueList(list, nxt), DequeueNext(list, nxt), Tail(q))
         /\ DequeueNext(list, nxt)[Head(q)] = NULL
<1> DEFINE a == Tail(q)
           n == Len(q)
<1> USE NullAssumption DEF IsList
<1>1. n \in Nat /\ n > 0 /\ q # <<>> /\ list.head = q[1] /\ Head(q) = q[1]
  OBVIOUS
<1>2. /\ a \in Seq(Task) /\ Len(a) = n - 1
      /\ \A i \in 1..(n - 1) : a[i] = q[i + 1] /\ i + 1 \in 1..n
      /\ \A i \in 1..n : q[i] \in Task
  BY <1>1
<1> HIDE DEF a
<1>3. \A i, j \in 1..Len(a) : a[i] = a[j] => i = j
  BY <1>1, <1>2
<1>4. DequeueNext(list, nxt)[q[1]] = NULL
  BY <1>1, <1>2 DEF DequeueNext, NextType
<1>5. /\ Len(a) = 0 => /\ DequeueList(list, nxt).head = NULL
                       /\ DequeueList(list, nxt).tail = NULL
      /\ Len(a) > 0 => /\ DequeueList(list, nxt).head = a[1]
                       /\ DequeueList(list, nxt).tail = a[Len(a)]
  <2>1. CASE n = 1
    BY <1>1, <1>2, <2>1 DEF DequeueList
  <2>2. CASE n > 1
    <3>1. nxt[q[1]] = q[2] /\ q[2] # NULL /\ a[1] = q[2] /\ a[n - 1] = q[n]
      BY <1>1, <1>2, <2>2
    <3> QED BY <1>1, <1>2, <2>2, <3>1 DEF DequeueList
  <2>3. n = 1 \/ n > 1
    <3> HIDE DEF IsList, n
    <3> QED BY <1>1
  <2> QED BY <2>1, <2>2, <2>3
<1>6. ASSUME NEW i \in 1..Len(a)
      PROVE  DequeueNext(list, nxt)[a[i]] = IF i = Len(a) THEN NULL ELSE a[i + 1]
  <2>1. a[i] = q[i + 1] /\ i + 1 \in 1..n /\ q[i + 1] # q[1] /\ 1 \in 1..n
    BY <1>1, <1>2
  <2>2. DequeueNext(list, nxt)[a[i]] = nxt[q[i + 1]]
    BY <1>1, <1>2, <2>1 DEF DequeueNext, NextType
  <2>3. CASE i = n - 1
    BY <1>1, <1>2, <2>1, <2>2, <2>3
  <2>4. CASE i < n - 1
    <3>1. i + 1 \in 1..(n - 1) /\ a[i + 1] = q[(i + 1) + 1]
      BY <1>1, <1>2, <2>4
    <3> QED BY <1>1, <1>2, <2>1, <2>2, <2>4, <3>1
  <2> QED BY <1>1, <1>2, <2>3, <2>4
<1>7. IsList(DequeueList(list, nxt), DequeueNext(list, nxt), a)
  BY <1>2, <1>3, <1>5, <1>6
<1> QED BY <1>1, <1>4, <1>7 DEF a

(* _remove_task, called with the true predecessor, unlinks just that task.  *)
THEOREM RemoveUnlinks ==
  ASSUME NEW list \in ListType, NEW nxt \in NextType,
         NEW q, IsList(list, nxt, q), NEW k \in 1..Len(q),
         NEW previous \in Pointer,
         k = 1 => previous = NULL,
         k > 1 => previous = q[k - 1]
  PROVE  /\ ~BogusRemove(nxt, q[k], previous)
         /\ IsList(RemoveList(list, nxt, q[k], previous),
                   RemoveNext(nxt, q[k], previous),
                   SubSeq(q, 1, k - 1) \o SubSeq(q, k + 1, Len(q)))
<1> DEFINE a == SubSeq(q, 1, k - 1) \o SubSeq(q, k + 1, Len(q))
           n == Len(q)
           l == RemoveList(list, nxt, q[k], previous)
           x == RemoveNext(nxt, q[k], previous)
<1> USE NullAssumption DEF IsList
<1>1. /\ n \in Nat /\ k \in 1..n /\ n > 0
      /\ \A i \in 1..n : q[i] \in Task /\ q[i] # NULL
      /\ \A i, j \in 1..n : q[i] = q[j] => i = j
  OBVIOUS
<1>2. /\ a \in Seq(Task) /\ Len(a) = n - 1
      /\ \A i \in 1..(k - 1) : a[i] = q[i]
      /\ \A i \in k..(n - 1) : a[i] = q[i + 1]
  <2>1. /\ SubSeq(q, 1, k - 1) \in Seq(Task) /\ Len(SubSeq(q, 1, k - 1)) = k - 1
        /\ \A i \in 1..(k - 1) : SubSeq(q, 1, k - 1)[i] = q[i]
    BY <1>1, SubSeqProperties
  <2>2. /\ SubSeq(q, k + 1, n) \in Seq(Task) /\ Len(SubSeq(q, k + 1, n)) = n - k
        /\ \A i \in 1..(n - k) : SubSeq(q, k + 1, n)[i] = q[k + i]
    BY <1>1, SubSeqProperties
  <2> DEFINE b == SubSeq(q, 1, k - 1)
             c == SubSeq(q, k + 1, n)
  <2> HIDE DEF b, c, n, IsList
  <2>3. /\ b \o c \in Seq(Task) /\ Len(b \o c) = Len(b) + Len(c)
        /\ \A i \in 1..(Len(b) + Len(c)) :
             (b \o c)[i] = IF i <= Len(b) THEN b[i] ELSE c[i - Len(b)]
    BY <2>1, <2>2, ConcatProperties DEF b, c
  <2>4. Len(b) = k - 1 /\ Len(c) = n - k /\ Len(b) + Len(c) = n - 1
    BY <1>1, <2>1, <2>2 DEF b, c
  <2>5. ASSUME NEW i \in 1..(k - 1)
        PROVE  (b \o c)[i] = q[i]
    BY <1>1, <2>1, <2>3, <2>4 DEF b
  <2>6. ASSUME NEW i \in k..(n - 1)
        PROVE  (b \o c)[i] = q[i + 1]
    <3>1. /\ i \in 1..(n - 1) /\ ~(i <= Len(b))
          /\ i - (k - 1) \in 1..(n - k) /\ k + (i - (k - 1)) = i + 1
      BY <1>1, <2>4
    <3>2. (b \o c)[i] = c[i - (k - 1)]
      BY <2>3, <2>4, <3>1
    <3>3. c[i - (k - 1)] = q[k + (i - (k - 1))]
      BY <2>2, <3>1 DEF c
    <3> QED BY <3>1, <3>2, <3>3
  <2>7. a = b \o c
    BY DEF b, c, n
  <2> HIDE DEF a
  <2> QED BY <2>3, <2>4, <2>5, <2>6, <2>7
<1> HIDE DEF a
<1>3. ~BogusRemove(nxt, q[k], previous)
  BY <1>1 DEF BogusRemove
<1>4. ASSUME NEW i \in 1..Len(a), NEW j \in 1..Len(a), a[i] = a[j]
      PROVE  i = j
  <2> DEFINE At(m) == IF m < k THEN m ELSE m + 1
  <2>1. \A m \in 1..Len(a) : At(m) \in 1..n /\ a[m] = q[At(m)]
    <3> HIDE DEF IsList, n
    <3> QED BY <1>1, <1>2
  <2>2. At(i) = At(j)
    <3> HIDE DEF IsList, n, At
    <3> QED BY <1>1, <1>4, <2>1
  <2> HIDE DEF IsList, n
  <2> QED BY <1>1, <1>2, <2>2
<1>5. /\ Len(a) = 0 => l.head = NULL /\ l.tail = NULL
      /\ Len(a) > 0 => l.head = a[1] /\ l.tail = a[Len(a)]
  <2>1. /\ nxt[q[k]] = IF k = n THEN NULL ELSE q[k + 1]
        /\ list.head = q[1] /\ list.tail = q[n]
    BY <1>1
  <2>2. l.head = IF k = 1 THEN nxt[q[k]] ELSE q[1]
    BY <1>1, <2>1 DEF RemoveList
  <2>3. l.tail = IF k = n THEN previous ELSE q[n]
    BY <1>1, <2>1 DEF RemoveList
  <2>4. CASE k = 1
    BY <1>1, <1>2, <2>1, <2>2, <2>3, <2>4
  <2>5. CASE k > 1
    BY <1>1, <1>2, <2>1, <2>2, <2>3, <2>5
  <2> QED BY <1>1, <2>4, <2>5
<1>6. ASSUME NEW i \in 1..Len(a)
      PROVE  x[a[i]] = IF i = Len(a) THEN NULL ELSE a[i + 1]
  <2>1. CASE i \in k..(n - 1)
    <3>1. /\ a[i] = q[i + 1] /\ i + 1 \in 1..n /\ a[i] # q[k] /\ a[i] # previous
          /\ a[i] \in Task
      BY <1>1, <1>2, <2>1
    <3>2. x[a[i]] = nxt[q[i + 1]]
      BY <3>1 DEF RemoveNext
    <3>3. CASE i = n - 1
      BY <1>1, <1>2, <3>1, <3>2, <3>3
    <3>4. CASE i < n - 1
      <4>1. i + 1 \in k..(n - 1) /\ a[i + 1] = q[(i + 1) + 1]
        BY <1>1, <1>2, <2>1, <3>4
      <4> QED BY <1>1, <1>2, <3>1, <3>2, <3>4, <4>1
    <3> QED BY <1>1, <1>2, <2>1, <3>3, <3>4
  <2>2. CASE i = k - 1
    <3>1. /\ k > 1 /\ a[i] = q[k - 1] /\ a[i] = previous /\ a[i] \in Task
          /\ k - 1 \in 1..n /\ a[i] # q[k]
      BY <1>1, <1>2, <2>2
    <3>2. x[a[i]] = nxt[q[k]]
      BY <3>1 DEF RemoveNext
    <3>3. CASE k = n
      BY <1>1, <1>2, <2>2, <3>2, <3>3
    <3>4. CASE k < n
      <4>1. i + 1 = k /\ k \in k..(n - 1)
        BY <1>1, <2>2, <3>4
      <4>2. a[k] = q[k + 1]
        BY <1>2, <4>1
      <4> QED BY <1>1, <1>2, <3>2, <3>4, <4>1, <4>2
    <3> QED BY <1>1, <3>3, <3>4
  <2>3. CASE i \in 1..(k - 2)
    <3>1. /\ a[i] = q[i] /\ i \in 1..n /\ i + 1 \in 1..(k - 1) /\ a[i] \in Task
          /\ k > 1 /\ k - 1 \in 1..n /\ a[i] # q[k] /\ a[i] # previous
      BY <1>1, <1>2, <2>3
    <3>2. x[a[i]] = nxt[q[i]] /\ nxt[q[i]] = q[i + 1] /\ a[i + 1] = q[i + 1]
      BY <1>1, <1>2, <3>1 DEF RemoveNext
    <3> QED BY <1>1, <1>2, <2>3, <3>1, <3>2
  <2> QED BY <1>1, <1>2, <2>1, <2>2, <2>3
<1>7. IsList(l, x, a)
  BY <1>2, <1>4, <1>5, <1>6
<1> QED BY <1>3, <1>7 DEF a

(* No operation disturbs another list that shares no task with the one it   *)
(* changes and does not hold the task that is moved.                        *)
THEOREM OtherListsKept ==
  ASSUME NEW list \in ListType, NEW nxt \in NextType, NEW q, IsList(list, nxt, q),
         NEW other \in ListType, NEW r, IsList(other, nxt, r),
         \A i \in 1..Len(q), j \in 1..Len(r) : q[i] # r[j],
         NEW task \in Task, Outside(r, task)
  PROVE  /\ IsList(other, EnqueueNext(list, nxt, task), r)
         /\ list.head # NULL => IsList(other, DequeueNext(list, nxt), r)
         /\ \A k \in 1..Len(q) :
              IsList(other, RemoveNext(nxt, q[k], IF k = 1 THEN NULL ELSE q[k - 1]), r)
<1> USE NullAssumption DEF IsList
<1>1. /\ Len(r) \in Nat /\ Len(q) \in Nat
      /\ \A j \in 1..Len(r) : r[j] \in Task /\ r[j] # task
      /\ \A i \in 1..Len(q) : q[i] \in Task
  BY DEF Outside
<1>2. IsList(other, EnqueueNext(list, nxt, task), r)
  <2>1. \A j \in 1..Len(r) : r[j] # list.tail
    <3>1. CASE Len(q) = 0
      <4>1. list.tail = NULL
        BY <3>1
      <4> HIDE DEF IsList
      <4> QED BY <1>1, <4>1
    <3>2. CASE Len(q) > 0
      <4>1. list.tail = q[Len(q)]
        BY <3>2
      <4> HIDE DEF IsList
      <4>2. Len(q) \in 1..Len(q)
        BY <1>1, <3>2
      <4> QED BY <4>1, <4>2
    <3> HIDE DEF IsList
    <3> QED BY <1>1, <3>1, <3>2
  <2>2. \A j \in 1..Len(r) : EnqueueNext(list, nxt, task)[r[j]] = nxt[r[j]]
    BY <1>1, <2>1 DEF EnqueueNext
  <2> QED BY <2>2
<1>3. ASSUME list.head # NULL
      PROVE  IsList(other, DequeueNext(list, nxt), r)
  <2>1. \A j \in 1..Len(r) : r[j] # list.head
    BY <1>1, <1>3
  <2>2. \A j \in 1..Len(r) : DequeueNext(list, nxt)[r[j]] = nxt[r[j]]
    BY <1>1, <2>1 DEF DequeueNext, NextType
  <2> QED BY <2>2
<1>4. ASSUME NEW k \in 1..Len(q)
      PROVE  IsList(other, RemoveNext(nxt, q[k], IF k = 1 THEN NULL ELSE q[k - 1]), r)
  <2> DEFINE p == IF k = 1 THEN NULL ELSE q[k - 1]
  <2>1. \A j \in 1..Len(r) : r[j] # q[k]
    OBVIOUS
  <2>2. \A j \in 1..Len(r) : r[j] # p
    <3>1. CASE k = 1
      BY <1>1, <3>1
    <3>2. CASE k # 1
      <4>1. k - 1 \in 1..Len(q)
        BY <1>1, <3>2
      <4>2. \A j \in 1..Len(r) : q[k - 1] # r[j]
        BY <4>1
      <4>3. p = q[k - 1]
        BY <3>2
      <4> HIDE DEF p
      <4> QED BY <4>2, <4>3
    <3> QED BY <3>1, <3>2
  <2>3. \A j \in 1..Len(r) : RemoveNext(nxt, q[k], p)[r[j]] = nxt[r[j]]
    BY <1>1, <2>1, <2>2 DEF RemoveNext
  <2> QED BY <2>3
<1> QED BY <1>2, <1>3, <1>4

(***************************************************************************)
(* Following the next pointers.  A chain is a list whose tail pointer does *)
(* not matter: what a walk from the head meets.                            *)
(***************************************************************************)
IsChain(head, nxt, q) ==
  /\ q \in Seq(Task)
  /\ \A i, j \in 1..Len(q) : q[i] = q[j] => i = j
  /\ head = IF q = <<>> THEN NULL ELSE q[1]
  /\ \A i \in 1..Len(q) : nxt[q[i]] = IF i = Len(q) THEN NULL ELSE q[i + 1]

LEMMA ListIsChain ==
  ASSUME NEW list, NEW nxt, NEW q, IsList(list, nxt, q)
  PROVE  IsChain(list.head, nxt, q)
<1>1. q \in Seq(Task) /\ (q = <<>> <=> Len(q) = 0) /\ Len(q) \in Nat
  BY EmptySeq DEF IsList
<1> QED
  BY <1>1 DEF IsList, IsChain

(* A chain has no more tasks than there are.                                *)
LEMMA ChainFits ==
  ASSUME NEW head, NEW nxt, NEW q, IsChain(head, nxt, q)
  PROVE  Len(q) \in Nat /\ Cardinality(Task) \in Nat /\ Len(q) <= Cardinality(Task)
<1>1. Len(q) \in Nat /\ q \in [1..Len(q) -> Task]
  BY DEF IsChain
<1>2. q \in Injection(1..Len(q), Task)
  BY <1>1 DEF IsChain, Injection, IsInjective
<1>3. Cardinality(1..Len(q)) <= Cardinality(Task)
  BY <1>2, FS_Injection, FiniteAssumption
<1>4. Cardinality(1..Len(q)) = Len(q)
  BY <1>1, FS_Interval
<1>5. Cardinality(Task) \in Nat
  BY FiniteAssumption, FS_CardinalityType
<1> QED
  BY <1>1, <1>3, <1>4, <1>5

LEMMA LeastPlace ==
  ASSUME NEW F, F \subseteq Nat, F # {}
  PROVE  \E i \in F : \A j \in F : i <= j
<1> DEFINE R == OpToRel(<, Nat)
<1>1. IsWellFoundedOn(R, Nat)
  BY NatLessThanWellFounded
<1>2. \A i, j \in Nat : <<j, i>> \in R <=> j < i
  BY DEF OpToRel
<1> HIDE DEF R
<1>3. PICK i \in F : \A j \in F : ~(<<j, i>> \in R)
  BY <1>1, WFMin
<1>4. \A j \in F : i \in Nat /\ j \in Nat /\ ~(j < i)
  BY <1>2, <1>3
<1> QED
  BY <1>4, SMT

(* The walk from the head meets exactly the tasks of the chain.  (The      *)
(* least place where it did not would follow one where it did.)             *)
LEMMA WalkedIs ==
  ASSUME NEW list, NEW q, IsChain(list.head, taskNext, q)
  PROVE  Walked(list) = q
<1> DEFINE N == Cardinality(Task)
           n == Len(q)
           reach[i \in 1..(N + 1)] ==
             IF i = 1 THEN list.head
             ELSE IF reach[i - 1] = NULL THEN NULL ELSE taskNext[reach[i - 1]]
           step(f) == [i \in 1..(N + 1) |->
             IF i = 1 THEN list.head
             ELSE IF f[i - 1] = NULL THEN NULL ELSE taskNext[f[i - 1]]]
           seen == [i \in 1..(N + 1) |-> IF i <= n THEN q[i] ELSE NULL]
<1>1. n \in Nat /\ N \in Nat /\ n <= N /\ (q = <<>> <=> n = 0)
  BY ChainFits, EmptySeq DEF IsChain
<1>2. \A i \in 1..n : q[i] \in Task /\ q[i] # NULL
  BY <1>1, NullAssumption DEF IsChain
<1> HIDE DEF n, N
<1>3. seen = step(seen)
  <2>1. ASSUME NEW i \in 1..(N + 1)
        PROVE  seen[i] = IF i = 1 THEN list.head
                         ELSE IF seen[i - 1] = NULL THEN NULL ELSE taskNext[seen[i - 1]]
    <3>1. CASE i = 1
      BY <1>1, <3>1 DEF IsChain, n
    <3>2. CASE i > 1 /\ i - 1 <= n
      <4>1. /\ i - 1 \in 1..n /\ i - 1 \in 1..(N + 1) /\ i = (i - 1) + 1
            /\ seen[i - 1] = q[i - 1] /\ seen[i - 1] # NULL
        BY <1>1, <1>2, <3>2
      <4>2. taskNext[q[i - 1]] = IF i - 1 = n THEN NULL ELSE q[i]
        BY <4>1 DEF IsChain, n
      <4> QED
        BY <1>1, <3>2, <4>1, <4>2
    <3>3. CASE i > 1 /\ i - 1 > n
      <4>1. i - 1 \in 1..(N + 1) /\ seen[i - 1] = NULL /\ seen[i] = NULL
        BY <1>1, <3>3
      <4> QED
        BY <3>3, <4>1
    <3> QED
      BY <1>1, <3>1, <3>2, <3>3
  <2> QED
    BY <2>1
<1>4. reach = step(reach)
  <2> HIDE DEF seen
  <2>1. \E f : f = step(f)
    BY <1>3
  <2> QED
    BY <2>1, Zenon
<1>5. reach = seen
  <2> HIDE DEF reach, seen
  <2>1. /\ DOMAIN reach = 1..(N + 1) /\ DOMAIN seen = 1..(N + 1)
        /\ \A i \in 1..(N + 1) :
             /\ reach[i] = IF i = 1 THEN list.head
                           ELSE IF reach[i - 1] = NULL THEN NULL ELSE taskNext[reach[i - 1]]
             /\ seen[i] = IF i = 1 THEN list.head
                          ELSE IF seen[i - 1] = NULL THEN NULL ELSE taskNext[seen[i - 1]]
        /\ reach = [i \in DOMAIN reach |-> reach[i]]
        /\ seen = [i \in DOMAIN seen |-> seen[i]]
    BY <1>3, <1>4
  <2> DEFINE F == {i \in 1..(N + 1) : reach[i] # seen[i]}
  <2>2. ASSUME F # {} PROVE FALSE
    <3>1. F \subseteq Nat
      BY <1>1
    <3>2. PICK i \in F : \A j \in F : i <= j
      BY <2>2, <3>1, LeastPlace
    <3>3. i \in 1..(N + 1) /\ i \in Nat /\ reach[i] # seen[i]
      BY <1>1, <3>2
    <3>4. CASE i = 1
      BY <2>1, <3>3, <3>4
    <3>5. CASE i > 1
      <4>1. i - 1 \in 1..(N + 1) /\ ~(i <= i - 1)
        BY <1>1, <3>3, <3>5
      <4>2. reach[i - 1] = seen[i - 1]
        BY <3>2, <4>1
      <4> QED
        BY <2>1, <3>3, <3>5, <4>2
    <3> QED
      BY <1>1, <3>3, <3>4, <3>5
  <2>3. \A i \in 1..(N + 1) : reach[i] = seen[i]
    BY <2>2
  <2>4. /\ reach = [i \in 1..(N + 1) |-> reach[i]]
        /\ seen = [i \in 1..(N + 1) |-> seen[i]]
    BY <2>1
  <2>5. [i \in 1..(N + 1) |-> reach[i]] = [i \in 1..(N + 1) |-> seen[i]]
    BY <2>3
  <2> QED
    BY <2>4, <2>5
<1>6. Walked(list) = [i \in 1..Cardinality({i \in DOMAIN reach : reach[i] # NULL}) |-> reach[i]]
  BY DEF Walked, N
<1> HIDE DEF reach
<1>7. \A i \in 1..(N + 1) : reach[i] = IF i <= n THEN q[i] ELSE NULL
  BY <1>5
<1>8. {i \in DOMAIN reach : reach[i] # NULL} = 1..n
  <2>1. DOMAIN reach = 1..(N + 1)
    BY <1>5
  <2> QED
    BY <1>1, <1>2, <1>7, <2>1
<1>9. Cardinality(1..n) = n
  BY <1>1, FS_Interval
<1>10. \A i \in 1..n : reach[i] = q[i]
  BY <1>1, <1>7
<1>11. q = [i \in 1..n |-> q[i]]
  BY DEF IsChain, n
<1> QED
  BY <1>6, <1>8, <1>9, <1>10, <1>11

LEMMA ChainIs ==
  ASSUME NEW list, NEW q, IsChain(list.head, taskNext, q)
  PROVE  Chain(list) = q
<1>1. Walked(list) = q
  BY WalkedIs
<1>2. q # <<>> => q[1] \in Task
  BY EmptySeq DEF IsChain
<1>3. list.head = NULL => q = <<>>
  BY <1>2, NullAssumption DEF IsChain
<1> QED
  BY <1>1, <1>3 DEF Chain

LEMMA ChainNow == \A list, q : IsChain(list.head, taskNext, q) => Chain(list) = q
  BY ChainIs

LEMMA ChainNext == (\A list, q : IsChain(list.head, taskNext, q) => Chain(list) = q)'
  BY ChainNow, PTL

LEMMA ChainsNext ==
  /\ \A q : IsChain(ready.head, taskNext, q)' => Chain(ready)' = q
  /\ \A q : IsChain(sleeping.head, taskNext, q)' => Chain(sleeping)' = q
  BY ChainNext

(***************************************************************************)
(* Two lists over the same next pointers, and what the operations on one   *)
(* of them do to the pair.                                                 *)
(***************************************************************************)
Elems(q) == {q[i] : i \in 1..Len(q)}

TwoLists(list, other, nxt, q, r) ==
  /\ list \in ListType /\ other \in ListType /\ nxt \in NextType
  /\ IsList(list, nxt, q) /\ IsList(other, nxt, r)
  /\ Elems(q) \cap Elems(r) = {}

LEMMA TwoListsSwap ==
  ASSUME NEW list, NEW other, NEW nxt, NEW q, NEW r, TwoLists(list, other, nxt, q, r)
  PROVE  TwoLists(other, list, nxt, r, q)
  BY DEF TwoLists

LEMMA HeadNull ==
  ASSUME NEW list, NEW nxt, NEW q, IsList(list, nxt, q)
  PROVE  /\ q \in Seq(Task) /\ Elems(q) \subseteq Task
         /\ list.head = NULL <=> q = <<>>
         /\ list.tail = NULL <=> q = <<>>
<1>1. q \in Seq(Task) /\ Len(q) \in Nat /\ (q = <<>> <=> Len(q) = 0)
  BY EmptySeq DEF IsList
<1>2. \A i \in 1..Len(q) : q[i] \in Task /\ q[i] # NULL
  BY <1>1, NullAssumption
<1> QED
  BY <1>1, <1>2 DEF IsList, Elems

LEMMA EnqueueTwo ==
  ASSUME NEW list, NEW other, NEW nxt, NEW q, NEW r, TwoLists(list, other, nxt, q, r),
         NEW task \in Task, task \notin Elems(q), task \notin Elems(r)
  PROVE  /\ TwoLists(EnqueueList(list, task), other, EnqueueNext(list, nxt, task),
                     Append(q, task), r)
         /\ Elems(Append(q, task)) = Elems(q) \cup {task}
<1>1. /\ Outside(q, task) /\ Outside(r, task) /\ q \in Seq(Task)
      /\ \A i \in 1..Len(q), j \in 1..Len(r) : q[i] # r[j]
  BY DEF TwoLists, Elems, Outside, IsList
<1>2. IsList(EnqueueList(list, task), EnqueueNext(list, nxt, task), Append(q, task))
  BY <1>1, EnqueueAppends DEF TwoLists
<1>3. IsList(other, EnqueueNext(list, nxt, task), r)
  BY <1>1, OtherListsKept DEF TwoLists
<1>4. /\ EnqueueList(list, task) \in ListType /\ EnqueueNext(list, nxt, task) \in NextType
  BY DEF EnqueueList, EnqueueNext, ListType, NextType, Pointer, TwoLists
<1>5. Elems(Append(q, task)) = Elems(q) \cup {task}
  <2>1. /\ Len(Append(q, task)) = Len(q) + 1 /\ Len(q) \in Nat
        /\ \A i \in 1..(Len(q) + 1) :
             Append(q, task)[i] = IF i = Len(q) + 1 THEN task ELSE q[i]
    BY <1>1, AppendProperties
  <2> HIDE DEF TwoLists
  <2>2. \A i \in 1..(Len(q) + 1) : i = Len(q) + 1 \/ i \in 1..Len(q)
    BY <2>1
  <2>3. \A i \in 1..Len(q) : i \in 1..(Len(q) + 1) /\ i # Len(q) + 1
    BY <2>1
  <2>4. Len(q) + 1 \in 1..(Len(q) + 1)
    BY <2>1
  <2>5. ASSUME NEW x PROVE x \in Elems(Append(q, task)) <=> x \in Elems(q) \cup {task}
    BY <2>1, <2>2, <2>3, <2>4, Zenon DEF Elems
  <2> QED
    BY <2>5
<1> QED
  BY <1>2, <1>3, <1>4, <1>5 DEF TwoLists

LEMMA DequeueTwo ==
  ASSUME NEW list, NEW other, NEW nxt, NEW q, NEW r, TwoLists(list, other, nxt, q, r),
         list.head # NULL
  PROVE  /\ TwoLists(DequeueList(list, nxt), other, DequeueNext(list, nxt), Tail(q), r)
         /\ Elems(Tail(q)) = Elems(q) \ {list.head} /\ list.head \in Elems(q)
         /\ q # <<>> /\ list.head = Head(q)
<1>1. /\ q # <<>> /\ list.head = Head(q)
      /\ IsList(DequeueList(list, nxt), DequeueNext(list, nxt), Tail(q))
  BY DequeueTakesHead DEF TwoLists
<1>2. /\ q \in Seq(Task) /\ Len(q) \in Nat /\ Len(q) > 0 /\ list.head = q[1] /\ list.head \in Task
      /\ \A i, j \in 1..Len(q) : q[i] = q[j] => i = j
  BY <1>1, EmptySeq, NullAssumption DEF TwoLists, IsList
<1>3. 1 \in 1..Len(q) /\ list.head \in Elems(q)
  BY <1>2 DEF Elems
<1>4. Outside(r, list.head) /\ \A i \in 1..Len(q), j \in 1..Len(r) : q[i] # r[j]
  BY <1>3 DEF TwoLists, Elems, Outside
<1>5. IsList(other, DequeueNext(list, nxt), r)
  BY <1>2, <1>4, OtherListsKept DEF TwoLists
<1>6. DequeueList(list, nxt) \in ListType /\ DequeueNext(list, nxt) \in NextType
  BY <1>2 DEF DequeueList, DequeueNext, ListType, NextType, Pointer, TwoLists
<1>7. Elems(Tail(q)) = Elems(q) \ {list.head}
  <2>1. Len(Tail(q)) = Len(q) - 1 /\ \A i \in 1..(Len(q) - 1) : Tail(q)[i] = q[i + 1]
    BY <1>1, <1>2
  <2>2. \A i \in 1..(Len(q) - 1) : i + 1 \in 1..Len(q) /\ i + 1 # 1
    BY <1>2
  <2>3. \A i \in 1..Len(q) : i = 1 \/ (i - 1 \in 1..(Len(q) - 1) /\ (i - 1) + 1 = i)
    BY <1>2
  <2>4. ASSUME NEW x \in Elems(Tail(q)) PROVE x \in Elems(q) \ {list.head}
    <3>1. PICK i \in 1..(Len(q) - 1) : x = q[i + 1]
      BY <2>1 DEF Elems
    <3> QED
      BY <1>2, <1>3, <2>2, <3>1 DEF Elems
  <2>5. ASSUME NEW x \in Elems(q) \ {list.head} PROVE x \in Elems(Tail(q))
    <3>1. PICK i \in 1..Len(q) : x = q[i]
      BY DEF Elems
    <3>2. i - 1 \in 1..(Len(q) - 1) /\ (i - 1) + 1 = i
      BY <1>2, <2>3, <2>5, <3>1
    <3>3. Tail(q)[i - 1] = x
      BY <2>1, <3>1, <3>2
    <3> QED
      BY <2>1, <3>2, <3>3 DEF Elems
  <2> QED
    BY <2>4, <2>5
<1> QED
  BY <1>1, <1>3, <1>5, <1>6, <1>7 DEF TwoLists

Without(q, k) == SubSeq(q, 1, k - 1) \o SubSeq(q, k + 1, Len(q))

LEMMA WithoutElems ==
  ASSUME NEW q \in Seq(Task), NEW k \in 1..Len(q)
  PROVE  /\ Without(q, k) \in Seq(Task) /\ Len(Without(q, k)) = Len(q) - 1
         /\ \A i \in 1..(k - 1) : Without(q, k)[i] = q[i]
         /\ \A i \in k..(Len(q) - 1) : Without(q, k)[i] = q[i + 1]
<1> DEFINE b == SubSeq(q, 1, k - 1)
           c == SubSeq(q, k + 1, Len(q))
           n == Len(q)
<1>1. n \in Nat /\ k \in Nat /\ 1 <= k /\ k <= n /\ \A i \in 1..n : q[i] \in Task
  OBVIOUS
<1>2. /\ b \in Seq(Task) /\ Len(b) = k - 1
      /\ \A i \in 1..(k - 1) : b[i] = q[i]
  BY <1>1, SubSeqProperties
<1>3. /\ c \in Seq(Task) /\ Len(c) = n - k
      /\ \A i \in 1..(n - k) : c[i] = q[k + i]
  BY <1>1, SubSeqProperties
<1> HIDE DEF b, c, n
<1>4. /\ b \o c \in Seq(Task) /\ Len(b \o c) = n - 1
      /\ \A i \in 1..(n - 1) : (b \o c)[i] = IF i <= k - 1 THEN b[i] ELSE c[i - (k - 1)]
  BY <1>1, <1>2, <1>3, ConcatProperties
<1>5. \A i \in 1..(k - 1) : (b \o c)[i] = q[i]
  BY <1>1, <1>2, <1>4
<1>6. ASSUME NEW i \in k..(n - 1) PROVE (b \o c)[i] = q[i + 1]
  <2>1. /\ i \in 1..(n - 1) /\ ~(i <= k - 1)
        /\ i - (k - 1) \in 1..(n - k) /\ k + (i - (k - 1)) = i + 1
    BY <1>1
  <2> QED
    BY <1>3, <1>4, <2>1
<1> QED
  BY <1>4, <1>5, <1>6 DEF Without, b, c, n

LEMMA RemoveTwo ==
  ASSUME NEW list, NEW other, NEW nxt, NEW q, NEW r, TwoLists(list, other, nxt, q, r),
         NEW k \in 1..Len(q), NEW pre, pre = IF k = 1 THEN NULL ELSE q[k - 1]
  PROVE  /\ ~BogusRemove(nxt, q[k], pre)
         /\ TwoLists(RemoveList(list, nxt, q[k], pre), other, RemoveNext(nxt, q[k], pre),
                     Without(q, k), r)
         /\ Elems(Without(q, k)) = Elems(q) \ {q[k]} /\ q[k] \in Elems(q)
<1>1. /\ q \in Seq(Task) /\ Len(q) \in Nat /\ q[k] \in Task /\ q[k] \in Elems(q)
      /\ \A i, j \in 1..Len(q) : q[i] = q[j] => i = j
  BY DEF TwoLists, IsList, Elems
<1>2. pre \in Pointer /\ (k = 1 => pre = NULL) /\ (k > 1 => pre = q[k - 1])
  BY <1>1 DEF Pointer
<1>3. /\ ~BogusRemove(nxt, q[k], pre)
      /\ IsList(RemoveList(list, nxt, q[k], pre), RemoveNext(nxt, q[k], pre), Without(q, k))
  BY <1>2, RemoveUnlinks DEF TwoLists, Without
<1>4. Outside(r, q[k]) /\ \A i \in 1..Len(q), j \in 1..Len(r) : q[i] # r[j]
  <2>1. \A i \in 1..Len(q), j \in 1..Len(r) : q[i] # r[j]
    BY DEF TwoLists, Elems
  <2> QED
    BY <2>1 DEF Outside
<1>5. IsList(other, RemoveNext(nxt, q[k], pre), r)
  BY <1>1, <1>4, OtherListsKept DEF TwoLists
<1>6. RemoveList(list, nxt, q[k], pre) \in ListType /\ RemoveNext(nxt, q[k], pre) \in NextType
  BY <1>1, <1>2 DEF RemoveList, RemoveNext, ListType, NextType, Pointer, TwoLists
<1>7. Elems(Without(q, k)) = Elems(q) \ {q[k]}
  <2> DEFINE w == Without(q, k)
             n == Len(q)
  <2>1. /\ Len(w) = n - 1
        /\ \A i \in 1..(k - 1) : w[i] = q[i]
        /\ \A i \in k..(n - 1) : w[i] = q[i + 1]
    BY <1>1, WithoutElems
  <2>2. n \in Nat /\ k \in Nat /\ 1 <= k /\ k <= n
    BY <1>1
  <2> HIDE DEF w, n
  <2>3. ASSUME NEW i \in 1..(n - 1) PROVE w[i] \in Elems(q) \ {q[k]}
    <3>1. CASE i \in 1..(k - 1)
      BY <1>1, <2>1, <2>2, <3>1 DEF Elems, n
    <3>2. CASE i \in k..(n - 1)
      <4>1. i + 1 \in 1..n /\ i + 1 # k
        BY <2>2, <3>2
      <4> QED
        BY <1>1, <2>1, <3>2, <4>1 DEF Elems, n
    <3> QED
      BY <2>2, <3>1, <3>2
  <2>4. ASSUME NEW i \in 1..n, i # k PROVE \E j \in 1..(n - 1) : w[j] = q[i]
    <3>1. CASE i < k
      BY <2>1, <2>2, <3>1
    <3>2. CASE i > k
      <4>1. i - 1 \in k..(n - 1) /\ i - 1 \in 1..(n - 1) /\ (i - 1) + 1 = i
        BY <2>2, <3>2
      <4> QED
        BY <2>1, <4>1
    <3> QED
      BY <2>2, <2>4, <3>1, <3>2
  <2>5. Elems(w) \subseteq Elems(q) \ {q[k]}
    <3> SUFFICES ASSUME NEW x \in Elems(w) PROVE x \in Elems(q) \ {q[k]}
      OBVIOUS
    <3>1. PICK i \in 1..(n - 1) : x = w[i]
      BY <2>1 DEF Elems
    <3> QED
      BY <2>3, <3>1
  <2>6. Elems(q) \ {q[k]} \subseteq Elems(w)
    <3> SUFFICES ASSUME NEW x \in Elems(q), x # q[k] PROVE x \in Elems(w)
      OBVIOUS
    <3>1. PICK i \in 1..n : x = q[i]
      BY DEF Elems, n
    <3>2. PICK j \in 1..(n - 1) : w[j] = q[i]
      BY <2>4, <3>1
    <3> QED
      BY <2>1, <3>1, <3>2 DEF Elems
  <2> QED
    BY <2>5, <2>6 DEF w
<1> QED
  BY <1>1, <1>3, <1>5, <1>6, <1>7 DEF TwoLists

(***************************************************************************)
(* The invariant of TaskLists, for tasks_new called with interrupts masked.*)
(* Between the calls of tasks_new the two lists hold rq and sq.  Inside    *)
(* one, they did when it began (with the ready list h and the pointers n), *)
(* and what it has stored since is known from how far it is.               *)
(***************************************************************************)
Placed(rq, sq, all) ==
  /\ all = Elems(rq) \cup Elems(sq) \cup ({current} \ {NULL})
  /\ current \notin Elems(rq) \cup Elems(sq)

(* The walk stands at a sleeping task and knows its predecessor.            *)
WalkAt(sq) ==
  (walk.on /\ walk.task # NULL) =>
    \E k \in 1..Len(sq) : walk.task = sq[k] /\ walk.pre = IF k = 1 THEN NULL ELSE sq[k - 1]

Settled(rq, sq) ==
  /\ making.at = "none"
  /\ TwoLists(ready, sleeping, taskNext, rq, sq)
  /\ Placed(rq, sq, created)
  /\ WalkAt(sq)

MadeSoFar(h, n) ==
  /\ making.at \in {"testHead", "setHead"} => ready = h
  /\ making.at = "setHead" => h.head = NULL
  /\ making.at \in {"testTail", "linkTail", "clearNext", "setTail"} =>
       ready = [head |-> EnqueueList(h, making.task).head, tail |-> h.tail]
  /\ making.at = "linkTail" => h.tail # NULL /\ making.tail = h.tail
  /\ making.at \in {"testHead", "setHead", "testTail", "linkTail"} => taskNext = n
  /\ making.at \in {"clearNext", "setTail"} => taskNext = EnqueueNext(h, n, making.task)

Underway(h, n, rq, sq) ==
  /\ making.at # "none" /\ current = Main /\ ~walk.on
  /\ TwoLists(h, sleeping, n, rq, sq)
  /\ making.task \in created /\ making.task # Main /\ n[making.task] = NULL
  /\ Placed(rq, sq, created \ {making.task})
  /\ MadeSoFar(h, n)

ListsInv ==
  /\ TaskListsTypeOK
  /\ \/ \E rq, sq : Settled(rq, sq)
     \/ \E h, n, rq, sq : Underway(h, n, rq, sq)

LEMMA ListsInit ==
  ASSUME TaskListsInit
  PROVE  ListsInv /\ Settled(<<>>, <<>>)
<1>1. /\ <<>> \in Seq(Task) /\ Len(<<>>) = 0 /\ Elems(<<>>) = {} /\ 1..0 = {}
  BY DEF Elems
<1>2. EmptyList \in ListType /\ [t \in Task |-> NULL] \in NextType
  BY DEF EmptyList, ListType, NextType, Pointer
<1>3. IsList(EmptyList, [t \in Task |-> NULL], <<>>)
  BY <1>1 DEF IsList, EmptyList
<1>4. TwoLists(ready, sleeping, taskNext, <<>>, <<>>)
  BY <1>1, <1>2, <1>3 DEF TaskListsInit, TwoLists
<1>5. Settled(<<>>, <<>>)
  BY <1>1, <1>4, MainAssumption, NullAssumption
     DEF TaskListsInit, Settled, Placed, WalkAt, NotWalking, NotMaking
<1>6. TaskListsTypeOK
  BY <1>2, MainAssumption DEF TaskListsInit, TaskListsTypeOK, NotWalking, NotMaking, Pointer
<1> QED
  BY <1>5, <1>6 DEF ListsInv

(* tasks_switch_to with the running task back at the end of the line.        *)
LEMMA SwitchMoves ==
  ASSUME NEW rq, NEW sq, Settled(rq, sq), TaskListsTypeOK, current # NULL, ready.head # NULL,
         Switch, UNCHANGED <<sleeping, created, making>>, ~walk'.on,
         NEW to, to = Append(Tail(rq), current)
  PROVE  Settled(to, sq)' /\ rq # <<>> /\ current' = Head(rq) /\ current' \in Task
<1> DEFINE rest == DequeueList(ready, taskNext)
           nxt == DequeueNext(ready, taskNext)
<1>1. TwoLists(ready, sleeping, taskNext, rq, sq) /\ Placed(rq, sq, created) /\ current \in Task
  BY DEF Settled, TaskListsTypeOK, Pointer
<1>2. /\ TwoLists(rest, sleeping, nxt, Tail(rq), sq)
      /\ Elems(Tail(rq)) = Elems(rq) \ {ready.head} /\ ready.head \in Elems(rq)
      /\ rq # <<>> /\ ready.head = Head(rq)
  BY <1>1, DequeueTwo
<1>3. /\ current' = ready.head
      /\ ready' = EnqueueList(rest, current)
      /\ taskNext' = EnqueueNext(rest, nxt, current)
      /\ UNCHANGED <<sleeping, created, making>>
  BY DEF Switch
<1> HIDE DEF rest, nxt
<1>4. current \notin Elems(Tail(rq)) /\ current \notin Elems(sq)
  BY <1>1, <1>2 DEF Placed
<1>5. /\ TwoLists(ready', sleeping', taskNext', to, sq)
      /\ Elems(to) = Elems(Tail(rq)) \cup {current}
  BY <1>1, <1>2, <1>3, <1>4, EnqueueTwo
<1>6. Elems(rq) \cap Elems(sq) = {} /\ Elems(rq) \subseteq Task
  BY <1>1, HeadNull DEF TwoLists
<1>7. Placed(to, sq, created)'
  <2>1. created' = Elems(to) \cup Elems(sq) \cup ({current'} \ {NULL})
    BY <1>1, <1>2, <1>3, <1>5, <1>6, NullAssumption DEF Placed
  <2>2. current' \notin Elems(to) \cup Elems(sq)
    BY <1>1, <1>2, <1>3, <1>5, <1>6 DEF Placed
  <2> QED
    BY <2>1, <2>2 DEF Placed
<1>8. WalkAt(sq)' /\ making'.at = "none"
  BY <1>3 DEF WalkAt, Settled
<1> QED
  BY <1>2, <1>3, <1>5, <1>6, <1>7, <1>8 DEF Settled

(* A switch away from a task that is not put back.                          *)
LEMMA IdleWakeMoves ==
  ASSUME NEW rq, NEW sq, Settled(rq, sq), TaskListsTypeOK, IdleWake
  PROVE  /\ Settled(Tail(rq), sq)' /\ rq # <<>> /\ current = NULL
         /\ current' = Head(rq) /\ current' \in Task
<1>1. /\ TwoLists(ready, sleeping, taskNext, rq, sq) /\ Placed(rq, sq, created)
      /\ current = NULL /\ ~walk.on /\ ready.head # NULL
      /\ current' = ready.head /\ ready' = DequeueList(ready, taskNext)
      /\ taskNext' = DequeueNext(ready, taskNext)
      /\ UNCHANGED <<sleeping, created, walk, making>>
  BY DEF Settled, IdleWake, DequeueReady
<1>2. /\ TwoLists(ready', sleeping', taskNext', Tail(rq), sq)
      /\ Elems(Tail(rq)) = Elems(rq) \ {ready.head} /\ ready.head \in Elems(rq)
      /\ rq # <<>> /\ ready.head = Head(rq)
  BY <1>1, DequeueTwo
<1>3. Elems(rq) \cap Elems(sq) = {} /\ Elems(rq) \subseteq Task
  BY <1>1, HeadNull DEF TwoLists
<1>4. Placed(Tail(rq), sq, created)'
  BY <1>1, <1>2, <1>3, NullAssumption DEF Placed
<1>5. WalkAt(sq)' /\ making'.at = "none"
  BY <1>1 DEF WalkAt, Settled
<1> QED
  BY <1>1, <1>2, <1>3, <1>4, <1>5 DEF Settled

LEMMA NanoSleepMoves ==
  ASSUME NEW rq, NEW sq, Settled(rq, sq), TaskListsTypeOK, NEW t \in Task, NanoSleep(t),
         NEW asleep, asleep = Append(sq, current),
         NEW rest, rest = IF rq = <<>> THEN <<>> ELSE Tail(rq)
  PROVE  /\ Settled(rest, asleep)' /\ current \in Task
         /\ current' = IF rq = <<>> THEN NULL ELSE Head(rq)
         /\ current' \in Pointer
<1> DEFINE linked == EnqueueNext(sleeping, taskNext, t)
<1>1. /\ TwoLists(ready, sleeping, taskNext, rq, sq) /\ Placed(rq, sq, created)
      /\ current = t /\ ~walk.on
      /\ sleeping' = EnqueueList(sleeping, t)
      /\ UNCHANGED <<created, walk, making>>
  BY DEF Settled, NanoSleep, Calls
<1>2. t \notin Elems(rq) /\ t \notin Elems(sq) /\ t # NULL
  BY <1>1, NullAssumption DEF Placed
<1>3. /\ TwoLists(sleeping', ready, linked, asleep, rq)
      /\ Elems(asleep) = Elems(sq) \cup {t}
  BY <1>1, <1>2, TwoListsSwap, EnqueueTwo
<1>4. TwoLists(ready, sleeping', linked, rq, asleep)
  BY <1>3, TwoListsSwap
<1>5. /\ Elems(rq) \cap Elems(sq) = {} /\ Elems(rq) \subseteq Task
      /\ ready.head = NULL <=> rq = <<>>
  BY <1>1, HeadNull DEF TwoLists
<1>6. WalkAt(asleep)' /\ making'.at = "none"
  BY <1>1 DEF WalkAt, Settled
<1>7. CASE ready.head = NULL
  <2>1. current' = NULL /\ taskNext' = linked /\ ready' = ready /\ rq = <<>> /\ rest = rq
    BY <1>5, <1>7 DEF NanoSleep
  <2> HIDE DEF linked
  <2>2. NULL \notin Elems(rq) \cup Elems(asleep)
    BY <1>3, <1>4, HeadNull, NullAssumption DEF TwoLists
  <2>3. Placed(rest, asleep, created)'
    BY <1>1, <1>2, <1>3, <2>1, <2>2 DEF Placed
  <2> QED
    BY <1>1, <1>4, <1>6, <2>1, <2>3 DEF Settled, Pointer
<1>8. CASE ready.head # NULL
  <2>1. /\ current' = ready.head /\ ready' = DequeueList(ready, linked)
        /\ taskNext' = DequeueNext(ready, linked) /\ rq # <<>> /\ rest = Tail(rq)
    BY <1>5, <1>8 DEF NanoSleep
  <2> HIDE DEF linked
  <2>2. /\ TwoLists(ready', sleeping', taskNext', rest, asleep)
        /\ Elems(rest) = Elems(rq) \ {ready.head} /\ ready.head \in Elems(rq)
        /\ ready.head = Head(rq)
    BY <1>4, <1>8, <2>1, DequeueTwo
  <2>3. /\ created' = Elems(rest) \cup Elems(asleep) \cup ({current'} \ {NULL})
    BY <1>1, <1>2, <1>3, <1>5, <2>1, <2>2, NullAssumption DEF Placed
  <2>4. current' \notin Elems(rest) \cup Elems(asleep)
    BY <1>1, <1>2, <1>3, <1>5, <2>1, <2>2
  <2>5. Placed(rest, asleep, created)'
    BY <2>3, <2>4 DEF Placed
  <2> QED
    BY <1>1, <1>5, <1>6, <2>1, <2>2, <2>5 DEF Settled, Pointer
<1> QED
  BY <1>7, <1>8

(* The walk starts at the head, which has no predecessor.                   *)
LEMMA OnTimerMoves ==
  ASSUME NEW rq, NEW sq, Settled(rq, sq), OnTimer
  PROVE  Settled(rq, sq)'
<1>1. /\ walk' = [on |-> TRUE, pre |-> NULL, task |-> sleeping.head, need |-> FALSE]
      /\ UNCHANGED <<current, ready, sleeping, taskNext, created, making>>
      /\ IsList(sleeping, taskNext, sq)
  BY DEF OnTimer, Settled, TwoLists
<1>2. Len(sq) \in Nat /\ (sleeping.head # NULL => Len(sq) > 0 /\ sleeping.head = sq[1])
  BY <1>1 DEF IsList
<1>3. WalkAt(sq)'
  <2> SUFFICES ASSUME walk'.on, walk'.task # NULL
               PROVE  \E k \in 1..Len(sq) : /\ walk'.task = sq[k]
                                            /\ walk'.pre = IF k = 1 THEN NULL ELSE sq[k - 1]
    BY DEF WalkAt
  <2>1. walk'.task = sq[1] /\ walk'.pre = NULL /\ 1 \in 1..Len(sq)
    BY <1>1, <1>2
  <2> QED
    BY <2>1
<1> QED
  BY <1>1, <1>3 DEF Settled, Placed

LEMMA PassSleeperMoves ==
  ASSUME NEW rq, NEW sq, Settled(rq, sq), TaskListsTypeOK, PassSleeper
  PROVE  Settled(rq, sq)'
<1>1. /\ walk.on /\ walk.task # NULL
      /\ walk' = [walk EXCEPT !.pre = walk.task, !.task = taskNext[walk.task]]
      /\ UNCHANGED <<current, ready, sleeping, taskNext, created, making>>
      /\ IsList(sleeping, taskNext, sq)
  BY DEF PassSleeper, Settled, TwoLists
<1>2. PICK k \in 1..Len(sq) : walk.task = sq[k]
  BY <1>1 DEF Settled, WalkAt
<1>3. walk'.pre = sq[k] /\ walk'.task = taskNext[sq[k]]
  BY <1>1, <1>2 DEF TaskListsTypeOK
<1>4. taskNext[sq[k]] = (IF k = Len(sq) THEN NULL ELSE sq[k + 1]) /\ Len(sq) \in Nat
  BY <1>1 DEF IsList
<1>5. walk'.task # NULL => /\ k + 1 \in 1..Len(sq) /\ k + 1 # 1 /\ (k + 1) - 1 = k
                           /\ walk'.task = sq[k + 1]
  BY <1>3, <1>4
<1>6. WalkAt(sq)'
  BY <1>3, <1>5 DEF WalkAt
<1> QED
  BY <1>1, <1>6 DEF Settled, Placed

(* A task is taken out of the walk's list; the walk goes on at the task that *)
(* moved up into its place, with the same predecessor.                      *)
LEMMA WakeSleeperMoves ==
  ASSUME NEW rq, NEW sq, Settled(rq, sq), TaskListsTypeOK, WakeSleeper
  PROVE  \E k \in 1..Len(sq) :
           \E to : to = Append(rq, sq[k]) /\ Settled(to, Without(sq, k))'
<1> DEFINE t == walk.task
           pre == walk.pre
           rest == RemoveNext(taskNext, t, pre)
           left == RemoveList(sleeping, taskNext, t, pre)
<1>1. /\ walk.on /\ t # NULL
      /\ sleeping' = left
      /\ ready' = EnqueueList(ready, t)
      /\ taskNext' = EnqueueNext(ready, rest, t)
      /\ walk' = [walk EXCEPT !.task = taskNext[t], !.need = TRUE]
      /\ UNCHANGED <<current, created, making>>
  BY DEF WakeSleeper, RemovePredecessor
<1>2. PICK k \in 1..Len(sq) : t = sq[k] /\ pre = IF k = 1 THEN NULL ELSE sq[k - 1]
  BY <1>1 DEF Settled, WalkAt
<1>3. /\ TwoLists(ready, sleeping, taskNext, rq, sq) /\ Placed(rq, sq, created)
      /\ TwoLists(sleeping, ready, taskNext, sq, rq)
  BY TwoListsSwap DEF Settled
<1> DEFINE w == Without(sq, k)
           to == Append(rq, sq[k])
<1>4. /\ TwoLists(left, ready, rest, w, rq)
      /\ Elems(w) = Elems(sq) \ {t} /\ t \in Elems(sq)
  BY <1>2, <1>3, RemoveTwo
<1>5. TwoLists(ready, left, rest, rq, w)
  BY <1>4, TwoListsSwap
<1>6. /\ sq \in Seq(Task) /\ Len(sq) \in Nat /\ t \in Task /\ t \notin Elems(rq) /\ t \notin Elems(w)
      /\ taskNext[sq[k]] = IF k = Len(sq) THEN NULL ELSE sq[k + 1]
  BY <1>2, <1>3, <1>4 DEF TwoLists, IsList
<1>7. /\ Len(w) = Len(sq) - 1
      /\ \A i \in 1..(k - 1) : w[i] = sq[i]
      /\ \A i \in k..(Len(sq) - 1) : w[i] = sq[i + 1]
  BY <1>6, WithoutElems
<1> HIDE DEF left, rest, w
<1>8. /\ TwoLists(ready', sleeping', taskNext', to, w) /\ Elems(to) = Elems(rq) \cup {t}
  BY <1>1, <1>2, <1>5, <1>6, EnqueueTwo
<1> HIDE DEF to
<1>9. Placed(to, w, created)'
  <2>1. created' = Elems(to) \cup Elems(w) \cup ({current'} \ {NULL})
    BY <1>1, <1>3, <1>4, <1>8 DEF Placed
  <2>2. current' \notin Elems(to) \cup Elems(w)
    BY <1>1, <1>3, <1>4, <1>8 DEF Placed
  <2> QED
    BY <2>1, <2>2 DEF Placed
<1>10. WalkAt(w)'
  <2> SUFFICES ASSUME walk'.task # NULL
               PROVE  \E j \in 1..Len(w) : /\ walk'.task = w[j]
                                           /\ walk'.pre = IF j = 1 THEN NULL ELSE w[j - 1]
    BY DEF WalkAt
  <2>1. walk'.pre = pre /\ walk'.task = taskNext[sq[k]]
    BY <1>1, <1>2 DEF TaskListsTypeOK
  <2>2. k \in Nat /\ 1 <= k /\ k < Len(sq) /\ walk'.task = sq[k + 1]
    BY <1>6, <2>1
  <2>3. k \in 1..Len(w) /\ walk'.task = w[k]
    BY <1>6, <1>7, <2>2
  <2>4. pre = IF k = 1 THEN NULL ELSE w[k - 1]
    BY <1>2, <1>7, <2>2
  <2> QED
    BY <2>1, <2>3, <2>4
<1>11. Settled(to, w)'
  BY <1>1, <1>8, <1>9, <1>10 DEF Settled
<1> QED
  BY <1>11 DEF to, w

(* The end of the walk, with or without a switch.                           *)
LEMMA OnTimerEndMoves ==
  ASSUME NEW rq, NEW sq, Settled(rq, sq), TaskListsTypeOK, OnTimerEnd
  PROVE  \/ Settled(rq, sq)' /\ UNCHANGED current
         \/ /\ \E to : to = Append(Tail(rq), current) /\ Settled(to, sq)'
            /\ rq # <<>> /\ current # NULL /\ current' = Head(rq) /\ current' \in Task
<1>1. ~walk'.on /\ UNCHANGED <<sleeping, created, making>>
  BY DEF OnTimerEnd, NotWalking
<1>2. CASE current # NULL /\ ready.head # NULL /\ Switch
  BY <1>1, <1>2, SwitchMoves
<1>3. CASE UNCHANGED <<current, ready, taskNext>>
  BY <1>1, <1>3 DEF Settled, Placed, WalkAt
<1> QED
  BY <1>2, <1>3 DEF OnTimerEnd

-----------------------------------------------------------------------------
(* tasks_new                                                                *)
LEMMA MakeTaskMoves ==
  ASSUME NEW rq, NEW sq, Settled(rq, sq), TaskListsTypeOK, NEW t \in Task, MakeTask(t)
  PROVE  /\ \E n : Underway(ready, n, rq, sq)'
         /\ making' = [at |-> "testHead", task |-> t, tail |-> NULL]
<1>1. /\ current = Main /\ ~walk.on /\ t \notin created
      /\ created' = created \cup {t}
      /\ taskNext' = [taskNext EXCEPT ![t] = NULL]
      /\ making' = [at |-> "testHead", task |-> t, tail |-> NULL]
      /\ UNCHANGED <<current, ready, sleeping, walk>>
  BY DEF MakeTask, Making
<1>2. TwoLists(ready, sleeping, taskNext, rq, sq) /\ Placed(rq, sq, created)
  BY DEF Settled
<1>3. t \notin Elems(rq) /\ t \notin Elems(sq) /\ t # Main
  BY <1>1, <1>2, MainAssumption, NullAssumption DEF Placed
<1>4. /\ taskNext' \in NextType /\ taskNext'[t] = NULL /\ \A x \in Task \ {t} : taskNext'[x] = taskNext[x]
  BY <1>1, <1>2 DEF TwoLists, NextType, Pointer
<1>5. ASSUME NEW list, NEW q, IsList(list, taskNext, q), t \notin Elems(q)
      PROVE  IsList(list, taskNext', q)
  <2>1. \A i \in 1..Len(q) : q[i] \in Task \ {t}
    BY <1>5 DEF IsList, Elems
  <2> QED
    BY <1>4, <1>5, <2>1 DEF IsList
<1>6. TwoLists(ready', sleeping', taskNext', rq, sq)
  BY <1>1, <1>2, <1>3, <1>4, <1>5 DEF TwoLists
<1>7. Placed(rq, sq, created \ {making.task})'
  BY <1>1, <1>2 DEF Placed
<1>8. MadeSoFar(ready, taskNext)'
  BY <1>1 DEF MadeSoFar
<1>9. Underway(ready, taskNext, rq, sq)'
  BY <1>1, <1>3, <1>4, <1>6, <1>7, <1>8 DEF Underway
<1>10. \A n : n = taskNext' => Underway(ready, n, rq, sq)'
  BY <1>9 DEF Underway, MadeSoFar
<1> QED
  BY <1>1, <1>10

(* The stores of _enqueue_task, up to the last.                             *)
LEMMA StoreMoves ==
  ASSUME NEW h, NEW n, NEW rq, NEW sq, Underway(h, n, rq, sq), TaskListsTypeOK,
         TestHead \/ SetHead \/ TestTail \/ LinkTail \/ ClearNext
  PROVE  Underway(h, n, rq, sq)'
<1> DEFINE t == making.task
<1>1. /\ UNCHANGED <<current, sleeping, created, walk>>
      /\ making'.task = t /\ making'.at # "none"
  BY DEF TestHead, SetHead, TestTail, LinkTail, ClearNext, TaskListsTypeOK
<1>2. /\ TwoLists(h, sleeping, n, rq, sq) /\ MadeSoFar(h, n) /\ t \in Task
      /\ n[t] = NULL /\ Placed(rq, sq, created \ {t})
      /\ h \in ListType /\ n \in NextType /\ h = [head |-> h.head, tail |-> h.tail]
  BY DEF Underway, TaskListsTypeOK, TwoLists, ListType
<1>3. h.head = NULL <=> h.tail = NULL
  BY <1>2, HeadNull DEF TwoLists
<1>4. h.tail # t
  <2>1. t \notin Elems(rq) /\ t # NULL
    BY <1>2, NullAssumption DEF Placed
  <2>2. h.tail = NULL \/ h.tail \in Elems(rq)
    <3>1. Len(rq) \in Nat /\ (Len(rq) = 0 => h.tail = NULL)
          /\ (Len(rq) > 0 => h.tail = rq[Len(rq)] /\ Len(rq) \in 1..Len(rq))
      BY <1>2 DEF TwoLists, IsList
    <3> QED
      BY <3>1 DEF Elems
  <2> QED
    BY <2>1, <2>2
<1>5. MadeSoFar(h, n)'
  <2>1. CASE TestHead
    <3>1. /\ making.at = "testHead" /\ UNCHANGED <<ready, taskNext>> /\ ready = h /\ taskNext = n
          /\ making'.at = IF ready.head = NULL THEN "setHead" ELSE "testTail"
      BY <1>2, <2>1 DEF TestHead, Making, MadeSoFar, TaskListsTypeOK
    <3> QED
      BY <1>1, <1>2, <3>1 DEF MadeSoFar, EnqueueList
  <2>2. CASE SetHead
    <3>1. /\ making.at = "setHead" /\ taskNext' = taskNext /\ ready = h /\ taskNext = n /\ h.head = NULL
          /\ ready' = [ready EXCEPT !.head = t] /\ making'.at = "testTail"
      BY <1>2, <2>2 DEF SetHead, Making, MadeSoFar, TaskListsTypeOK
    <3>2. ready' = [head |-> t, tail |-> h.tail]
      BY <1>2, <3>1
    <3> QED
      BY <1>1, <3>1, <3>2 DEF MadeSoFar, EnqueueList
  <2>3. CASE TestTail
    <3>1. /\ making.at = "testTail" /\ UNCHANGED <<ready, taskNext>> /\ taskNext = n
          /\ ready = [head |-> EnqueueList(h, t).head, tail |-> h.tail]
          /\ making'.tail = ready.tail
          /\ making'.at = IF ready.tail = NULL THEN "clearNext" ELSE "linkTail"
      BY <1>2, <2>3 DEF TestTail, Making, MadeSoFar, TaskListsTypeOK
    <3>2. h.tail = NULL => n = EnqueueNext(h, n, t)
      BY <1>2, NullAssumption DEF EnqueueNext, NextType
    <3> QED
      BY <1>1, <3>1, <3>2 DEF MadeSoFar
  <2>4. CASE LinkTail
    <3>1. /\ making.at = "linkTail" /\ ready' = ready /\ taskNext = n
          /\ ready = [head |-> EnqueueList(h, t).head, tail |-> h.tail]
          /\ making.tail = h.tail /\ h.tail # NULL
          /\ taskNext' = [taskNext EXCEPT ![h.tail] = t] /\ making'.at = "clearNext"
      BY <1>2, <2>4 DEF LinkTail, Making, MadeSoFar, TaskListsTypeOK
    <3>2. taskNext' = EnqueueNext(h, n, t)
      BY <1>2, <1>4, <3>1 DEF EnqueueNext, NextType
    <3> QED
      BY <1>1, <3>1, <3>2 DEF MadeSoFar
  <2>5. CASE ClearNext
    <3>1. /\ making.at = "clearNext" /\ ready' = ready /\ taskNext = EnqueueNext(h, n, t)
          /\ ready = [head |-> EnqueueList(h, t).head, tail |-> h.tail]
          /\ taskNext' = [taskNext EXCEPT ![t] = NULL] /\ making'.at = "setTail"
      BY <1>2, <2>5 DEF ClearNext, Making, MadeSoFar, TaskListsTypeOK
    <3>2. taskNext' = EnqueueNext(h, n, t)
      BY <1>2, <3>1 DEF EnqueueNext
    <3> QED
      BY <1>1, <3>1, <3>2 DEF MadeSoFar
  <2> QED
    BY <2>1, <2>2, <2>3, <2>4, <2>5
<1> QED
  BY <1>1, <1>5 DEF Underway, Placed

(* The last one completes the list.                                         *)
LEMMA SetTailMoves ==
  ASSUME NEW h, NEW n, NEW rq, NEW sq, Underway(h, n, rq, sq), TaskListsTypeOK, SetTail,
         NEW to, to = Append(rq, making.task)
  PROVE  Settled(to, sq)'
<1> DEFINE t == making.task
<1>1. /\ making.at = "setTail" /\ ready' = [ready EXCEPT !.tail = t] /\ making' = NotMaking
      /\ UNCHANGED <<current, sleeping, taskNext, created, walk>>
  BY DEF SetTail, Making
<1>2. /\ TwoLists(h, sleeping, n, rq, sq) /\ t \in Task /\ t # current /\ ~walk.on /\ t \in created
      /\ Placed(rq, sq, created \ {t})
      /\ ready = [head |-> EnqueueList(h, t).head, tail |-> h.tail]
      /\ taskNext = EnqueueNext(h, n, t)
  BY <1>1 DEF Underway, TaskListsTypeOK, MadeSoFar
<1>3. t \notin Elems(rq) /\ t \notin Elems(sq)
  BY <1>2 DEF Placed
<1>4. ready' = EnqueueList(h, t)
  BY <1>1, <1>2 DEF EnqueueList
<1>5. TwoLists(ready', sleeping', taskNext', to, sq) /\ Elems(to) = Elems(rq) \cup {t}
  BY <1>1, <1>2, <1>3, <1>4, EnqueueTwo
<1>6. Placed(to, sq, created)'
  BY <1>1, <1>2, <1>5 DEF Placed
<1> QED
  BY <1>1, <1>2, <1>5, <1>6 DEF Settled, WalkAt, NotMaking

-----------------------------------------------------------------------------
LEMMA OperationTypes ==
  ASSUME NEW list \in ListType, NEW nxt \in NextType, NEW t \in Task, NEW p \in Pointer
  PROVE  /\ EnqueueList(list, t) \in ListType /\ EnqueueNext(list, nxt, t) \in NextType
         /\ list.head # NULL => /\ DequeueList(list, nxt) \in ListType
                                /\ DequeueNext(list, nxt) \in NextType /\ list.head \in Task
         /\ RemoveList(list, nxt, t, p) \in ListType /\ RemoveNext(nxt, t, p) \in NextType
  BY DEF ListType, NextType, Pointer, EnqueueList, EnqueueNext, DequeueList, DequeueNext,
         RemoveList, RemoveNext

LEMMA TypeKept ==
  ASSUME TaskListsTypeOK, [TaskListsNext]_taskVars
  PROVE  TaskListsTypeOK'
<1>1. /\ current \in Pointer /\ ready \in ListType /\ sleeping \in ListType /\ taskNext \in NextType
      /\ created \subseteq Task
      /\ walk \in [on : BOOLEAN, pre : Pointer, task : Pointer, need : BOOLEAN]
      /\ making \in [at : {"none", "testHead", "setHead", "testTail", "linkTail",
                           "clearNext", "setTail"},
                     task : Pointer, tail : Pointer]
  BY DEF TaskListsTypeOK
<1>2. ASSUME current \in Task, ready.head # NULL, Switch
      PROVE  current' \in Pointer /\ ready' \in ListType /\ taskNext' \in NextType
  <2>1. DequeueList(ready, taskNext) \in ListType /\ DequeueNext(ready, taskNext) \in NextType
        /\ ready.head \in Task
    BY <1>1, <1>2, OperationTypes
  <2> QED
    BY <1>2, <2>1, OperationTypes DEF Switch, Pointer
<1>3. ASSUME NEW t \in Task, TasksSchedule(t) PROVE TaskListsTypeOK'
  BY <1>1, <1>2, <1>3 DEF TasksSchedule, Calls, TaskListsTypeOK
<1>4. ASSUME NEW t \in Task, NanoSleep(t) PROVE TaskListsTypeOK'
  <2>1. /\ EnqueueList(sleeping, t) \in ListType /\ EnqueueNext(sleeping, taskNext, t) \in NextType
    BY <1>1, OperationTypes
  <2>2. CASE ready.head = NULL
    BY <1>1, <1>4, <2>1, <2>2 DEF NanoSleep, TaskListsTypeOK, Pointer
  <2>3. CASE ready.head # NULL
    <3>1. /\ DequeueList(ready, EnqueueNext(sleeping, taskNext, t)) \in ListType
          /\ DequeueNext(ready, EnqueueNext(sleeping, taskNext, t)) \in NextType
          /\ ready.head \in Task
      BY <1>1, <2>1, <2>3, OperationTypes
    <3> QED
      BY <1>1, <1>4, <2>1, <2>3, <3>1 DEF NanoSleep, TaskListsTypeOK, Pointer
  <2> QED
    BY <2>2, <2>3
<1>5. CASE IdleWake
  <2>1. ready.head # NULL /\ DequeueReady /\ UNCHANGED <<sleeping, created, walk, making>>
    BY <1>5 DEF IdleWake
  <2>2. /\ DequeueList(ready, taskNext) \in ListType /\ DequeueNext(ready, taskNext) \in NextType
        /\ ready.head \in Task
    BY <1>1, <2>1, MainAssumption, OperationTypes
  <2> QED
    BY <1>1, <2>1, <2>2 DEF DequeueReady, TaskListsTypeOK, Pointer
<1>6. CASE WakeSleeper
  <2> DEFINE t == walk.task
  <2>1. t \in Task /\ walk.pre \in Pointer
    BY <1>1, <1>6 DEF WakeSleeper, Pointer
  <2>2. /\ RemoveList(sleeping, taskNext, t, walk.pre) \in ListType
        /\ RemoveNext(taskNext, t, walk.pre) \in NextType
    BY <1>1, <2>1, OperationTypes
  <2>3. /\ EnqueueList(ready, t) \in ListType
        /\ EnqueueNext(ready, RemoveNext(taskNext, t, walk.pre), t) \in NextType
    BY <1>1, <2>1, <2>2, OperationTypes
  <2>4. taskNext[t] \in Pointer
    BY <1>1, <2>1 DEF NextType
  <2> QED
    BY <1>1, <1>6, <2>2, <2>3, <2>4 DEF WakeSleeper, RemovePredecessor, TaskListsTypeOK
<1>7. CASE OnTimer \/ PassSleeper
  <2>1. walk.task # NULL => taskNext[walk.task] \in Pointer
    BY <1>1 DEF NextType, Pointer
  <2>2. sleeping.head \in Pointer /\ NULL \in Pointer
    BY <1>1 DEF ListType, Pointer
  <2>3. CASE OnTimer
    BY <1>1, <2>2, <2>3 DEF OnTimer, TaskListsTypeOK
  <2>4. CASE PassSleeper
    BY <1>1, <2>1, <2>4 DEF PassSleeper, TaskListsTypeOK
  <2> QED
    BY <1>7, <2>3, <2>4
<1>8. CASE OnTimerEnd
  <2>1. /\ walk' = NotWalking /\ UNCHANGED <<sleeping, created, making>>
        /\ NotWalking \in [on : BOOLEAN, pre : Pointer, task : Pointer, need : BOOLEAN]
    BY <1>8 DEF OnTimerEnd, NotWalking, Pointer
  <2>2. current' \in Pointer /\ ready' \in ListType /\ taskNext' \in NextType
    BY <1>1, <1>2, <1>8 DEF OnTimerEnd, Pointer
  <2> QED
    BY <1>1, <2>1, <2>2 DEF TaskListsTypeOK
<1>9. CASE TasksNew
  <2>1. NotMaking \in [at : {"none"}, task : Pointer, tail : Pointer] /\ NULL \in Pointer
    BY DEF NotMaking, Pointer
  <2>2. ASSUME NEW t \in Task, MakeTask(t) PROVE TaskListsTypeOK'
    BY <1>1, <2>1, <2>2 DEF MakeTask, TaskListsTypeOK, NextType, Pointer
  <2>3. CASE TestHead \/ TestTail
    BY <1>1, <2>3 DEF TestHead, TestTail, TaskListsTypeOK, ListType
  <2>4. CASE SetHead
    BY <1>1, <2>4 DEF SetHead, TaskListsTypeOK, ListType
  <2>5. CASE LinkTail \/ ClearNext
    BY <1>1, <2>1, <2>5 DEF LinkTail, ClearNext, TaskListsTypeOK, NextType
  <2>6. CASE SetTail
    BY <1>1, <2>1, <2>6 DEF SetTail, TaskListsTypeOK, ListType
  <2> QED
    BY <1>9, <2>2, <2>3, <2>4, <2>5, <2>6 DEF TasksNew
<1>10. CASE UNCHANGED taskVars
  BY <1>1, <1>10 DEF taskVars, TaskListsTypeOK
<1> QED
  BY <1>3, <1>4, <1>5, <1>6, <1>7, <1>8, <1>9, <1>10 DEF TaskListsNext, TimerStep

(* While tasks_new is under way nothing else happens.                       *)
LEMMA OnlyStores ==
  ASSUME InterruptsMasked, NEW h, NEW n, NEW rq, NEW sq, Underway(h, n, rq, sq), TaskListsTypeOK, TaskListsNext
  PROVE  TestHead \/ SetHead \/ TestTail \/ LinkTail \/ ClearNext \/ SetTail
<1>1. making.at # "none" /\ current = Main /\ ~walk.on /\ Main # NULL
  BY MainAssumption, NullAssumption DEF Underway
<1>2. ~\E t \in Task : TasksSchedule(t) \/ NanoSleep(t) \/ MakeTask(t)
  BY <1>1 DEF TasksSchedule, NanoSleep, Calls, MakeTask, Making
<1>3. ~IdleWake /\ ~TimerStep
  BY <1>1 DEF IdleWake, TimerStep, OnTimer, WakeSleeper, PassSleeper, OnTimerEnd
<1> QED
  BY <1>2, <1>3 DEF TaskListsNext, TasksNew

(* Outside of it, none of its stores happen.                                *)
LEMMA SettledSteps ==
  ASSUME NEW rq, NEW sq, Settled(rq, sq), TaskListsNext
  PROVE  \/ \E t \in Task : TasksSchedule(t) \/ NanoSleep(t) \/ MakeTask(t)
         \/ IdleWake \/ OnTimer \/ WakeSleeper \/ PassSleeper \/ OnTimerEnd
  BY DEF Settled, TaskListsNext, TimerStep, TasksNew, Making, TestHead, SetHead, TestTail, LinkTail,
         ClearNext, SetTail

LEMMA ScheduleMoves ==
  ASSUME NEW rq, NEW sq, Settled(rq, sq), TaskListsTypeOK, NEW t \in Task, TasksSchedule(t)
  PROVE  /\ \E to : to = Append(Tail(rq), current) /\ Settled(to, sq)'
         /\ rq # <<>> /\ current # NULL /\ current' = Head(rq)
<1>1. /\ current = t /\ t # NULL /\ ready.head # NULL /\ Switch /\ ~walk'.on
      /\ UNCHANGED <<sleeping, created, making>>
  BY NullAssumption DEF TasksSchedule, Calls
<1> QED
  BY <1>1, SwitchMoves

LEMMA ListsStep ==
  ASSUME InterruptsMasked, ListsInv, [TaskListsNext]_taskVars
  PROVE  ListsInv'
<1>1. TaskListsTypeOK' /\ TaskListsTypeOK
  BY TypeKept DEF ListsInv
<1>2. ASSUME NEW rq, NEW sq, Settled(rq, sq), TaskListsNext
      PROVE  \/ \E q, s : Settled(q, s)'
             \/ \E h, n, q, s : Underway(h, n, q, s)'
  <2>1. ASSUME NEW t \in Task, TasksSchedule(t) PROVE \E q, s : Settled(q, s)'
    BY <1>1, <1>2, <2>1, ScheduleMoves
  <2>2. ASSUME NEW t \in Task, NanoSleep(t) PROVE \E q, s : Settled(q, s)'
    <3>1. \A q, s : (s = Append(sq, current) /\ q = IF rq = <<>> THEN <<>> ELSE Tail(rq))
                      => Settled(q, s)'
      BY <1>1, <1>2, <2>2, NanoSleepMoves
    <3> QED
      BY <3>1
  <2>3. ASSUME NEW t \in Task, MakeTask(t) PROVE \E h, n, q, s : Underway(h, n, q, s)'
    <3>1. \E n : Underway(ready, n, rq, sq)'
      BY <1>1, <1>2, <2>3, MakeTaskMoves
    <3>2. \A n : Underway(ready, n, rq, sq)' => \E h : Underway(h, n, rq, sq)'
      OBVIOUS
    <3> QED
      BY <3>1, <3>2
  <2>4. CASE IdleWake
    BY <1>1, <1>2, <2>4, IdleWakeMoves
  <2>5. CASE OnTimer \/ PassSleeper
    BY <1>1, <1>2, <2>5, OnTimerMoves, PassSleeperMoves
  <2>6. CASE WakeSleeper
    BY <1>1, <1>2, <2>6, WakeSleeperMoves
  <2>7. CASE OnTimerEnd
    BY <1>1, <1>2, <2>7, OnTimerEndMoves
  <2> QED
    BY <1>2, <2>1, <2>2, <2>3, <2>4, <2>5, <2>6, <2>7, SettledSteps
<1>3. ASSUME NEW h, NEW n, NEW rq, NEW sq, Underway(h, n, rq, sq), TaskListsNext
      PROVE  \/ \E q, s : Settled(q, s)'
             \/ Underway(h, n, rq, sq)'
  BY <1>1, <1>3, OnlyStores, StoreMoves, SetTailMoves
<1>4. CASE UNCHANGED taskVars
  BY <1>1, <1>4 DEF taskVars, ListsInv, Settled, Underway, Placed, WalkAt, MadeSoFar
<1>5. CASE TaskListsNext
  BY <1>1, <1>2, <1>3, <1>5 DEF ListsInv
<1> QED
  BY <1>4, <1>5

LEMMA ListsInvariant ==
  ASSUME InterruptsMasked
  PROVE  TaskListsSpec => []ListsInv
<1>1. TaskListsInit => ListsInv
  BY ListsInit
<1>2. ListsInv /\ [TaskListsNext]_taskVars => ListsInv'
  BY ListsStep
<1> QED
  BY <1>1, <1>2, PTL DEF TaskListsSpec

(* _remove_task is always given the true predecessor: the walk of the timer  *)
(* handler keeps it through every removal.                                  *)
THEOREM RemoveIsNeverBogus ==
  ASSUME InterruptsMasked
  PROVE  TaskListsSpec => []RemoveNeverBogus
<1>1. ListsInv => RemoveNeverBogus
  <2> SUFFICES ASSUME ListsInv, walk.on, walk.task # NULL
               PROVE  ~BogusRemove(taskNext, walk.task, walk.pre)
    BY DEF ListsInv, RemoveNeverBogus, RemovePredecessor
  <2>1. PICK rq, sq : Settled(rq, sq)
    BY DEF ListsInv, Underway
  <2>2. PICK k \in 1..Len(sq) : walk.task = sq[k] /\ walk.pre = IF k = 1 THEN NULL ELSE sq[k - 1]
    BY <2>1 DEF Settled, WalkAt
  <2>3. TwoLists(sleeping, ready, taskNext, sq, rq)
    BY <2>1, TwoListsSwap DEF Settled
  <2> QED
    BY <2>2, <2>3, RemoveTwo
<1> QED
  BY <1>1, ListsInvariant, PTL

LEMMA SettledView ==
  ASSUME NEW rq, NEW sq, Settled(rq, sq)
  PROVE  Chain(ready) = rq /\ Chain(sleeping) = sq
  BY ListIsChain, ChainIs DEF Settled, TwoLists

LEMMA QueuedElems ==
  ASSUME NEW list, NEW nxt, NEW q, IsList(list, nxt, q)
  PROVE  DOMAIN q = 1..Len(q)
  BY DEF IsList

(* No task is ever lost or in two places, and the pointers between the tasks *)
(* are those of two well-formed lists.                                      *)
THEOREM NoTaskIsLost ==
  ASSUME InterruptsMasked
  PROVE  TaskListsSpec => []NoTaskLost
<1>1. ListsInv => NoTaskLost
  <2> SUFFICES ASSUME ListsInv, making.at = "none" PROVE NoTaskLost
    BY DEF NoTaskLost
  <2>1. PICK rq, sq : Settled(rq, sq)
    BY DEF ListsInv, Underway
  <2>2. Chain(ready) = rq /\ Chain(sleeping) = sq
    BY <2>1, SettledView
  <2>3. On(ready) = Elems(rq) /\ On(sleeping) = Elems(sq)
    BY <2>1, <2>2, QueuedElems DEF On, Elems, Settled, TwoLists
  <2> QED
    BY <2>1, <2>2, <2>3 DEF NoTaskLost, Settled, Placed, TwoLists
<1> QED
  BY <1>1, ListsInvariant, PTL

(***************************************************************************)
(* The lists implement TaskQueues.  What a reader of the chains sees of a  *)
(* task that tasks_new is adding changes at one store.                     *)
(***************************************************************************)
Reached(rq) ==
  IF making.at \in {"testHead", "setHead"} \/ (making.at \in {"testTail", "linkTail"} /\ rq # <<>>)
    THEN rq ELSE Append(rq, making.task)

LEMMA UnderwayView ==
  ASSUME NEW h, NEW n, NEW rq, NEW sq, Underway(h, n, rq, sq), TaskListsTypeOK
  PROVE  Chain(ready) = Reached(rq) /\ Chain(sleeping) = sq
<1> DEFINE t == making.task
<1>1. /\ TwoLists(h, sleeping, n, rq, sq) /\ MadeSoFar(h, n) /\ t \in Task /\ n[t] = NULL
      /\ t \notin Elems(rq) /\ t \notin Elems(sq)
  BY DEF Underway, TaskListsTypeOK, Placed
<1>2. /\ IsList(h, n, rq) /\ IsList(sleeping, n, sq) /\ rq \in Seq(Task)
      /\ h.head = NULL <=> rq = <<>>
      /\ h.tail = NULL <=> rq = <<>>
  BY <1>1, HeadNull DEF TwoLists
<1>3. TwoLists(EnqueueList(h, t), sleeping, EnqueueNext(h, n, t), Append(rq, t), sq)
  BY <1>1, EnqueueTwo
<1>4. CASE making.at \in {"testHead", "setHead", "testTail", "linkTail"}
  <2>1. taskNext = n
    BY <1>1, <1>4 DEF MadeSoFar
  <2>2. Chain(sleeping) = sq
    BY <1>2, <2>1, ListIsChain, ChainIs
  <2>3. CASE rq # <<>> \/ making.at \in {"testHead", "setHead"}
    <3>1. ready.head = h.head
      BY <1>1, <1>2, <1>4, <2>3 DEF MadeSoFar, EnqueueList
    <3>2. Chain(ready) = rq
      BY <1>2, <2>1, <3>1, ListIsChain, ChainIs
    <3> QED
      BY <1>4, <2>2, <2>3, <3>2 DEF Reached
  <2>4. CASE rq = <<>> /\ making.at \in {"testTail", "linkTail"}
    <3>1. ready.head = t /\ taskNext[t] = NULL
      BY <1>1, <1>2, <2>1, <2>4 DEF MadeSoFar, EnqueueList
    <3>2. Append(rq, t) = <<t>>
      BY <2>4
    <3>3. IsChain(t, taskNext, <<t>>)
      BY <1>1, <3>1 DEF IsChain
    <3>4. Chain(ready) = <<t>>
      BY <3>1, <3>3, ChainIs
    <3> QED
      BY <2>2, <2>4, <3>2, <3>4 DEF Reached
  <2> QED
    BY <1>4, <2>3, <2>4
<1>5. CASE making.at \in {"clearNext", "setTail"}
  <2>1. /\ taskNext = EnqueueNext(h, n, t) /\ ready.head = EnqueueList(h, t).head
    BY <1>1, <1>5 DEF MadeSoFar
  <2>2. IsList(EnqueueList(h, t), taskNext, Append(rq, t)) /\ IsList(sleeping, taskNext, sq)
    BY <1>3, <2>1 DEF TwoLists
  <2>3. Chain(sleeping) = sq /\ Chain(ready) = Append(rq, t)
    BY <2>1, <2>2, ListIsChain, ChainIs
  <2> QED
    BY <1>5, <2>3 DEF Reached
<1> QED
  BY <1>4, <1>5 DEF Underway, TaskListsTypeOK

LEMMA Views ==
  /\ \A rq, sq : Settled(rq, sq) => Chain(ready) = rq /\ Chain(sleeping) = sq
  /\ \A h, n, rq, sq : TaskListsTypeOK /\ Underway(h, n, rq, sq) =>
       Chain(ready) = Reached(rq) /\ Chain(sleeping) = sq
  BY SettledView, UnderwayView

LEMMA ViewsNext ==
  (/\ \A rq, sq : Settled(rq, sq) => Chain(ready) = rq /\ Chain(sleeping) = sq
   /\ \A h, n, rq, sq : TaskListsTypeOK /\ Underway(h, n, rq, sq) =>
        Chain(ready) = Reached(rq) /\ Chain(sleeping) = sq)'
  BY Views, PTL

LEMMA NextView ==
  /\ \A rq, sq : Settled(rq, sq)' => Chain(ready)' = rq /\ Chain(sleeping)' = sq
  /\ \A h, n, rq, sq : TaskListsTypeOK' /\ Underway(h, n, rq, sq)' =>
       Chain(ready)' = Reached(rq)' /\ Chain(sleeping)' = sq
  BY ViewsNext

LEMMA SettledImplements ==
  ASSUME NEW rq, NEW sq, Settled(rq, sq), TaskListsTypeOK, TaskListsTypeOK', TaskListsNext
  PROVE  [Queues!Next]_Queues!queues
<1>1. /\ Chain(ready) = rq /\ Chain(sleeping) = sq
      /\ DOMAIN sq = 1..Len(sq) /\ DOMAIN rq = 1..Len(rq)
  BY SettledView, QueuedElems DEF Settled, TwoLists
<1>2. ASSUME rq # <<>>, current # NULL, current' = Head(rq),
             \E to : to = Append(Tail(rq), current) /\ Settled(to, sq)'
      PROVE  Queues!Rotate
  BY <1>1, <1>2, NextView DEF Queues!Rotate
<1>3. ASSUME NEW t \in Task, TasksSchedule(t) PROVE Queues!Next
  BY <1>2, <1>3, ScheduleMoves DEF Queues!Next
<1>4. ASSUME NEW t \in Task, NanoSleep(t) PROVE Queues!Next
  <2> DEFINE asleep == Append(sq, current)
             rest == IF rq = <<>> THEN <<>> ELSE Tail(rq)
  <2>1. \A s, q : s = asleep /\ q = rest =>
          /\ Settled(q, s)' /\ current \in Task
          /\ current' = IF rq = <<>> THEN NULL ELSE Head(rq)
    BY <1>4, NanoSleepMoves
  <2>2. /\ Chain(ready)' = rest /\ Chain(sleeping)' = asleep /\ current \in Task
        /\ current' = IF rq = <<>> THEN NULL ELSE Head(rq)
    BY <2>1, NextView
  <2> QED
    BY <1>1, <2>2, NullAssumption DEF Queues!Next, Queues!Sleep
<1>5. ASSUME NEW t \in Task, MakeTask(t) PROVE UNCHANGED Queues!queues
  <2>1. PICK n : Underway(ready, n, rq, sq)'
    BY <1>5, MakeTaskMoves
  <2>2. making'.at = "testHead" /\ current' = current
    BY <1>5 DEF MakeTask
  <2>3. Chain(ready)' = Reached(rq)' /\ Chain(sleeping)' = sq
    BY <2>1, NextView
  <2> QED
    BY <1>1, <2>2, <2>3 DEF Queues!queues, Reached
<1>6. CASE IdleWake
  <2>1. /\ Settled(Tail(rq), sq)' /\ rq # <<>> /\ current = NULL /\ current' = Head(rq)
    BY <1>6, IdleWakeMoves
  <2> QED
    BY <1>1, <2>1, NextView DEF Queues!Next, Queues!Dispatch
<1>7. CASE OnTimer \/ PassSleeper
  <2>1. Settled(rq, sq)' /\ current' = current
    BY <1>7, OnTimerMoves, PassSleeperMoves DEF OnTimer, PassSleeper
  <2> QED
    BY <1>1, <2>1, NextView DEF Queues!queues
<1>8. CASE WakeSleeper
  <2>1. PICK k \in 1..Len(sq) : \E to : to = Append(rq, sq[k]) /\ Settled(to, Without(sq, k))'
    BY <1>8, WakeSleeperMoves
  <2>2. Chain(ready)' = Append(rq, sq[k]) /\ Chain(sleeping)' = Without(sq, k)
    BY <2>1, NextView
  <2>3. current' = current
    BY <1>8 DEF WakeSleeper
  <2>4. Queues!Wake(k)
    BY <1>1, <2>2, <2>3 DEF Queues!Wake, Without
  <2> QED
    BY <1>1, <2>4 DEF Queues!Next
<1>9. CASE OnTimerEnd
  <2>1. CASE Settled(rq, sq)' /\ UNCHANGED current
    BY <1>1, <2>1, NextView DEF Queues!queues
  <2> QED
    BY <1>2, <1>9, <2>1, OnTimerEndMoves DEF Queues!Next
<1> QED
  BY <1>3, <1>4, <1>5, <1>6, <1>7, <1>8, <1>9, SettledSteps

LEMMA UnderwayImplements ==
  ASSUME InterruptsMasked, NEW h, NEW n, NEW rq, NEW sq, Underway(h, n, rq, sq), TaskListsTypeOK, TaskListsTypeOK', TaskListsNext
  PROVE  [Queues!Next]_Queues!queues
<1> DEFINE t == making.task
<1>1. /\ Chain(ready) = Reached(rq) /\ Chain(sleeping) = sq /\ current = Main /\ t \in Task
      /\ t \notin Elems(rq) /\ t \notin Elems(sq) /\ t # current
      /\ TwoLists(h, sleeping, n, rq, sq) /\ MadeSoFar(h, n)
  BY UnderwayView DEF Underway, TaskListsTypeOK, Placed
<1>2. /\ h.head = NULL <=> rq = <<>>
      /\ h.tail = NULL <=> rq = <<>>
      /\ DOMAIN sq = 1..Len(sq) /\ DOMAIN rq = 1..Len(rq)
  BY <1>1, HeadNull, QueuedElems DEF TwoLists
<1>3. ASSUME Chain(ready) = rq, Chain(ready)' = Append(rq, t), Chain(sleeping)' = sq,
             current' = current
      PROVE  Queues!Next
  <2>1. Queues!Create(t)
    BY <1>1, <1>2, <1>3 DEF Queues!Create, Queues!Queued, Elems
  <2> QED
    BY <1>1, <2>1 DEF Queues!Next
<1>4. CASE TestHead \/ SetHead \/ TestTail \/ LinkTail \/ ClearNext
  <2>1. /\ Chain(ready)' = Reached(rq)' /\ Chain(sleeping)' = sq
        /\ current' = current /\ making'.task = t
    BY <1>4, StoreMoves, NextView, ZenonT(40) DEF TestHead, SetHead, TestTail, LinkTail, ClearNext, TaskListsTypeOK
  <2>2. CASE TestHead
    <3>1. /\ making.at = "testHead" /\ ready = h
          /\ making'.at = IF ready.head = NULL THEN "setHead" ELSE "testTail"
      BY <1>1, <2>2 DEF TestHead, Making, MadeSoFar, TaskListsTypeOK
    <3> QED
      BY <1>1, <1>2, <2>1, <3>1 DEF Reached, Queues!queues
  <2>3. CASE SetHead
    <3>1. making.at = "setHead" /\ making'.at = "testTail" /\ rq = <<>>
      BY <1>1, <1>2, <2>3 DEF SetHead, Making, MadeSoFar, TaskListsTypeOK
    <3> QED
      BY <1>1, <1>3, <2>1, <3>1 DEF Reached
  <2>4. CASE TestTail
    <3>1. /\ making.at = "testTail" /\ ready.tail = h.tail
          /\ making'.at = IF ready.tail = NULL THEN "clearNext" ELSE "linkTail"
      BY <1>1, <2>4 DEF TestTail, Making, MadeSoFar, TaskListsTypeOK
    <3> QED
      BY <1>1, <1>2, <2>1, <3>1 DEF Reached, Queues!queues
  <2>5. CASE LinkTail
    <3>1. making.at = "linkTail" /\ making'.at = "clearNext" /\ rq # <<>>
      BY <1>1, <1>2, <2>5 DEF LinkTail, Making, MadeSoFar, TaskListsTypeOK
    <3> QED
      BY <1>1, <1>3, <2>1, <3>1 DEF Reached
  <2>6. CASE ClearNext
    <3>1. making.at = "clearNext" /\ making'.at = "setTail"
      BY <2>6 DEF ClearNext, Making, TaskListsTypeOK
    <3> QED
      BY <1>1, <2>1, <3>1 DEF Reached, Queues!queues
  <2> QED
    BY <1>4, <2>2, <2>3, <2>4, <2>5, <2>6
<1>5. CASE SetTail
  <2>1. making.at = "setTail" /\ current' = current
    BY <1>5 DEF SetTail, Making
  <2>2. \A to : to = Append(rq, t) => Settled(to, sq)'
    BY <1>5, SetTailMoves
  <2>3. Chain(ready)' = Append(rq, t) /\ Chain(sleeping)' = sq
    BY <2>2, NextView
  <2> QED
    BY <1>1, <2>1, <2>3 DEF Reached, Queues!queues
<1> QED
  BY <1>4, <1>5, OnlyStores

(* The pointer lists do what two queues of tasks do: tasks are dispatched in  *)
(* the order in which they became ready, sleepers leave from the middle, and *)
(* tasks_new takes effect at the one store that makes its task reachable.   *)
THEOREM ListsImplementQueues ==
  ASSUME InterruptsMasked
  PROVE  TaskListsSpec => ImplementsQueues
<1>1. TaskListsInit => Queues!Init
  <2> SUFFICES ASSUME TaskListsInit PROVE Queues!Init
    OBVIOUS
  <2>1. Chain(ready) = <<>> /\ Chain(sleeping) = <<>>
    BY ListsInit, SettledView
  <2> QED
    BY <2>1 DEF TaskListsInit, Queues!Init
<1>2. ListsInv /\ ListsInv' /\ [TaskListsNext]_taskVars => [Queues!Next]_Queues!queues
  <2> SUFFICES ASSUME ListsInv, ListsInv', [TaskListsNext]_taskVars PROVE [Queues!Next]_Queues!queues
    OBVIOUS
  <2>1. CASE TaskListsNext
    BY <2>1, SettledImplements, UnderwayImplements DEF ListsInv
  <2>2. CASE UNCHANGED taskVars
    BY <2>2 DEF taskVars, Queues!queues, Chain, Walked
  <2> QED
    BY <2>1, <2>2
<1> QED
  BY <1>1, <1>2, ListsInvariant, PTL DEF TaskListsSpec, ImplementsQueues, Queues!Spec
=============================================================================
