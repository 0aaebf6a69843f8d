-------------------------- MODULE TdmaMacQueue_proofs --------------------------
(***************************************************************************)
(* Lemmas about the operations of the MAC queue, and proofs about it, for  *)
(* any packets, limits and lifetimes: the counter is the length of the     *)
(* list, and the queue is a drop-tail FIFO.  Packets are queued in the     *)
(* order of time, so those that have stayed too long are the first ones:   *)
(* what Cleanup leaves is the rest of the list.                            *)
(***************************************************************************)
EXTENDS TdmaMacQueue, SequenceTheorems, WellFoundedInduction, TLAPS

Items(P) == [pkt : P, age : Nat]

\* A queue of packets from P.
Queues(P) ==
  [items : Seq(Items(P)), size : Int, maxSize : Nat, maxDelay : Nat]

\* The oldest item is the first one.
Sorted(items) == \A i, j \in 1 .. Len(items) : i <= j => items[j].age <= items[i].age

\* The first k items, and no others, have stayed too long.
Stale(queue, k) ==
  /\ k \in 0 .. Len(queue.items)
  /\ \A i \in 1 .. Len(queue.items) : IsFresh(queue.items[i], queue.maxDelay) <=> i > k

\* The counter is the length of the list, which never exceeds the limit: beyond
\* it, with the comparison for equality in Enqueue, it would grow without one.
Sound(P) ==
  {queue \in Queues(P) :
     Sorted(queue.items) /\ queue.size = Len(queue.items) /\ queue.size <= queue.maxSize}

-----------------------------------------------------------------------------
(* Least elements *)

\* A set of numbers that is not empty has a least one.
LEMMA LeastNumber ==
  ASSUME NEW S \in SUBSET Nat, S # {}
  PROVE  \E s \in S : \A t \in S : s <= t
<1>1. PICK s \in S : \A t \in S : ~(<<t, s>> \in OpToRel(<, Nat))
  BY NatLessThanWellFounded, WFMin
<1>2. \A t \in S : ~(t < s)
  BY <1>1 DEF OpToRel
<1> QED BY <1>2

-----------------------------------------------------------------------------
(* Cleanup *)

\* In a sorted queue what is too old comes first.
LEMMA StaleExists ==
  ASSUME NEW P, NEW queue \in Queues(P), Sorted(queue.items)
  PROVE  \E k \in Nat : Stale(queue, k)
<1> DEFINE n == Len(queue.items)
           S == {k \in 0 .. n : \A i \in 1 .. n : i > k => IsFresh(queue.items[i], queue.maxDelay)}
<1>1. n \in Nat /\ queue.items \in Seq(Items(P)) /\ queue.maxDelay \in Nat
  BY LenProperties DEF Queues
<1>2. \A i \in 1 .. n : queue.items[i].age \in Nat
  <2>1. \A i \in 1 .. n : queue.items[i] \in Items(P)
    BY <1>1, ElementOfSeq
  <2> QED BY <2>1 DEF Items
<1>3. n \in S
  BY <1>1
<1>4. S \in SUBSET Nat
  BY <1>1
<1>5. PICK k \in S : \A j \in S : k <= j
  BY <1>3, <1>4, LeastNumber, Zenon
<1>6. ASSUME NEW i \in 1 .. n, i <= k, IsFresh(queue.items[i], queue.maxDelay)
      PROVE  FALSE
  <2>1. ASSUME NEW j \in 1 .. n, j >= i
        PROVE  IsFresh(queue.items[j], queue.maxDelay)
    <3>1. queue.items[j].age <= queue.items[i].age
      BY <1>1, <2>1 DEF Sorted
    <3> QED BY <1>1, <1>2, <1>6, <3>1 DEF IsFresh
  <2>2. k - 1 \in 0 .. n /\ k \in 0 .. n
    BY <1>1, <1>6
  <2>3. \A j \in 1 .. n : j > k - 1 => j >= i
    BY <1>1, <1>6, <2>2
  <2>4. k - 1 \in S
    BY <2>1, <2>2, <2>3
  <2>5. ~(k <= k - 1)
    BY <2>2
  <2> QED BY <1>5, <2>4, <2>5
<1>7. \A i \in 1 .. n : i > k => IsFresh(queue.items[i], queue.maxDelay)
  BY <1>5
<1> HIDE DEF S
<1>8. k \in 0 .. n
  BY <1>5 DEF S
<1>9. \A i \in 1 .. n : IsFresh(queue.items[i], queue.maxDelay) <=> i > k
  BY <1>1, <1>6, <1>7, <1>8
<1> QED BY <1>1, <1>8, <1>9 DEF Stale

\* What is left is the rest of the list.
LEMMA FreshAreLast ==
  ASSUME NEW P, NEW queue \in Queues(P), NEW k, Stale(queue, k)
  PROVE  /\ FreshItems(queue) = SubSeq(queue.items, k + 1, Len(queue.items))
         /\ Expired(queue) = k
<1> DEFINE items == queue.items
           n == Len(items)
           Step(f) == [i \in 0 .. n |->
             IF i = 0 THEN <<>>
             ELSE IF IsFresh(items[i], queue.maxDelay) THEN Append(f[i - 1], items[i])
             ELSE f[i - 1]]
           rest == [i \in 0 .. n |-> SubSeq(items, k + 1, i)]
           fresh == CHOOSE f : f = Step(f)
<1>1. n \in Nat /\ items \in Seq(Items(P)) /\ k \in 0 .. n
  BY LenProperties DEF Queues, Stale
<1>2. \A i \in 1 .. n : items[i] \in Items(P)
  BY <1>1, ElementOfSeq
<1>3. rest = Step(rest)
  <2> SUFFICES ASSUME NEW i \in 0 .. n
               PROVE  rest[i] = Step(rest)[i]
    BY DEF Step
  <2>1. CASE i <= k
    <3>1. SubSeq(items, k + 1, i) = <<>>
      BY <1>1, <2>1, SubSeqEmpty
    <3>2. i > 0 => SubSeq(items, k + 1, i - 1) = <<>>
      BY <1>1, <2>1, SubSeqEmpty
    <3>3. i > 0 => ~IsFresh(items[i], queue.maxDelay)
      BY <1>1, <2>1 DEF Stale
    <3>4. rest[i] = <<>>
      BY <3>1
    <3>5. ASSUME i > 0 PROVE rest[i - 1] = <<>>
      <4>1. i - 1 \in 0 .. n
        BY <1>1, <3>5
      <4>2. rest[i - 1] = SubSeq(items, k + 1, i - 1)
        BY <4>1
      <4> HIDE DEF rest
      <4> QED BY <3>2, <3>5, <4>2
    <3>6. i # 0 => i > 0
      BY <1>1
    <3> HIDE DEF rest
    <3> QED BY <3>3, <3>4, <3>5, <3>6
  <2>2. CASE i > k
    <3>1. IsFresh(items[i], queue.maxDelay) /\ i \in 1 .. n /\ i - 1 \in 0 .. n
      BY <1>1, <2>2 DEF Stale
    <3>2. k + 1 \in 1 .. n /\ i \in k + 1 .. n
      BY <1>1, <2>2
    <3>3. SubSeq(items, k + 1, i) = SubSeq(items, k + 1, i - 1) \o <<items[i]>>
      BY <1>1, <3>2, SubSeqRecursiveSecond
    <3>4. SubSeq(items, k + 1, i - 1) \in Seq(Items(P))
      BY <1>1, <1>2, <3>1, SubSeqProperties
    <3>5. items[i] \in Items(P)
      BY <1>2, <3>1
    <3>6. Append(SubSeq(items, k + 1, i - 1), items[i]) = SubSeq(items, k + 1, i)
      BY <3>3, <3>4, <3>5, AppendIsConcat
    <3>7. rest[i] = SubSeq(items, k + 1, i) /\ rest[i - 1] = SubSeq(items, k + 1, i - 1)
      BY <3>1
    <3>8. i # 0
      BY <3>1
    <3> HIDE DEF rest, items
    <3> QED BY <3>1, <3>6, <3>7, <3>8
  <2> QED BY <1>1, <2>1, <2>2
<1>4. fresh = Step(fresh)
  <2> HIDE DEF Step, rest
  <2> QED BY <1>3
<1>5. \A i \in 0 .. n : fresh[i] = rest[i]
  <2> DEFINE Bad == {i \in 0 .. n : fresh[i] # rest[i]}
  <2> HIDE DEF fresh, rest
  <2>1. SUFFICES ASSUME Bad # {} PROVE FALSE
    OBVIOUS
  <2>2. PICK i \in Bad : \A j \in Bad : i <= j
    <3>1. Bad \in SUBSET Nat
      BY <1>1
    <3> QED BY <2>1, <3>1, LeastNumber, Zenon
  <2>3. /\ i \in 0 .. n /\ fresh[i] # rest[i]
        /\ i > 0 => fresh[i - 1] = rest[i - 1]
    BY <1>1, <2>2
  <2>4. fresh[i] = Step(fresh)[i] /\ rest[i] = Step(rest)[i]
    BY <1>3, <1>4
  <2> QED BY <2>3, <2>4
<1>6. FreshItems(queue) = fresh[n]
  BY DEF FreshItems
<1>7. FreshItems(queue) = SubSeq(items, k + 1, n)
  <2>1. n \in 0 .. n
    BY <1>1
  <2>2. rest[n] = SubSeq(items, k + 1, n)
    BY <2>1
  <2> HIDE DEF fresh, rest, n
  <2> QED BY <1>5, <1>6, <2>1, <2>2
<1>8. Len(SubSeq(items, k + 1, n)) = n - k
  <2>1. \A i \in k + 1 .. n : items[i] \in Items(P)
    BY <1>1, <1>2
  <2>2. Len(SubSeq(items, k + 1, n)) = IF k + 1 <= n THEN n - (k + 1) + 1 ELSE 0
    BY <1>1, <2>1, SubSeqProperties
  <2> QED BY <1>1, <2>2
<1> HIDE DEF items, fresh, rest, Step
<1> QED BY <1>1, <1>7, <1>8 DEF Expired, items, n

\* The items of the rest of a list.
LEMMA RestOfList ==
  ASSUME NEW P, NEW queue \in Queues(P), NEW k \in 0 .. Len(queue.items)
  PROVE  LET rest == SubSeq(queue.items, k + 1, Len(queue.items)) IN
         /\ rest \in Seq(Items(P))
         /\ Len(rest) = Len(queue.items) - k
         /\ \A i \in 1 .. Len(rest) : k + i \in 1 .. Len(queue.items) /\ rest[i] = queue.items[k + i]
<1> DEFINE n == Len(queue.items)
           rest == SubSeq(queue.items, k + 1, n)
<1>1. n \in Nat /\ queue.items \in Seq(Items(P))
  BY LenProperties DEF Queues
<1>2. \A i \in k + 1 .. n : queue.items[i] \in Items(P)
  <2>1. \A i \in k + 1 .. n : i \in 1 .. n
    BY <1>1
  <2> QED BY <1>1, <2>1, ElementOfSeq
<1>3. /\ rest \in Seq(Items(P))
      /\ Len(rest) = IF k + 1 <= n THEN n - (k + 1) + 1 ELSE 0
      /\ \A i \in 1 .. n - (k + 1) + 1 : rest[i] = queue.items[k + 1 + i - 1]
  BY <1>1, <1>2, SubSeqProperties
<1> HIDE DEF rest
<1>4. Len(rest) = n - k
  BY <1>1, <1>3
<1>5. ASSUME NEW i \in 1 .. Len(rest)
      PROVE  k + i \in 1 .. n /\ rest[i] = queue.items[k + i]
  <2>1. i \in 1 .. n - (k + 1) + 1 /\ k + 1 + i - 1 = k + i /\ k + i \in 1 .. n
    BY <1>1, <1>4
  <2> QED BY <1>3, <2>1
<1> QED BY <1>3, <1>4, <1>5 DEF rest

\* After Cleanup nothing is stale, and nothing fresh is lost.
LEMMA CleanupResult ==
  ASSUME NEW P, NEW queue \in Queues(P), Sorted(queue.items), NEW k, Stale(queue, k)
  PROVE  /\ Cleanup(queue) \in Queues(P)
         /\ Sorted(Cleanup(queue).items)
         /\ Stale(Cleanup(queue), 0)
         /\ Cleanup(queue).items = SubSeq(queue.items, k + 1, Len(queue.items))
         /\ Cleanup(queue).items = FreshItems(queue)
         /\ Len(Cleanup(queue).items) = Len(queue.items) - k
         /\ \A i \in 1 .. Len(Cleanup(queue).items) :
              k + i \in 1 .. Len(queue.items) /\ Cleanup(queue).items[i] = queue.items[k + i]
         /\ Cleanup(queue).size = queue.size - k
         /\ Cleanup(queue).maxSize = queue.maxSize
         /\ Cleanup(queue).maxDelay = queue.maxDelay
<1> DEFINE rest == SubSeq(queue.items, k + 1, Len(queue.items))
           clean == Cleanup(queue)
<1>1. Len(queue.items) \in Nat /\ k \in 0 .. Len(queue.items)
  BY LenProperties DEF Queues, Stale
<1>2. /\ rest \in Seq(Items(P))
      /\ Len(rest) = Len(queue.items) - k
      /\ \A i \in 1 .. Len(rest) : k + i \in 1 .. Len(queue.items) /\ rest[i] = queue.items[k + i]
  BY <1>1, RestOfList
<1>3. FreshItems(queue) = rest /\ Expired(queue) = k
  BY FreshAreLast
<1> HIDE DEF rest
<1>4. /\ clean \in Queues(P) /\ clean.items = rest /\ clean.size = queue.size - k
      /\ clean.maxSize = queue.maxSize /\ clean.maxDelay = queue.maxDelay
  <2>1. queue.size - k \in Int
    BY <1>1 DEF Queues
  <2>2. Cleanup(queue) = [queue EXCEPT !.items = rest, !.size = queue.size - k]
    BY <1>3 DEF Cleanup
  <2> DEFINE m == queue.size - k
  <2>3. m \in Int /\ Cleanup(queue) = [queue EXCEPT !.items = rest, !.size = m]
    BY <2>1, <2>2
  <2> HIDE DEF m
  <2> DEFINE Lists == Seq(Items(P))
  <2>4. queue \in [items : Lists, size : Int, maxSize : Nat, maxDelay : Nat] /\ rest \in Lists
    BY <1>2 DEF Queues
  <2> HIDE DEF Lists
  <2>5. Cleanup(queue) \in [items : Lists, size : Int, maxSize : Nat, maxDelay : Nat]
    BY <2>3, <2>4
  <2>6. /\ Cleanup(queue).items = rest /\ Cleanup(queue).size = m
        /\ Cleanup(queue).maxSize = queue.maxSize /\ Cleanup(queue).maxDelay = queue.maxDelay
    BY <2>3, <2>4
  <2> QED BY <2>5, <2>6 DEF m, Lists, Queues
<1> HIDE DEF clean
<1>5. Sorted(clean.items)
  <2> SUFFICES ASSUME NEW i \in 1 .. Len(rest), NEW j \in 1 .. Len(rest), i <= j
               PROVE  rest[j].age <= rest[i].age
    BY <1>4 DEF Sorted
  <2>1. k + i \in 1 .. Len(queue.items) /\ k + j \in 1 .. Len(queue.items) /\ k + i <= k + j
    BY <1>1, <1>2
  <2>2. queue.items[k + j].age <= queue.items[k + i].age
    BY <2>1 DEF Sorted
  <2> QED BY <1>2, <2>2
<1>6. Stale(clean, 0)
  <2>1. Len(rest) \in Nat
    BY <1>1, <1>2
  <2>2. ASSUME NEW i \in 1 .. Len(rest)
        PROVE  IsFresh(rest[i], queue.maxDelay)
    <3>1. k + i \in 1 .. Len(queue.items) /\ rest[i] = queue.items[k + i] /\ k + i > k
      BY <1>1, <1>2
    <3> QED BY <3>1 DEF Stale
  <2> QED BY <1>4, <2>1, <2>2 DEF Stale
<1> QED BY <1>2, <1>3, <1>4, <1>5, <1>6 DEF clean, rest

\* Cleanup of a queue in which nothing is stale changes nothing that is looked at.
LEMMA AllFresh ==
  ASSUME NEW P, NEW queue \in Queues(P), Stale(queue, 0)
  PROVE  FreshItems(queue) = queue.items /\ Expired(queue) = 0
<1>1. queue.items \in Seq(Items(P))
  BY DEF Queues
<1>2. SubSeq(queue.items, 0 + 1, Len(queue.items)) = queue.items
  BY <1>1, SubSeqFull
<1> QED BY <1>2, FreshAreLast

-----------------------------------------------------------------------------
(* The other operations *)

\* A packet that is pushed is the newest.
LEMMA PushResult ==
  ASSUME NEW P, NEW queue \in Queues(P), Sorted(queue.items), NEW pkt \in P
  PROVE  /\ Push(queue, pkt) \in Queues(P)
         /\ Sorted(Push(queue, pkt).items)
         /\ queue.maxDelay > 0 /\ Stale(queue, 0) => Stale(Push(queue, pkt), 0)
         /\ Push(queue, pkt).items = Append(queue.items, [pkt |-> pkt, age |-> 0])
         /\ Len(Push(queue, pkt).items) = Len(queue.items) + 1
         /\ Push(queue, pkt).size = queue.size + 1
         /\ Push(queue, pkt).maxSize = queue.maxSize
         /\ Push(queue, pkt).maxDelay = queue.maxDelay
<1> DEFINE item == [pkt |-> pkt, age |-> 0]
           longer == Append(queue.items, item)
           n == Len(queue.items)
<1>1. n \in Nat /\ queue.items \in Seq(Items(P)) /\ item \in Items(P)
  BY LenProperties DEF Queues, Items
<1>2. /\ longer \in Seq(Items(P)) /\ Len(longer) = n + 1
      /\ \A i \in 1 .. n : longer[i] = queue.items[i]
      /\ longer[n + 1] = item
  BY <1>1, AppendProperties
<1>3. /\ Push(queue, pkt) \in Queues(P) /\ Push(queue, pkt).items = longer
      /\ Push(queue, pkt).size = queue.size + 1
      /\ Push(queue, pkt).maxSize = queue.maxSize /\ Push(queue, pkt).maxDelay = queue.maxDelay
  <2>1. Push(queue, pkt) = [queue EXCEPT !.items = longer, !.size = queue.size + 1]
    BY DEF Push
  <2>2. queue.size + 1 \in Int
    BY DEF Queues
  <2> HIDE DEF longer
  <2> DEFINE m == queue.size + 1
  <2>3. m \in Int /\ Push(queue, pkt) = [queue EXCEPT !.items = longer, !.size = m]
    BY <2>1, <2>2
  <2> HIDE DEF m
  <2> DEFINE Lists == Seq(Items(P))
  <2>4. queue \in [items : Lists, size : Int, maxSize : Nat, maxDelay : Nat] /\ longer \in Lists
    BY <1>2 DEF Queues
  <2> HIDE DEF Lists
  <2>5. Push(queue, pkt) \in [items : Lists, size : Int, maxSize : Nat, maxDelay : Nat]
    BY <2>3, <2>4
  <2>6. /\ Push(queue, pkt).items = longer /\ Push(queue, pkt).size = m
        /\ Push(queue, pkt).maxSize = queue.maxSize /\ Push(queue, pkt).maxDelay = queue.maxDelay
    BY <2>3, <2>4
  <2> QED BY <2>5, <2>6 DEF m, Lists, Queues
<1>4. \A i \in 1 .. n : queue.items[i].age \in Nat
  <2>1. \A i \in 1 .. n : queue.items[i] \in Items(P)
    BY <1>1, ElementOfSeq
  <2> QED BY <2>1 DEF Items
<1>5. item.age = 0
  OBVIOUS
<1> HIDE DEF longer, item
<1>6. ASSUME NEW i \in 1 .. n + 1, NEW j \in 1 .. n + 1, i <= j
      PROVE  longer[j].age <= longer[i].age
  <2>1. CASE j = n + 1
    <3>1. longer[j].age = 0
      BY <1>2, <1>5, <2>1
    <3>2. longer[i].age \in Nat
      <4>1. i = n + 1 \/ i \in 1 .. n
        BY <1>1
      <4> QED BY <1>2, <1>4, <1>5, <4>1
    <3> QED BY <3>1, <3>2
  <2>2. CASE j # n + 1
    <3>1. i \in 1 .. n /\ j \in 1 .. n
      BY <1>1, <1>6, <2>2
    <3> QED BY <1>2, <1>6, <3>1 DEF Sorted
  <2> QED BY <2>1, <2>2
<1>7. ASSUME queue.maxDelay > 0, Stale(queue, 0), NEW i \in 1 .. n + 1
      PROVE  IsFresh(longer[i], queue.maxDelay)
  <2>1. CASE i = n + 1
    BY <1>2, <1>5, <1>7, <2>1 DEF IsFresh
  <2>2. CASE i # n + 1
    <3>1. i \in 1 .. n /\ i > 0
      BY <1>1, <2>2
    <3> QED BY <1>2, <1>7, <3>1 DEF Stale
  <2> QED BY <2>1, <2>2
<1>8. Sorted(longer)
  BY <1>2, <1>6 DEF Sorted
<1>9. queue.maxDelay > 0 /\ Stale(queue, 0) => Stale(Push(queue, pkt), 0)
  <2> SUFFICES ASSUME queue.maxDelay > 0, Stale(queue, 0) PROVE Stale(Push(queue, pkt), 0)
    OBVIOUS
  <2>1. Len(longer) \in Nat /\ 0 \in 0 .. Len(longer)
    BY <1>1, <1>2
  <2>2. \A i \in 1 .. Len(longer) : IsFresh(longer[i], queue.maxDelay) /\ i > 0
    BY <1>1, <1>2, <1>7
  <2> QED BY <1>3, <2>1, <2>2 DEF Stale
<1> QED BY <1>2, <1>3, <1>8, <1>9 DEF longer, item

\* The item at the head is the first one, and goes.
LEMMA TailResult ==
  ASSUME NEW P, NEW queue \in Queues(P), Sorted(queue.items), queue.items # <<>>,
         Stale(queue, 0)
  PROVE  LET rest == [queue EXCEPT !.items = Tail(@), !.size = @ - 1] IN
         /\ rest \in Queues(P)
         /\ Sorted(rest.items)
         /\ Stale(rest, 0)
         /\ rest.items = Tail(queue.items)
         /\ Len(rest.items) = Len(queue.items) - 1
         /\ \A i \in 1 .. Len(rest.items) : rest.items[i] = queue.items[i + 1]
         /\ rest.size = queue.size - 1
         /\ rest.maxSize = queue.maxSize
         /\ rest.maxDelay = queue.maxDelay
<1> DEFINE list == Tail(queue.items)
           m == queue.size - 1
           rest == [queue EXCEPT !.items = Tail(@), !.size = @ - 1]
           Lists == Seq(Items(P))
           n == Len(queue.items)
<1>1. n \in Nat /\ queue.items \in Lists
  BY LenProperties DEF Queues
<1>2. /\ list \in Lists /\ Len(list) = n - 1
      /\ \A i \in 1 .. n - 1 : list[i] = queue.items[i + 1]
  BY <1>1, HeadTailProperties
<1>3. queue \in [items : Lists, size : Int, maxSize : Nat, maxDelay : Nat]
  BY DEF Queues
<1>4. m \in Int /\ rest = [queue EXCEPT !.items = list, !.size = m]
  BY <1>3
<1> HIDE DEF Lists, list, m, rest
<1>5. rest \in [items : Lists, size : Int, maxSize : Nat, maxDelay : Nat]
  BY <1>2, <1>3, <1>4
<1>6. /\ rest.items = list /\ rest.size = m
      /\ rest.maxSize = queue.maxSize /\ rest.maxDelay = queue.maxDelay
  BY <1>3, <1>4
<1>7. \A i \in 1 .. n - 1 : i + 1 \in 1 .. n
  BY <1>1
<1>8. Sorted(list)
  BY <1>1, <1>2, <1>7 DEF Sorted
<1>9. Stale(rest, 0)
  <2>1. Len(list) \in Nat
    <3>1. n # 0
      BY <1>1, EmptySeq DEF Lists
    <3> QED BY <1>1, <1>2, <3>1
  <2>2. ASSUME NEW i \in 1 .. n - 1
        PROVE  IsFresh(list[i], queue.maxDelay)
    <3>1. i + 1 \in 1 .. n /\ i + 1 > 0
      BY <1>7
    <3> QED BY <1>2, <3>1 DEF Stale
  <2> QED BY <1>2, <1>6, <2>1, <2>2 DEF Stale
<1> QED BY <1>2, <1>5, <1>6, <1>8, <1>9 DEF Queues, Lists, list, m, rest

\* What is left when one item is taken out.
Cut(items, i) == SubSeq(items, 1, i - 1) \o SubSeq(items, i + 1, Len(items))

LEMMA CutItems ==
  ASSUME NEW S, NEW items \in Seq(S), NEW i \in 1 .. Len(items)
  PROVE  /\ Cut(items, i) \in Seq(S)
         /\ Len(Cut(items, i)) = Len(items) - 1
         /\ \A j \in 1 .. Len(items) - 1 : Cut(items, i)[j] = items[IF j < i THEN j ELSE j + 1]
<1> DEFINE n == Len(items)
           low == SubSeq(items, 1, i - 1)
           high == SubSeq(items, i + 1, n)
<1>1. n \in Nat /\ \A j \in 1 .. n : items[j] \in S
  BY LenProperties, ElementOfSeq
<1>2. /\ low \in Seq(S) /\ Len(low) = i - 1
      /\ \A j \in 1 .. i - 1 : low[j] = items[j]
  <2>1. \A j \in 1 .. i - 1 : j \in 1 .. n
    BY <1>1
  <2>2. /\ low \in Seq(S) /\ Len(low) = IF 1 <= i - 1 THEN i - 1 - 1 + 1 ELSE 0
        /\ \A j \in 1 .. i - 1 - 1 + 1 : low[j] = items[1 + j - 1]
    BY <1>1, <2>1, SubSeqProperties
  <2> HIDE DEF low
  <2>3. \A j \in 1 .. i - 1 : j \in 1 .. i - 1 - 1 + 1 /\ 1 + j - 1 = j
    BY <1>1
  <2> QED BY <1>1, <2>2, <2>3
<1>3. /\ high \in Seq(S) /\ Len(high) = n - i
      /\ \A j \in 1 .. n - i : high[j] = items[i + j]
  <2>1. \A j \in i + 1 .. n : j \in 1 .. n
    BY <1>1
  <2>2. /\ high \in Seq(S) /\ Len(high) = IF i + 1 <= n THEN n - (i + 1) + 1 ELSE 0
        /\ \A j \in 1 .. n - (i + 1) + 1 : high[j] = items[i + 1 + j - 1]
    BY <1>1, <2>1, SubSeqProperties
  <2> HIDE DEF high
  <2>3. \A j \in 1 .. n - i : j \in 1 .. n - (i + 1) + 1 /\ i + 1 + j - 1 = i + j
    BY <1>1
  <2> QED BY <1>1, <2>2, <2>3
<1>4. Cut(items, i) = low \o high
  BY DEF Cut
<1> HIDE DEF low, high
<1>5. /\ low \o high \in Seq(S) /\ Len(low \o high) = Len(low) + Len(high)
      /\ \A j \in 1 .. Len(low) + Len(high) :
           (low \o high)[j] = IF j <= Len(low) THEN low[j] ELSE high[j - Len(low)]
  BY <1>2, <1>3, ConcatProperties
<1>6. Len(low) + Len(high) = n - 1
  BY <1>1, <1>2, <1>3
<1>7. ASSUME NEW j \in 1 .. n - 1
      PROVE  (low \o high)[j] = items[IF j < i THEN j ELSE j + 1]
  <2>1. CASE j < i
    <3>1. j \in 1 .. i - 1 /\ j <= Len(low)
      BY <1>1, <1>2, <2>1
    <3> QED BY <1>2, <1>5, <1>6, <2>1, <3>1
  <2>2. CASE ~(j < i)
    <3>1. j - (i - 1) \in 1 .. n - i /\ ~(j <= Len(low)) /\ i + (j - (i - 1)) = j + 1
      BY <1>1, <1>2, <2>2
    <3>2. (low \o high)[j] = high[j - (i - 1)]
      BY <1>2, <1>5, <1>6, <3>1
    <3>3. high[j - (i - 1)] = items[j + 1]
      BY <1>3, <3>1
    <3> QED BY <2>2, <3>2, <3>3
  <2> QED BY <2>1, <2>2
<1> QED BY <1>4, <1>5, <1>6, <1>7

\* Remove takes one item out, which may be stale or fresh; of the others all stay.
LEMMA RemoveResult ==
  ASSUME NEW P, NEW queue \in Queues(P), Sorted(queue.items), NEW k, Stale(queue, k),
         NEW pkt, Holds(queue, pkt) # {}
  PROVE  /\ Remove(queue, pkt) \in Queues(P)
         /\ Sorted(Remove(queue, pkt).items)
         /\ Len(Remove(queue, pkt).items) = Len(queue.items) - 1
         /\ Remove(queue, pkt).size = queue.size - 1
         /\ Remove(queue, pkt).maxSize = queue.maxSize
         /\ Remove(queue, pkt).maxDelay = queue.maxDelay
         /\ \E i \in 1 .. Len(queue.items) :
              /\ Remove(queue, pkt).items = Cut(queue.items, i)
              /\ Stale(Remove(queue, pkt), IF i <= k THEN k - 1 ELSE k)
<1> DEFINE n == Len(queue.items)
           Lists == Seq(Items(P))
           i == CHOOSE j \in Holds(queue, pkt) : \A h \in Holds(queue, pkt) : j <= h
           list == Cut(queue.items, i)
           m == queue.size - 1
           left == Remove(queue, pkt)
           at == [j \in 1 .. n - 1 |-> IF j < i THEN j ELSE j + 1]
<1>1. n \in Nat /\ k \in 0 .. n /\ queue.items \in Lists
  BY LenProperties DEF Queues, Stale
<1>2. i \in 1 .. n
  <2>1. Holds(queue, pkt) \in SUBSET Nat /\ Holds(queue, pkt) \subseteq 1 .. n
    BY <1>1 DEF Holds
  <2>2. \E j \in Holds(queue, pkt) : \A h \in Holds(queue, pkt) : j <= h
    BY <2>1, LeastNumber, Zenon
  <2> QED BY <2>1, <2>2
<1>3. queue \in [items : Lists, size : Int, maxSize : Nat, maxDelay : Nat]
  BY DEF Queues
<1>4. m \in Int /\ left = [queue EXCEPT !.items = list, !.size = m]
  <2>1. left = [queue EXCEPT !.items = list, !.size = @ - 1]
    BY DEF Remove, Cut
  <2> QED BY <1>3, <2>1
<1> HIDE DEF i
<1>5. /\ list \in Lists /\ Len(list) = n - 1
      /\ \A j \in 1 .. n - 1 : list[j] = queue.items[IF j < i THEN j ELSE j + 1]
  BY <1>1, <1>2, CutItems
<1> HIDE DEF Lists, list, m, left
<1>6. left \in [items : Lists, size : Int, maxSize : Nat, maxDelay : Nat]
  BY <1>3, <1>4, <1>5
<1>7. /\ left.items = list /\ left.size = m
      /\ left.maxSize = queue.maxSize /\ left.maxDelay = queue.maxDelay
  BY <1>3, <1>4
<1>8. /\ \A j \in 1 .. n - 1 : at[j] \in 1 .. n /\ list[j] = queue.items[at[j]]
      /\ \A j, h \in 1 .. n - 1 : j <= h => at[j] <= at[h]
  BY <1>1, <1>2, <1>5
<1> HIDE DEF at
<1>9. Sorted(list)
  <2> SUFFICES ASSUME NEW j \in 1 .. n - 1, NEW h \in 1 .. n - 1, j <= h
               PROVE  list[h].age <= list[j].age
    BY <1>5 DEF Sorted
  <2>1. at[j] \in 1 .. n /\ at[h] \in 1 .. n /\ at[j] <= at[h]
    BY <1>8
  <2>2. queue.items[at[h]].age <= queue.items[at[j]].age
    BY <2>1 DEF Sorted
  <2> QED BY <1>8, <2>2
<1>10. Stale(left, IF i <= k THEN k - 1 ELSE k)
  <2> DEFINE s == IF i <= k THEN k - 1 ELSE k
  <2>1. s \in 0 .. n - 1
    BY <1>1, <1>2
  <2>2. ASSUME NEW j \in 1 .. n - 1
        PROVE  IsFresh(list[j], queue.maxDelay) <=> j > s
    <3>1. at[j] \in 1 .. n /\ list[j] = queue.items[at[j]]
      BY <1>8
    <3>2. IsFresh(queue.items[at[j]], queue.maxDelay) <=> at[j] > k
      BY <3>1 DEF Stale
    <3>3. at[j] > k <=> j > s
      BY <1>1, <1>2 DEF at
    <3> QED BY <3>1, <3>2, <3>3
  <2> HIDE DEF s
  <2>3. Stale(left, s)
    BY <1>5, <1>7, <2>1, <2>2 DEF Stale
  <2> QED BY <2>3 DEF s
<1>11. left \in Queues(P)
  BY <1>6 DEF Queues, Lists
<1> QED BY <1>2, <1>5, <1>7, <1>9, <1>10, <1>11 DEF list, left, m

\* Whatever Remove takes out of the fresh items, or none of them when what it
\* takes was stale.
LEMMA RemoveFresh ==
  ASSUME NEW P, NEW queue \in Queues(P), Sorted(queue.items), NEW k, Stale(queue, k),
         NEW pkt, Holds(queue, pkt) # {}
  PROVE  \/ /\ k > 0
            /\ Expired(Remove(queue, pkt)) = k - 1
            /\ FreshItems(Remove(queue, pkt)) = FreshItems(queue)
         \/ /\ Expired(Remove(queue, pkt)) = k
            /\ \E i \in 1 .. Len(FreshItems(queue)) :
                 FreshItems(Remove(queue, pkt)) = Cut(FreshItems(queue), i)
<1> DEFINE n == Len(queue.items)
           left == Remove(queue, pkt)
           old == FreshItems(queue)
           new == FreshItems(left)
<1>1. n \in Nat /\ k \in 0 .. n /\ queue.items \in Seq(Items(P))
  BY LenProperties DEF Queues, Stale
<1>2. left \in Queues(P) /\ Len(left.items) = n - 1
  BY RemoveResult
<1>3. PICK i \in 1 .. n :
        left.items = Cut(queue.items, i) /\ Stale(left, IF i <= k THEN k - 1 ELSE k)
  BY RemoveResult
<1>4. /\ old \in Seq(Items(P)) /\ Len(old) = n - k
      /\ \A j \in 1 .. n - k : old[j] = queue.items[k + j]
  <2> DEFINE rest == SubSeq(queue.items, k + 1, n)
  <2>1. old = rest
    BY FreshAreLast
  <2>2. /\ rest \in Seq(Items(P)) /\ Len(rest) = n - k
        /\ \A j \in 1 .. Len(rest) : rest[j] = queue.items[k + j]
    BY <1>1, RestOfList
  <2> HIDE DEF rest, old
  <2> QED BY <2>1, <2>2
<1>5. \A j \in 1 .. n - 1 : left.items[j] = queue.items[IF j < i THEN j ELSE j + 1]
  BY <1>1, <1>3, CutItems
<1>6. CASE i <= k
  <2>1. k - 1 \in 0 .. n - 1 /\ Stale(left, k - 1)
    BY <1>1, <1>3, <1>6
  <2>2. /\ new = SubSeq(left.items, k - 1 + 1, Len(left.items)) /\ Expired(left) = k - 1
    BY <1>2, <2>1, FreshAreLast
  <2>3. /\ new \in Seq(Items(P)) /\ Len(new) = n - 1 - (k - 1)
        /\ \A j \in 1 .. Len(new) : k - 1 + j \in 1 .. n - 1 /\ new[j] = left.items[k - 1 + j]
    <3> DEFINE rest == SubSeq(left.items, (k - 1) + 1, Len(left.items))
    <3>2. (k - 1) \in 0 .. Len(left.items) /\ left \in Queues(P)
      BY <1>2, <2>1
    <3> HIDE DEF left
    <3>1. /\ rest \in Seq(Items(P)) /\ Len(rest) = Len(left.items) - (k - 1)
          /\ \A j \in 1 .. Len(rest) :
               (k - 1) + j \in 1 .. Len(left.items) /\ rest[j] = left.items[(k - 1) + j]
      BY <3>2, RestOfList
    <3> HIDE DEF new
    <3> QED BY <1>2, <2>2, <3>1
  <2> HIDE DEF new, old, left
  <2>4. \A j \in 1 .. n - k : new[j] = old[j]
    <3> SUFFICES ASSUME NEW j \in 1 .. n - k PROVE new[j] = old[j]
      OBVIOUS
    <3>1. j \in 1 .. Len(new) /\ ~(k - 1 + j < i) /\ k - 1 + j + 1 = k + j
      BY <1>1, <1>6, <2>3
    <3>2. k - 1 + j \in 1 .. n - 1 /\ new[j] = left.items[k - 1 + j]
      BY <2>3, <3>1
    <3>3. left.items[k - 1 + j] = queue.items[k + j]
      BY <1>5, <3>1, <3>2
    <3> QED BY <1>4, <3>2, <3>3
  <2>5. Len(new) = n - k
    BY <1>1, <2>3
  <2>6. new = old
    BY <1>4, <2>3, <2>4, <2>5, SeqEqual
  <2>7. k > 0
    BY <1>1, <1>6
  <2> QED BY <2>2, <2>6, <2>7 DEF new, old, left
<1>7. CASE ~(i <= k)
  <2>1. k \in 0 .. n - 1 /\ Stale(left, k)
    BY <1>1, <1>3, <1>7
  <2>2. new = SubSeq(left.items, k + 1, Len(left.items)) /\ Expired(left) = k
    BY <1>2, <2>1, FreshAreLast
  <2>3. /\ new \in Seq(Items(P)) /\ Len(new) = n - 1 - k
        /\ \A j \in 1 .. Len(new) : k + j \in 1 .. n - 1 /\ new[j] = left.items[k + j]
    <3> DEFINE rest == SubSeq(left.items, k + 1, Len(left.items))
    <3>2. k \in 0 .. Len(left.items) /\ left \in Queues(P)
      BY <1>2, <2>1
    <3> HIDE DEF left
    <3>1. /\ rest \in Seq(Items(P)) /\ Len(rest) = Len(left.items) - k
          /\ \A j \in 1 .. Len(rest) :
               k + j \in 1 .. Len(left.items) /\ rest[j] = left.items[k + j]
      BY <3>2, RestOfList
    <3> HIDE DEF new
    <3> QED BY <1>2, <2>2, <3>1
  <2> HIDE DEF new, old, left
  <2>4. i - k \in 1 .. Len(old)
    BY <1>1, <1>4, <1>7
  <2>5. /\ Cut(old, i - k) \in Seq(Items(P)) /\ Len(Cut(old, i - k)) = n - k - 1
        /\ \A j \in 1 .. n - k - 1 : Cut(old, i - k)[j] = old[IF j < i - k THEN j ELSE j + 1]
    BY <1>4, <2>4, CutItems
  <2>6. \A j \in 1 .. n - k - 1 : new[j] = Cut(old, i - k)[j]
    <3> SUFFICES ASSUME NEW j \in 1 .. n - k - 1 PROVE new[j] = Cut(old, i - k)[j]
      OBVIOUS
    <3>1. j \in 1 .. Len(new) /\ k + j \in 1 .. n - 1 /\ new[j] = left.items[k + j]
      BY <1>1, <2>3
    <3>2. CASE j < i - k
      <4>1. k + j < i /\ j \in 1 .. n - k
        BY <1>1, <3>2
      <4> QED BY <1>4, <1>5, <2>5, <3>1, <3>2, <4>1
    <3>3. CASE ~(j < i - k)
      <4>1. ~(k + j < i) /\ j + 1 \in 1 .. n - k /\ k + (j + 1) = k + j + 1
        BY <1>1, <3>3
      <4> QED BY <1>4, <1>5, <2>5, <3>1, <3>3, <4>1
    <3> QED BY <3>2, <3>3
  <2>7. Len(new) = n - k - 1
    BY <1>1, <2>3
  <2>8. new = Cut(old, i - k)
    BY <2>3, <2>5, <2>6, <2>7, SeqEqual
  <2> QED BY <2>2, <2>4, <2>8 DEF new, old, left
<1> QED BY <1>6, <1>7

\* Time passes for all items alike: their order stays, and what is stale stays so.
LEMMA GrowResult ==
  ASSUME NEW P, NEW queue \in Queues(P), Sorted(queue.items), NEW k, Stale(queue, k),
         NEW d \in Nat, NEW cap \in Nat, queue.maxDelay <= cap
  PROVE  /\ Grow(queue, d, cap) \in Queues(P)
         /\ Sorted(Grow(queue, d, cap).items)
         /\ Len(Grow(queue, d, cap).items) = Len(queue.items)
         /\ \A i \in 1 .. Len(queue.items) :
              Grow(queue, d, cap).items[i] = Aged(queue.items[i], d, cap)
         /\ Grow(queue, d, cap).size = queue.size
         /\ Grow(queue, d, cap).maxSize = queue.maxSize
         /\ Grow(queue, d, cap).maxDelay = queue.maxDelay
         /\ \A s : Stale(Grow(queue, d, cap), s) => k <= s
<1> DEFINE n == Len(queue.items)
           Lists == Seq(Items(P))
           grown == Grow(queue, d, cap)
           list == [i \in 1 .. n |-> Aged(queue.items[i], d, cap)]
<1>1. n \in Nat /\ k \in 0 .. n /\ queue.items \in Lists /\ DOMAIN queue.items = 1 .. n
  BY LenProperties DEF Queues, Stale
<1>2. /\ queue \in [items : Lists, size : Int, maxSize : Nat, maxDelay : Nat]
      /\ queue.maxDelay \in Nat
  BY DEF Queues
<1>3. \A i \in 1 .. n : queue.items[i] \in [pkt : P, age : Nat]
  BY <1>1, ElementOfSeq DEF Items
<1>4. grown = [queue EXCEPT !.items = list]
  BY <1>1 DEF Grow
<1>5. ASSUME NEW item \in [pkt : P, age : Nat]
      PROVE  /\ Aged(item, d, cap) \in [pkt : P, age : Nat]
             /\ Aged(item, d, cap).age = IF item.age + d < cap THEN item.age + d ELSE cap
  BY <1>5 DEF Aged
<1>6. \A i \in 1 .. n : /\ list[i] \in [pkt : P, age : Nat]
                        /\ list[i] = Aged(queue.items[i], d, cap)
                        /\ list[i].age = IF queue.items[i].age + d < cap
                                         THEN queue.items[i].age + d ELSE cap
  BY <1>3, <1>5
<1>7. list \in Lists /\ Len(list) = n
  <2>1. list \in [1 .. n -> Items(P)]
    BY <1>6 DEF Items
  <2> HIDE DEF list
  <2> QED BY <1>1, <2>1
<1> HIDE DEF list, Lists, grown
<1>8. /\ grown \in [items : Lists, size : Int, maxSize : Nat, maxDelay : Nat]
      /\ grown.items = list /\ grown.size = queue.size
      /\ grown.maxSize = queue.maxSize /\ grown.maxDelay = queue.maxDelay
  BY <1>2, <1>4, <1>7
<1>9. Sorted(list)
  <2> SUFFICES ASSUME NEW i \in 1 .. n, NEW j \in 1 .. n, i <= j
               PROVE  list[j].age <= list[i].age
    BY <1>7 DEF Sorted
  <2>1. queue.items[j].age <= queue.items[i].age
    BY DEF Sorted
  <2>2. queue.items[j].age \in Nat /\ queue.items[i].age \in Nat
    BY <1>3
  <2> DEFINE a == queue.items[i].age
             b == queue.items[j].age
  <2>3. /\ list[i].age = IF a + d < cap THEN a + d ELSE cap
        /\ list[j].age = IF b + d < cap THEN b + d ELSE cap
    BY <1>6
  <2> HIDE DEF a, b
  <2>4. a \in Nat /\ b \in Nat /\ b <= a
    BY <2>1, <2>2 DEF a, b
  <2>5. (IF b + d < cap THEN b + d ELSE cap) <= (IF a + d < cap THEN a + d ELSE cap)
    BY <2>4
  <2> QED BY <2>3, <2>5, Zenon
<1>10. ASSUME NEW s, Stale(grown, s)
       PROVE  k <= s
  <2>1. s \in 0 .. n
    BY <1>7, <1>8, <1>10 DEF Stale
  <2>2. SUFFICES ASSUME k > 0 PROVE ~(k > s)
    BY <1>1, <2>1
  <2>3. k \in 1 .. n
    BY <1>1, <2>2
  <2>4. ~(queue.items[k].age < queue.maxDelay)
    <3>1. IsFresh(queue.items[k], queue.maxDelay) <=> k > k
      BY <2>3 DEF Stale
    <3> QED BY <2>3, <3>1 DEF IsFresh
  <2>5. queue.items[k].age \in Nat
    BY <1>3, <2>3
  <2>6. ~(list[k].age < queue.maxDelay)
    <3> DEFINE a == queue.items[k].age
               delay == queue.maxDelay
    <3>1. list[k].age = IF a + d < cap THEN a + d ELSE cap
      BY <1>6, <2>3
    <3>2. a \in Nat /\ delay \in Nat /\ ~(a < delay) /\ delay <= cap
      BY <1>2, <2>4, <2>5
    <3> HIDE DEF a, delay
    <3>3. ~((IF a + d < cap THEN a + d ELSE cap) < delay)
      BY <3>2
    <3> QED BY <3>1, <3>3, Zenon DEF delay
  <2> QED BY <1>7, <1>8, <1>10, <2>3, <2>6 DEF Stale, IsFresh
<1> QED BY <1>6, <1>7, <1>8, <1>9, <1>10 DEF Queues, Lists, grown

-----------------------------------------------------------------------------
(* Sound queues *)

\* Cleanup takes as much from the counter as from the list.
LEMMA CleanupSound ==
  ASSUME NEW P, NEW queue \in Sound(P)
  PROVE  /\ Cleanup(queue) \in Queues(P)
         /\ Sorted(Cleanup(queue).items)
         /\ Stale(Cleanup(queue), 0)
         /\ Cleanup(queue).items = FreshItems(queue)
         /\ Cleanup(queue).size = Len(Cleanup(queue).items)
         /\ Cleanup(queue).size <= queue.maxSize
         /\ Cleanup(queue).maxSize = queue.maxSize
         /\ Cleanup(queue).maxDelay = queue.maxDelay
<1>1. PICK k \in Nat : Stale(queue, k)
  BY StaleExists DEF Sound
<1>2. k \in 0 .. Len(queue.items) /\ Len(queue.items) \in Nat /\ queue.maxSize \in Nat
  BY <1>1, LenProperties DEF Stale, Sound, Queues
<1>3. /\ Cleanup(queue) \in Queues(P) /\ Sorted(Cleanup(queue).items) /\ Stale(Cleanup(queue), 0)
      /\ Cleanup(queue).items = FreshItems(queue)
      /\ Len(Cleanup(queue).items) = Len(queue.items) - k
      /\ Cleanup(queue).size = queue.size - k
      /\ Cleanup(queue).maxSize = queue.maxSize /\ Cleanup(queue).maxDelay = queue.maxDelay
  BY <1>1, CleanupResult DEF Sound
<1> QED BY <1>2, <1>3 DEF Sound

\* Enqueue pushes onto a queue that is not full.
LEMMA EnqueueSound ==
  ASSUME NEW P, NEW queue \in Sound(P), NEW pkt \in P, Accepts(queue)
  PROVE  /\ Enqueue(queue, pkt) = Push(Cleanup(queue), pkt)
         /\ Enqueue(queue, pkt) \in Queues(P)
         /\ Sorted(Enqueue(queue, pkt).items)
         /\ Enqueue(queue, pkt).items = Append(FreshItems(queue), [pkt |-> pkt, age |-> 0])
         /\ Enqueue(queue, pkt).size = Len(Enqueue(queue, pkt).items)
         /\ Enqueue(queue, pkt).size <= queue.maxSize
         /\ Len(FreshItems(queue)) < queue.maxSize
         /\ Enqueue(queue, pkt).maxSize = queue.maxSize
         /\ Enqueue(queue, pkt).maxDelay = queue.maxDelay
<1> DEFINE clean == Cleanup(queue)
           more == Push(clean, pkt)
<1>1. /\ clean \in Queues(P) /\ Sorted(clean.items) /\ clean.items = FreshItems(queue)
      /\ clean.size = Len(clean.items) /\ clean.size <= queue.maxSize
      /\ clean.maxSize = queue.maxSize /\ clean.maxDelay = queue.maxDelay
  BY CleanupSound
<1>2. clean.size # clean.maxSize
  BY DEF Accepts, IsFull
<1>3. Enqueue(queue, pkt) = more
  BY DEF Enqueue
<1> HIDE DEF clean
<1>4. /\ more \in Queues(P) /\ Sorted(more.items)
      /\ more.items = Append(clean.items, [pkt |-> pkt, age |-> 0])
      /\ Len(more.items) = Len(clean.items) + 1 /\ more.size = clean.size + 1
      /\ more.maxSize = clean.maxSize /\ more.maxDelay = clean.maxDelay
  BY <1>1, PushResult
<1> HIDE DEF more
<1>5. clean.size \in Int /\ queue.maxSize \in Nat
  BY <1>1 DEF Sound, Queues
<1>6. clean.size < queue.maxSize
  BY <1>1, <1>2, <1>5
<1> QED BY <1>1, <1>3, <1>4, <1>5, <1>6 DEF clean, more

\* Dequeue takes one packet away, and one from the counter.
LEMMA DequeueSound ==
  ASSUME NEW P, NEW queue \in Sound(P), ~IsEmpty(queue)
  PROVE  /\ Dequeue(queue) \in Queues(P)
         /\ Sorted(Dequeue(queue).items)
         /\ Stale(Dequeue(queue), 0)
         /\ Dequeue(queue).items = Tail(FreshItems(queue))
         /\ Dequeue(queue).size = Len(Dequeue(queue).items)
         /\ Dequeue(queue).size <= queue.maxSize
         /\ Dequeue(queue).maxSize = queue.maxSize
         /\ Dequeue(queue).maxDelay = queue.maxDelay
<1> DEFINE clean == Cleanup(queue)
           rest == [clean EXCEPT !.items = Tail(@), !.size = @ - 1]
<1>1. /\ clean \in Queues(P) /\ Sorted(clean.items) /\ Stale(clean, 0)
      /\ clean.items = FreshItems(queue)
      /\ clean.size = Len(clean.items) /\ clean.size <= queue.maxSize
      /\ clean.maxSize = queue.maxSize /\ clean.maxDelay = queue.maxDelay
  BY CleanupSound
<1>2. clean.items # <<>> /\ Dequeue(queue) = rest
  BY DEF IsEmpty, Dequeue
<1> HIDE DEF clean
<1>3. /\ rest \in Queues(P) /\ Sorted(rest.items) /\ Stale(rest, 0)
      /\ rest.items = Tail(clean.items) /\ Len(rest.items) = Len(clean.items) - 1
      /\ rest.size = clean.size - 1
      /\ rest.maxSize = clean.maxSize /\ rest.maxDelay = clean.maxDelay
  BY <1>1, <1>2, TailResult
<1> HIDE DEF rest
<1>4. clean.size \in Int /\ queue.maxSize \in Nat
  BY <1>1 DEF Sound, Queues
<1> QED BY <1>1, <1>2, <1>3, <1>4 DEF clean, rest

-----------------------------------------------------------------------------
(* The queue, call by call *)

QInv ==
  /\ mq \in Sound(Packet)
  /\ mq.maxDelay \in MaxDelays

-----------------------------------------------------------------------------
(* The invariant *)

LEMMA InitQInv == QueueInit => QInv
<1> SUFFICES ASSUME QueueInit PROVE QInv
  OBVIOUS
<1>1. mq = [items |-> <<>>, size |-> 0, maxSize |-> InitialSize, maxDelay |-> InitialDelay]
  BY DEF QueueInit, EmptyQueue
<1>2. <<>> \in Seq(Items(Packet)) /\ Len(<<>>) = 0
  BY EmptySeq
<1>3. InitialSize \in Nat /\ InitialDelay \in Nat /\ InitialDelay \in MaxDelays
  BY SizesAreNatural, DelaysAreNatural
<1>4. mq \in Queues(Packet)
  BY <1>1, <1>2, <1>3 DEF Queues
<1>5. Sorted(mq.items)
  BY <1>1, <1>2 DEF Sorted
<1> QED BY <1>1, <1>2, <1>3, <1>4, <1>5 DEF QInv, Sound

\* Records with other fields.
LEMMA EmptiedQInv ==
  ASSUME QInv, mq' = [mq EXCEPT !.items = <<>>, !.size = 0]
  PROVE  QInv' /\ mq'.items = <<>> /\ mq'.maxSize = mq.maxSize /\ mq'.maxDelay = mq.maxDelay
<1> DEFINE Lists == Seq(Items(Packet))
           none == <<>>
<1>1. none \in Lists /\ Len(none) = 0 /\ Sorted(none)
  BY EmptySeq DEF Sorted
<1>2. mq \in [items : Lists, size : Int, maxSize : Nat, maxDelay : Nat]
  BY DEF QInv, Sound, Queues
<1>5. mq' = [mq EXCEPT !.items = none, !.size = 0]
  OBVIOUS
<1> HIDE DEF Lists, none
<1>3. mq' \in [items : Lists, size : Int, maxSize : Nat, maxDelay : Nat]
  <2>1. none \in Lists /\ 0 \in Int
    BY <1>1
  <2> QED BY <1>2, <1>5, <2>1
<1>4. mq'.items = none /\ mq'.size = 0 /\ mq'.maxSize = mq.maxSize /\ mq'.maxDelay = mq.maxDelay
  BY <1>2, <1>5
<1>6. mq' \in Queues(Packet)
  BY <1>3 DEF Queues, Lists
<1>7. mq.maxSize \in Nat /\ mq.maxDelay \in MaxDelays
  BY <1>2 DEF QInv
<1>8. mq' \in Sound(Packet)
  <2>1. Sorted(mq'.items)
    BY <1>1, <1>4
  <2>2. mq'.size = Len(mq'.items) /\ mq'.size <= mq'.maxSize
    BY <1>1, <1>4, <1>7
  <2> QED BY <1>6, <2>1, <2>2 DEF Sound
<1> QED BY <1>4, <1>7, <1>8 DEF QInv, none

LEMMA ResizedQInv ==
  ASSUME QInv, mq.items = <<>>, NEW size \in MaxSizes, mq' = [mq EXCEPT !.maxSize = size]
  PROVE  QInv' /\ mq'.items = <<>>
<1> DEFINE Lists == Seq(Items(Packet))
<1>1. Len(<<>>) = 0
  BY EmptySeq
<1>2. mq \in [items : Lists, size : Int, maxSize : Nat, maxDelay : Nat]
  BY DEF QInv, Sound, Queues
<1>3. size \in Nat
  BY SizesAreNatural
<1> HIDE DEF Lists
<1>4. mq' \in [items : Lists, size : Int, maxSize : Nat, maxDelay : Nat]
  BY <1>2, <1>3
<1>5. mq'.items = <<>> /\ mq'.size = mq.size /\ mq'.maxSize = size /\ mq'.maxDelay = mq.maxDelay
  BY <1>2
<1> QED BY <1>1, <1>3, <1>4, <1>5 DEF QInv, Sound, Queues, Lists

LEMMA RetimedQInv ==
  ASSUME QInv, mq.items = <<>>, NEW delay \in MaxDelays, mq' = [mq EXCEPT !.maxDelay = delay]
  PROVE  QInv' /\ mq'.items = <<>>
<1> DEFINE Lists == Seq(Items(Packet))
<1>2. mq \in [items : Lists, size : Int, maxSize : Nat, maxDelay : Nat]
  BY DEF QInv, Sound, Queues
<1>3. delay \in Nat
  BY DelaysAreNatural
<1> HIDE DEF Lists
<1>4. mq' \in [items : Lists, size : Int, maxSize : Nat, maxDelay : Nat]
  BY <1>2, <1>3
<1>5. mq'.items = <<>> /\ mq'.size = mq.size /\ mq'.maxSize = mq.maxSize /\ mq'.maxDelay = delay
  BY <1>2
<1> QED BY <1>3, <1>4, <1>5 DEF QInv, Sound, Queues, Lists

\* Every action keeps the invariant.
LEMMA NextQInv == QInv /\ [QueueNext]_queueVars => QInv'
<1> SUFFICES ASSUME QInv, [QueueNext]_queueVars PROVE QInv'
  OBVIOUS
<1>1. ASSUME mq' = Cleanup(mq) PROVE QInv'
  BY <1>1, CleanupSound DEF QInv, Sound
<1>2. ASSUME NEW pkt \in Packet, EnqueueCall(pkt) PROVE QInv'
  <2>1. mq' = Enqueue(mq, pkt)
    BY <1>2 DEF EnqueueCall
  <2>2. CASE Accepts(mq)
    BY <2>1, <2>2, EnqueueSound DEF QInv, Sound
  <2>3. CASE ~Accepts(mq)
    BY <1>1, <2>1, <2>3 DEF Enqueue
  <2> QED BY <2>2, <2>3
<1>3. ASSUME NEW pkt \in Packet, RemoveCall(pkt) PROVE QInv'
  <2>1. mq' = Remove(mq, pkt)
    BY <1>3 DEF RemoveCall
  <2>2. CASE Holds(mq, pkt) = {}
    BY <2>1, <2>2 DEF Remove, QInv, Sound
  <2>3. CASE Holds(mq, pkt) # {}
    <3>1. PICK k \in Nat : Stale(mq, k)
      BY StaleExists DEF QInv, Sound
    <3>2. /\ Remove(mq, pkt) \in Queues(Packet) /\ Sorted(Remove(mq, pkt).items)
          /\ Len(Remove(mq, pkt).items) = Len(mq.items) - 1
          /\ Remove(mq, pkt).size = mq.size - 1
          /\ Remove(mq, pkt).maxSize = mq.maxSize /\ Remove(mq, pkt).maxDelay = mq.maxDelay
      BY <2>3, <3>1, RemoveResult DEF QInv, Sound
    <3>3. mq.size \in Int /\ mq.maxSize \in Nat
      BY DEF QInv, Sound, Queues
    <3> QED BY <2>1, <3>2, <3>3 DEF QInv, Sound
  <2> QED BY <2>2, <2>3
<1>4. ASSUME DequeueCall PROVE QInv'
  <2>1. mq' = Dequeue(mq)
    BY <1>4 DEF DequeueCall
  <2>2. CASE IsEmpty(mq)
    BY <1>1, <2>1, <2>2 DEF Dequeue
  <2>3. CASE ~IsEmpty(mq)
    BY <2>1, <2>3, DequeueSound DEF QInv, Sound
  <2> QED BY <2>2, <2>3
<1>5. ASSUME PeekCall \/ IsEmptyCall PROVE QInv'
  BY <1>1, <1>5 DEF PeekCall, IsEmptyCall
<1>6. ASSUME FlushCall PROVE QInv'
  <2>1. mq' = [mq EXCEPT !.items = <<>>, !.size = 0]
    BY <1>6 DEF FlushCall, Flush
  <2> QED BY <2>1, EmptiedQInv
<1>7. ASSUME Configure PROVE QInv'
  <2>1. mq.items = <<>> /\ mq \in Queues(Packet) /\ mq.size = 0
    BY <1>7, EmptySeq DEF Configure, QInv, Sound
  <2>2. CASE \E size \in MaxSizes : SetMaxSize(size)
    <3>1. PICK size \in MaxSizes : mq' = [mq EXCEPT !.maxSize = size]
      BY <2>2 DEF SetMaxSize
    <3> QED BY <2>1, <3>1, ResizedQInv
  <2>3. CASE \E delay \in MaxDelays : SetMaxDelay(delay)
    <3>1. PICK delay \in MaxDelays : mq' = [mq EXCEPT !.maxDelay = delay]
      BY <2>3 DEF SetMaxDelay
    <3> QED BY <2>1, <3>1, RetimedQInv
  <2> QED BY <1>7, <2>2, <2>3 DEF Configure
<1>8. ASSUME GrowOlder PROVE QInv'
  <2>1. PICK k \in Nat : Stale(mq, k)
    BY StaleExists DEF QInv, Sound
  <2>2. mq' = Grow(mq, 1, AgeCap) /\ AgeCap \in Nat /\ mq.maxDelay <= AgeCap
    BY <1>8, CapCoversDelays DEF GrowOlder, QInv, Sound
  <2>3. /\ mq' \in Queues(Packet) /\ Sorted(mq'.items) /\ Len(mq'.items) = Len(mq.items)
        /\ mq'.size = mq.size /\ mq'.maxSize = mq.maxSize /\ mq'.maxDelay = mq.maxDelay
    BY <2>1, <2>2, GrowResult DEF QInv, Sound
  <2> QED BY <2>3 DEF QInv, Sound
<1>9. ASSUME UNCHANGED queueVars PROVE QInv'
  BY <1>9 DEF queueVars, QInv, Sound
<1> QED BY <1>2, <1>3, <1>4, <1>5, <1>6, <1>7, <1>8, <1>9 DEF QueueNext

\* m_size, which five operations keep by hand, is the length of the list
\* (Enqueue, Cleanup, Dequeue, Flush, Remove).
THEOREM CounterIsLength == QueueSpec => []SizeAgrees
<1>1. QInv => SizeAgrees
  BY DEF QInv, Sound, SizeAgrees
<1> QED BY <1>1, InitQInv, NextQInv, PTL DEF QueueSpec

-----------------------------------------------------------------------------
(* The drop-tail FIFO *)

\* What the mapping makes of a queue after a call of Cleanup.
LEMMA CleanQueue ==
  ASSUME QInv', Stale(mq', 0)
  PROVE  FreshItems(mq)' = mq'.items /\ Expired(mq)' = 0
<1>1. FreshItems(mq') = mq'.items /\ Expired(mq') = 0
  BY AllFresh DEF QInv, Sound
<1> QED BY <1>1

\* Sizes of what is fresh and what is not.
LEMMA FreshSizes ==
  ASSUME QInv
  PROVE  /\ Expired(mq) \in Nat
         /\ FreshItems(mq) \in Seq(Items(Packet))
         /\ Len(FreshItems(mq)) \in Nat
<1>1. PICK k \in Nat : Stale(mq, k)
  BY StaleExists DEF QInv, Sound
<1>2. k \in 0 .. Len(mq.items)
  BY <1>1 DEF Stale
<1>3. SubSeq(mq.items, k + 1, Len(mq.items)) \in Seq(Items(Packet))
  BY <1>2, RestOfList DEF QInv, Sound
<1>4. FreshItems(mq) = SubSeq(mq.items, k + 1, Len(mq.items)) /\ Expired(mq) = k
  BY <1>1, FreshAreLast DEF QInv, Sound
<1> QED BY <1>3, <1>4, LenProperties

LEMMA FifoStarts ==
  ASSUME QInv, QueueInit
  PROVE  Fifo!QueueInit
<1>1. mq.items = <<>> /\ mq.maxSize = InitialSize /\ mq.maxDelay = InitialDelay
  BY DEF QueueInit, EmptyQueue
<1>2. Stale(mq, 0)
  BY <1>1, EmptySeq DEF Stale
<1>3. FreshItems(mq) = mq.items /\ Expired(mq) = 0
  BY <1>2, AllFresh DEF QInv, Sound
<1> QED BY <1>1, <1>3 DEF QueueInit, Answer, Fifo!QueueInit

\* A packet that is queued, or refused.
LEMMA FifoEnqueues ==
  ASSUME QInv, QInv', 0 \notin MaxDelays, NEW pkt \in Packet, EnqueueCall(pkt)
  PROVE  Fifo!QueueNext
<1>1. mq' = Enqueue(mq, pkt)
  BY DEF EnqueueCall
<1>2. Expired(mq) \in Nat /\ Expired(mq) + 0 = Expired(mq)
  BY FreshSizes
<1>3. CASE Accepts(mq)
  <2>1. /\ mq' = Push(Cleanup(mq), pkt)
        /\ mq'.items = Append(FreshItems(mq), [pkt |-> pkt, age |-> 0])
        /\ Len(FreshItems(mq)) < mq.maxSize
        /\ mq'.maxSize = mq.maxSize /\ mq'.maxDelay = mq.maxDelay
    BY <1>1, <1>3, EnqueueSound DEF QInv
  <2>2. Cleanup(mq) \in Queues(Packet) /\ Sorted(Cleanup(mq).items) /\ Stale(Cleanup(mq), 0)
        /\ Cleanup(mq).maxDelay = mq.maxDelay
    BY CleanupSound DEF QInv
  <2>3. mq.maxDelay > 0
    <3>1. mq.maxDelay \in Nat /\ mq.maxDelay # 0
      BY DelaysAreNatural DEF QInv, Sound
    <3> QED BY <3>1
  <2>4. Stale(mq', 0)
    BY <2>1, <2>2, <2>3, PushResult
  <2>5. FreshItems(mq)' = Append(FreshItems(mq), [pkt |-> pkt, age |-> 0]) /\ Expired(mq)' = 0
    BY <2>1, <2>4, CleanQueue
  <2>6. answer' = [what |-> "accepted", pkt |-> pkt] /\ drops' = (drops + Expired(mq)) % DropsEnd
    BY <1>2, <1>3 DEF EnqueueCall, Answer, NotifyTxDrop
  <2>7. Fifo!Accept(pkt)
    BY <2>1, <2>5, <2>6 DEF Fifo!Accept, Fifo!Entry, Fifo!Says, Fifo!Reports
  <2> QED BY <2>1, <2>7 DEF Fifo!QueueNext, Fifo!settings
<1>4. CASE ~Accepts(mq)
  <2>1. mq' = Cleanup(mq)
    BY <1>1, <1>4 DEF Enqueue
  <2>2. /\ Stale(mq', 0) /\ mq'.items = FreshItems(mq) /\ mq'.size = Len(mq'.items)
        /\ mq'.maxSize = mq.maxSize /\ mq'.maxDelay = mq.maxDelay
    BY <2>1, CleanupSound DEF QInv
  <2>3. FreshItems(mq)' = FreshItems(mq) /\ Expired(mq)' = 0
    BY <2>2, CleanQueue
  <2>4. Len(FreshItems(mq)) = mq.maxSize
    BY <1>4, <2>1, <2>2 DEF Accepts, IsFull
  <2>5. answer' = [what |-> "dropped", pkt |-> pkt] /\ drops' = (drops + (Expired(mq) + 1)) % DropsEnd
    BY <1>4 DEF EnqueueCall, Answer, NotifyTxDrop
  <2>6. Fifo!Drop(pkt)
    BY <2>3, <2>4, <2>5 DEF Fifo!Drop, Fifo!Says, Fifo!Reports
  <2> QED BY <2>2, <2>6 DEF Fifo!QueueNext, Fifo!settings
<1> QED BY <1>3, <1>4

\* Dequeue, Peek and IsEmpty answer of what is fresh.
LEMMA FifoAnswers ==
  ASSUME QInv, QInv', DequeueCall \/ PeekCall \/ IsEmptyCall
  PROVE  Fifo!QueueNext
<1>1. IsEmpty(mq) <=> FreshItems(mq) = <<>>
  BY CleanupSound DEF QInv, IsEmpty
<1>2. drops' = (drops + Expired(mq)) % DropsEnd
  BY DEF DequeueCall, PeekCall, IsEmptyCall, NotifyTxDrop
<1>3. ASSUME mq' = Cleanup(mq)
      PROVE  /\ FreshItems(mq)' = FreshItems(mq) /\ Expired(mq)' = 0
             /\ mq'.maxSize = mq.maxSize /\ mq'.maxDelay = mq.maxDelay
  <2>1. /\ Stale(mq', 0) /\ mq'.items = FreshItems(mq)
        /\ mq'.maxSize = mq.maxSize /\ mq'.maxDelay = mq.maxDelay
    BY <1>3, CleanupSound DEF QInv
  <2> QED BY <2>1, CleanQueue
<1>4. ASSUME ~IsEmpty(mq), DequeueCall \/ PeekCall PROVE Fifo!QueueNext
  <2>1. answer' = [what |-> "packet", pkt |-> Head(FreshItems(mq)).pkt]
    BY <1>4, CleanupSound DEF QInv, DequeueCall, PeekCall, Found, Answer, Front
  <2>2. /\ FreshItems(mq)' \in {FreshItems(mq), Tail(FreshItems(mq))} /\ Expired(mq)' = 0
        /\ mq'.maxSize = mq.maxSize /\ mq'.maxDelay = mq.maxDelay
    <3>1. CASE PeekCall
      BY <1>3, <3>1 DEF PeekCall
    <3>2. CASE DequeueCall
      <4>1. mq' = Dequeue(mq)
        BY <3>2 DEF DequeueCall
      <4>2. /\ Stale(mq', 0) /\ mq'.items = Tail(FreshItems(mq))
            /\ mq'.maxSize = mq.maxSize /\ mq'.maxDelay = mq.maxDelay
        BY <1>4, <4>1, DequeueSound DEF QInv
      <4> QED BY <4>2, CleanQueue
    <3> QED BY <1>4, <3>1, <3>2
  <2>3. Fifo!Take
    BY <1>1, <1>2, <1>4, <2>1, <2>2 DEF Fifo!Take, Fifo!Says, Fifo!Reports
  <2> QED BY <2>2, <2>3 DEF Fifo!QueueNext, Fifo!settings
<1>5. ASSUME IsEmptyCall \/ IsEmpty(mq) PROVE Fifo!QueueNext
  <2>1. mq' = Cleanup(mq)
    BY <1>5 DEF IsEmptyCall, PeekCall, DequeueCall, Dequeue
  <2>2. /\ FreshItems(mq)' = FreshItems(mq) /\ Expired(mq)' = 0
        /\ mq'.maxSize = mq.maxSize /\ mq'.maxDelay = mq.maxDelay
    BY <1>3, <2>1
  <2>3. answer' = [what |-> IF IsEmpty(mq) THEN "empty" ELSE "nonempty", pkt |-> NoPacket]
    BY <1>5 DEF IsEmptyCall, PeekCall, DequeueCall, Found, Answer
  <2>4. Fifo!Ask
    BY <1>1, <1>2, <2>2, <2>3 DEF Fifo!Ask, Fifo!Says, Fifo!Reports
  <2> QED BY <2>2, <2>4 DEF Fifo!QueueNext, Fifo!settings
<1> QED BY <1>4, <1>5

\* Remove takes a packet that is there, or one that has disappeared already.
LEMMA FifoRemoves ==
  ASSUME QInv, QInv', NEW pkt \in Packet, RemoveCall(pkt)
  PROVE  [Fifo!QueueNext]_(Fifo!queueVars)
<1>1. mq' = Remove(mq, pkt) /\ UNCHANGED <<answer, drops>>
  BY DEF RemoveCall
<1>2. CASE Holds(mq, pkt) = {}
  <2>1. mq' = mq
    BY <1>1, <1>2 DEF Remove
  <2> QED BY <1>1, <2>1 DEF Fifo!queueVars, Fifo!settings
<1>3. CASE Holds(mq, pkt) # {}
  <2>1. PICK k \in Nat : Stale(mq, k)
    BY StaleExists DEF QInv, Sound
  <2>2. Expired(mq) = k
    BY <2>1, FreshAreLast DEF QInv, Sound
  <2>3. \/ k > 0 /\ Expired(mq') = k - 1 /\ FreshItems(mq') = FreshItems(mq)
        \/ /\ Expired(mq') = k
           /\ \E i \in 1 .. Len(FreshItems(mq)) : FreshItems(mq') = Cut(FreshItems(mq), i)
    BY <1>1, <1>3, <2>1, RemoveFresh DEF QInv, Sound
  <2>4. mq'.maxSize = mq.maxSize /\ mq'.maxDelay = mq.maxDelay
    BY <1>1, <1>3, <2>1, RemoveResult DEF QInv, Sound
  <2>5. Fifo!Withdraw
    BY <1>1, <2>2, <2>3 DEF Fifo!Withdraw, Cut
  <2> QED BY <2>4, <2>5 DEF Fifo!QueueNext, Fifo!settings
<1> QED BY <1>2, <1>3

\* Flush, and setting up.
LEMMA FifoFlushes ==
  ASSUME QInv, QInv', FlushCall \/ Configure
  PROVE  Fifo!QueueNext
<1>1. ASSUME mq'.items = <<>>
      PROVE  FreshItems(mq)' = <<>> /\ Expired(mq)' = 0
  <2>1. Stale(mq', 0)
    BY <1>1, EmptySeq DEF Stale
  <2> QED BY <1>1, <2>1, CleanQueue
<1>2. CASE FlushCall
  <2>1. mq' = [mq EXCEPT !.items = <<>>, !.size = 0] /\ UNCHANGED <<answer, drops>>
    BY <1>2 DEF FlushCall, Flush
  <2>2. mq'.items = <<>> /\ mq'.maxSize = mq.maxSize /\ mq'.maxDelay = mq.maxDelay
    BY <2>1, EmptiedQInv
  <2>3. Fifo!Withdraw
    BY <1>1, <2>1, <2>2 DEF Fifo!Withdraw
  <2> QED BY <2>2, <2>3 DEF Fifo!QueueNext, Fifo!settings
<1>3. CASE Configure
  <2>1. mq.items = <<>> /\ UNCHANGED <<answer, drops>>
    BY <1>3 DEF Configure, SetMaxSize, SetMaxDelay
  <2>2. Stale(mq, 0)
    BY <2>1, EmptySeq DEF Stale
  <2>3. FreshItems(mq) = <<>> /\ Expired(mq) = 0
    BY <2>1, <2>2, AllFresh DEF QInv, Sound
  <2>4. mq'.items = <<>>
    <3>1. CASE \E size \in MaxSizes : SetMaxSize(size)
      <4>1. PICK size \in MaxSizes : mq' = [mq EXCEPT !.maxSize = size]
        BY <3>1 DEF SetMaxSize
      <4> QED BY <2>1, <4>1, ResizedQInv
    <3>2. CASE \E delay \in MaxDelays : SetMaxDelay(delay)
      <4>1. PICK delay \in MaxDelays : mq' = [mq EXCEPT !.maxDelay = delay]
        BY <3>2 DEF SetMaxDelay
      <4> QED BY <2>1, <4>1, RetimedQInv
    <3> QED BY <1>3, <3>1, <3>2 DEF Configure
  <2>5. Fifo!Configure
    BY <1>1, <2>1, <2>3, <2>4 DEF Fifo!Configure
  <2> QED BY <2>5 DEF Fifo!QueueNext
<1> QED BY <1>2, <1>3

\* One item grows older: below the cap as the FIFO counts, and the cap is never
\* below the lifetime.
LEMMA OneOlder ==
  ASSUME NEW item \in Items(Packet), NEW delay \in Nat, AgeCap \in Nat, delay <= AgeCap
  PROVE  /\ Fifo!Older(item).age \in Nat
         /\ Fifo!Older(item) \in Items(Packet)
         /\ Fifo!Older(item).age < delay <=> Aged(item, 1, AgeCap).age < delay
         /\ Aged(item, 1, AgeCap).age < delay => Aged(item, 1, AgeCap) = Fifo!Older(item)
<1>1. item.pkt \in Packet /\ item.age \in Nat /\ item = [pkt |-> item.pkt, age |-> item.age]
  BY DEF Items
<1>2. Fifo!Older(item) = [pkt |-> item.pkt, age |-> item.age + 1]
  BY DEF Fifo!Older, Fifo!Entry
<1>3. Aged(item, 1, AgeCap)
        = [pkt |-> item.pkt, age |-> IF item.age + 1 < AgeCap THEN item.age + 1 ELSE AgeCap]
  BY <1>1 DEF Aged
<1>4. Fifo!Older(item) \in Items(Packet) /\ Fifo!Older(item).age = item.age + 1
  BY <1>1, <1>2 DEF Items
<1>5. Aged(item, 1, AgeCap).age = IF item.age + 1 < AgeCap THEN item.age + 1 ELSE AgeCap
  BY <1>3
<1>6. Aged(item, 1, AgeCap).age < delay => Aged(item, 1, AgeCap).age = item.age + 1
  BY <1>1, <1>5
<1>7. Aged(item, 1, AgeCap).age = item.age + 1 => Aged(item, 1, AgeCap) = Fifo!Older(item)
  BY <1>2, <1>3
<1> QED BY <1>1, <1>4, <1>5, <1>6, <1>7

\* Time passes: the items that become stale disappear from the FIFO.
LEMMA FifoExpires ==
  ASSUME QInv, QInv', GrowOlder
  PROVE  Fifo!QueueNext
<1> DEFINE N == Len(mq.items)
           content == FreshItems(mq)
           n == Len(content)
           aged == [i \in 1 .. n |-> Fifo!Older(content[i])]
<1>1. PICK k \in Nat : Stale(mq, k)
  BY StaleExists DEF QInv, Sound
<1>2. /\ mq' = Grow(mq, 1, AgeCap) /\ AgeCap \in Nat /\ mq.maxDelay \in Nat /\ mq.maxDelay <= AgeCap
      /\ UNCHANGED <<answer, drops>>
  BY CapCoversDelays DEF GrowOlder, QInv, Sound, Queues
<1>3. /\ Len(mq'.items) = N
      /\ \A i \in 1 .. N : mq'.items[i] = Aged(mq.items[i], 1, AgeCap)
      /\ mq'.maxSize = mq.maxSize /\ mq'.maxDelay = mq.maxDelay
      /\ \A s : Stale(mq', s) => k <= s
  <2>1. mq \in Queues(Packet) /\ Sorted(mq.items)
    BY DEF QInv, Sound
  <2> HIDE DEF N, content, n, aged
  <2>2. /\ Len(mq'.items) = Len(mq.items)
        /\ \A i \in 1 .. Len(mq.items) : mq'.items[i] = Aged(mq.items[i], 1, AgeCap)
        /\ mq'.maxSize = mq.maxSize /\ mq'.maxDelay = mq.maxDelay
        /\ \A s : Stale(mq', s) => k <= s
    BY <1>1, <1>2, <2>1, GrowResult
  <2> QED BY <2>2 DEF N
<1>4. PICK s \in Nat : Stale(mq', s)
  BY StaleExists DEF QInv, Sound
<1>5. N \in Nat /\ k \in 0 .. N /\ s \in k .. N
  <2>1. N \in Nat /\ k \in 0 .. N
    BY <1>1, LenProperties DEF QInv, Sound, Queues, Stale
  <2>2. s \in 0 .. N /\ k <= s
    BY <1>3, <1>4 DEF Stale
  <2> QED BY <2>1, <2>2
<1>6. /\ content \in Seq(Items(Packet)) /\ n = N - k /\ Expired(mq) = k
      /\ \A i \in 1 .. n : k + i \in 1 .. N /\ content[i] = mq.items[k + i]
  <2> DEFINE rest == SubSeq(mq.items, k + 1, N)
  <2>1. content = rest /\ Expired(mq) = k
    BY <1>1, FreshAreLast DEF QInv, Sound
  <2>2. /\ rest \in Seq(Items(Packet)) /\ Len(rest) = N - k
        /\ \A i \in 1 .. Len(rest) : k + i \in 1 .. N /\ rest[i] = mq.items[k + i]
    BY <1>5, RestOfList DEF QInv, Sound
  <2> HIDE DEF rest, content
  <2> QED BY <2>1, <2>2
<1>7. /\ FreshItems(mq') \in Seq(Items(Packet)) /\ Len(FreshItems(mq')) = N - s
      /\ Expired(mq') = s
      /\ \A i \in 1 .. N - s : s + i \in 1 .. N /\ FreshItems(mq')[i] = mq'.items[s + i]
  <2> DEFINE rest == SubSeq(mq'.items, s + 1, Len(mq'.items))
  <2>1. FreshItems(mq') = rest /\ Expired(mq') = s
    BY <1>4, FreshAreLast DEF QInv, Sound
  <2>2. /\ rest \in Seq(Items(Packet)) /\ Len(rest) = N - s
        /\ \A i \in 1 .. Len(rest) : s + i \in 1 .. N /\ rest[i] = mq'.items[s + i]
    <3>1. mq' \in Queues(Packet) /\ s \in 0 .. Len(mq'.items)
      BY <1>3, <1>5 DEF QInv, Sound
    <3>2. /\ rest \in Seq(Items(Packet)) /\ Len(rest) = Len(mq'.items) - s
          /\ \A i \in 1 .. Len(rest) :
               s + i \in 1 .. Len(mq'.items) /\ rest[i] = mq'.items[s + i]
      BY <3>1, RestOfList
    <3> HIDE DEF rest
    <3> QED BY <1>3, <3>2
  <2> HIDE DEF rest
  <2> QED BY <2>1, <2>2
<1> HIDE DEF content
<1>8. \A i \in 1 .. N : mq.items[i] \in Items(Packet)
  BY ElementOfSeq DEF QInv, Sound, Queues
<1>9. /\ aged \in Seq(Items(Packet)) /\ Len(aged) = n
      /\ \A i \in 1 .. n : aged[i] = Fifo!Older(mq.items[k + i]) /\ aged[i].age \in Nat
  <2>1. \A i \in 1 .. n : /\ aged[i] = Fifo!Older(mq.items[k + i])
                          /\ aged[i] \in Items(Packet) /\ aged[i].age \in Nat
    BY <1>2, <1>6, <1>8, OneOlder
  <2>2. aged \in [1 .. n -> Items(Packet)]
    BY <2>1
  <2>3. n \in Nat
    BY <1>5, <1>6
  <2> HIDE DEF aged
  <2> QED BY <2>1, <2>2, <2>3
<1> HIDE DEF aged
<1>10. \A i \in 1 .. n : aged[i].age < mq.maxDelay <=> i > s - k
  <2> SUFFICES ASSUME NEW i \in 1 .. n
               PROVE  aged[i].age < mq.maxDelay <=> i > s - k
    OBVIOUS
  <2>1. k + i \in 1 .. N /\ aged[i] = Fifo!Older(mq.items[k + i])
    BY <1>6, <1>9
  <2>2. aged[i].age < mq.maxDelay <=> mq'.items[k + i].age < mq.maxDelay
    BY <1>2, <1>3, <1>8, <2>1, OneOlder
  <2>3. mq'.items[k + i].age < mq.maxDelay <=> k + i > s
    BY <1>3, <1>4, <2>1 DEF Stale, IsFresh
  <2> QED BY <1>5, <1>6, <2>2, <2>3
<1>11. FreshItems(mq') = SubSeq(aged, s - k + 1, n)
  <2> DEFINE part == SubSeq(aged, s - k + 1, n)
  <2>1. \A i \in s - k + 1 .. n : aged[i] \in Items(Packet)
    <3>1. \A i \in s - k + 1 .. n : i \in 1 .. n
      BY <1>5, <1>6
    <3> QED BY <1>9, <3>1, ElementOfSeq
  <2>2. /\ part \in Seq(Items(Packet))
        /\ Len(part) = IF s - k + 1 <= n THEN n - (s - k + 1) + 1 ELSE 0
        /\ \A i \in 1 .. n - (s - k + 1) + 1 : part[i] = aged[s - k + 1 + i - 1]
    BY <1>5, <1>6, <2>1, SubSeqProperties
  <2> HIDE DEF part
  <2>3. Len(part) = N - s
    BY <1>5, <1>6, <2>2
  <2>4. ASSUME NEW i \in 1 .. N - s
        PROVE  FreshItems(mq')[i] = part[i]
    <3>1. /\ s - k + i \in 1 .. n /\ k + (s - k + i) = s + i /\ s + i \in 1 .. N
          /\ i \in 1 .. n - (s - k + 1) + 1 /\ s - k + 1 + i - 1 = s - k + i
          /\ s + i > s
      BY <1>5, <1>6
    <3>2. part[i] = Fifo!Older(mq.items[s + i])
      BY <1>9, <2>2, <3>1
    <3>3. mq'.items[s + i].age < mq.maxDelay
      BY <1>3, <1>4, <3>1 DEF Stale, IsFresh
    <3>4. mq'.items[s + i] = Fifo!Older(mq.items[s + i])
      BY <1>2, <1>3, <1>8, <3>1, <3>3, OneOlder
    <3> QED BY <1>7, <3>2, <3>4
  <2>5. FreshItems(mq') = part
    BY <1>7, <2>2, <2>3, <2>4, SeqEqual
  <2> QED BY <2>5 DEF part
<1>12. s - k \in 0 .. n /\ Expired(mq') = Expired(mq) + (s - k)
  BY <1>5, <1>6, <1>7
<1>13. Fifo!Expire
  BY <1>2, <1>10, <1>11, <1>12, Zenon DEF Fifo!Expire, aged, content
<1> QED BY <1>3, <1>13 DEF Fifo!QueueNext, Fifo!settings

\* Every step of the queue is one of the FIFO, or changes nothing of it.
LEMMA FifoSteps ==
  ASSUME QInv, QInv', 0 \notin MaxDelays, [QueueNext]_queueVars
  PROVE  [Fifo!QueueNext]_(Fifo!queueVars)
<1>1. CASE \E pkt \in Packet : EnqueueCall(pkt) \/ RemoveCall(pkt)
  BY <1>1, FifoEnqueues, FifoRemoves
<1>2. CASE DequeueCall \/ PeekCall \/ IsEmptyCall
  BY <1>2, FifoAnswers
<1>3. CASE FlushCall \/ Configure
  BY <1>3, FifoFlushes
<1>4. CASE GrowOlder
  BY <1>4, FifoExpires
<1>5. CASE UNCHANGED queueVars
  BY <1>5 DEF queueVars, Fifo!queueVars, Fifo!settings
<1> QED BY <1>1, <1>2, <1>3, <1>4, <1>5 DEF QueueNext

\* With lifetimes that are not zero nobody who calls the queue can tell that it
\* forgets expired packets late, in Cleanup: its answers and the drops that it
\* reports are those of a FIFO that drops each packet when its time is over.
THEOREM QueueImplementsDropTail ==
  ASSUME 0 \notin MaxDelays
  PROVE  QueueSpec => ImplementsDropTail
<1>1. QInv /\ QueueInit => Fifo!QueueInit
  BY FifoStarts
<1>2. QInv /\ QInv' /\ [QueueNext]_queueVars => [Fifo!QueueNext]_(Fifo!queueVars)
  BY FifoSteps
<1> QED BY <1>1, <1>2, InitQInv, NextQInv, PTL DEF QueueSpec, ImplementsDropTail, Fifo!DropTail
=============================================================================
