------------------------- MODULE SenderQueueProofs -------------------------
(***************************************************************************)
(* Proofs about SenderQueue for every set of subjects and every number of  *)
(* messages: coalescing leaves no superseded message behind, and messages  *)
(* leave in the order they came.                                           *)
(***************************************************************************)
EXTENDS SenderQueue, SequenceTheorems, TLAPS

(* The history bounds the wire ids that are around.                        *)
WidsAreBounded ==
    /\ \A i \in DOMAIN queue : queue[i].wid <= Len(enqueued)
    /\ \A i \in DOMAIN written : written[i].wid <= Len(enqueued)

(* InOrder, one part per pair of places a message can be in.               *)
OrderParts ==
    /\ \A i, j \in DOMAIN queue : i < j => queue[i].wid < queue[j].wid
    /\ \A i, j \in DOMAIN written : i < j => written[i].wid < written[j].wid
    /\ \A i \in DOMAIN written, j \in DOMAIN queue : written[i].wid < queue[j].wid

IInv == TypeOK /\ NoSupersededMessage /\ NewestSurvives /\ WidsAreBounded /\ OrderParts

----------------------------------------------------------------------------

(* Two messages that a third one supersedes supersede each other.          *)
LEMMA SupersedesIsSymmetric ==
    ASSUME NEW m, NEW a, NEW b, Supersedes(m, a), Supersedes(m, b)
    PROVE  Supersedes(a, b)
BY DEF Supersedes

(* Removing one element of a sequence shifts the ones behind it.           *)
LEMMA RemoveAtShifts ==
    ASSUME NEW S, NEW q \in Seq(S), NEW k \in DOMAIN q
    PROVE  /\ RemoveAt(q, k) \in Seq(S)
           /\ Len(RemoveAt(q, k)) = Len(q) - 1
           /\ \A j \in 1..(Len(q) - 1) : RemoveAt(q, k)[j] = IF j < k THEN q[j] ELSE q[j + 1]
<1> DEFINE front == SubSeq(q, 1, k - 1)
           back  == SubSeq(q, k + 1, Len(q))
<1>1. k \in 1..Len(q) /\ Len(q) \in Nat /\ \A i \in 1..Len(q) : q[i] \in S
  BY LenProperties, ElementOfSeq, SMTT(30)
<1>2. /\ front \in Seq(S)
      /\ Len(front) = k - 1
      /\ \A i \in 1..(k - 1) : front[i] = q[i]
  <2>1. \A i \in 1..(k - 1) : q[i] \in S
    BY <1>1
  <2> QED BY <1>1, <2>1, SubSeqProperties, SMTT(30)
<1>3. /\ back \in Seq(S)
      /\ Len(back) = Len(q) - k
      /\ \A i \in 1..(Len(q) - k) : back[i] = q[k + i]
  <2>1. \A i \in (k + 1)..Len(q) : q[i] \in S
    BY <1>1, SMTT(30)
  <2>2. /\ back \in Seq(S)
        /\ Len(back) = IF k + 1 <= Len(q) THEN Len(q) - (k + 1) + 1 ELSE 0
        /\ \A i \in 1..(Len(q) - (k + 1) + 1) : back[i] = q[(k + 1) + i - 1]
    BY <1>1, <2>1, SubSeqProperties, SMTT(30)
  <2> QED BY <1>1, <2>2, SMTT(30)
<1> HIDE DEF front, back
<1>4. /\ front \o back \in Seq(S)
      /\ Len(front \o back) = Len(q) - 1
      /\ \A i \in 1..(Len(q) - 1) :
           (front \o back)[i] = IF i <= k - 1 THEN front[i] ELSE back[i - (k - 1)]
  BY <1>1, <1>2, <1>3, ConcatProperties, SMTT(60)
<1>5. RemoveAt(q, k) = front \o back
  BY DEF RemoveAt, front, back
<1>6. ASSUME NEW j \in 1..(Len(q) - 1)
      PROVE  (front \o back)[j] = IF j < k THEN q[j] ELSE q[j + 1]
  <2>1. CASE j < k
    BY <1>1, <1>2, <1>4, <2>1
  <2>2. CASE j >= k
    <3>1. j - (k - 1) \in 1..(Len(q) - k) /\ k + (j - (k - 1)) = j + 1 /\ ~(j < k)
      BY <1>1, <2>2, SMTT(30)
    <3>2. (front \o back)[j] = back[j - (k - 1)]
      BY <1>1, <1>4, <2>2, SMTT(30)
    <3>3. back[j - (k - 1)] = q[j + 1]
      BY <1>3, <3>1, SMTT(30)
    <3> QED BY <3>1, <3>2, <3>3
  <2>3. j < k \/ j >= k
    BY <1>1, SMTT(30)
  <2> QED BY <2>1, <2>2, <2>3, ZenonT(30)
<1> QED BY <1>4, <1>5, <1>6, SMTT(30)

(* What deduplicate() does to a queue without superseded messages: nothing *)
(* when the new message supersedes none, and otherwise it removes the only *)
(* message that the new one supersedes.                                    *)
LEMMA DeduplicateRemovesTheOnlyMatch ==
    ASSUME NEW q \in Seq(Messages), NEW m \in Messages,
           \A i, j \in DOMAIN q : i < j => ~Supersedes(q[j], q[i])
    PROVE  \/ /\ Deduplicate(q, m) = q
              /\ \A i \in DOMAIN q : ~Supersedes(m, q[i])
           \/ \E k \in DOMAIN q :
                /\ Deduplicate(q, m) = RemoveAt(q, k)
                /\ Supersedes(m, q[k])
                /\ \A i \in DOMAIN q : i # k => ~Supersedes(m, q[i])
<1> DEFINE hits == {i \in DOMAIN q : Supersedes(m, q[i])}
<1>1. CASE hits = {}
  BY <1>1, SMTT(30) DEF Deduplicate
<1>2. CASE hits # {}
  <2>1. PICK k \in DOMAIN q : Supersedes(m, q[k])
    BY <1>2, SMTT(30)
  <2>2. ASSUME NEW i \in DOMAIN q, i # k, Supersedes(m, q[i])
        PROVE  FALSE
    <3>1. Supersedes(q[i], q[k]) /\ Supersedes(q[k], q[i])
      BY <2>1, <2>2, SupersedesIsSymmetric, SMTT(30)
    <3>2. i < k \/ k < i
      BY <2>2, SMTT(30)
    <3> QED BY <3>1, <3>2, SMTT(30)
  <2>3. hits = {k}
    BY <2>1, <2>2, SMTT(30)
  <2>4. (CHOOSE i \in hits : \A j \in hits : i <= j) = k
    BY <2>3, SMTT(30)
  <2>5. Deduplicate(q, m) = RemoveAt(q, k)
    BY <1>2, <2>4, ZenonT(30) DEF Deduplicate
  <2> QED BY <2>1, <2>2, <2>5, SMTT(30)
<1> QED BY <1>1, <1>2, SMTT(30)

(* r is q without some superseded messages, and with m behind the others.  *)
EnqueuedInOrder(q, m, r) ==
    /\ r \in Seq(Messages)
    /\ Len(r) \in 1..(Len(q) + 1)
    /\ r[Len(r)] = m
    /\ \A j \in 1..(Len(r) - 1) : \E i \in DOMAIN q : r[j] = q[i] /\ ~Supersedes(m, q[i])
    /\ \A j1, j2 \in 1..(Len(r) - 1) : j1 < j2 =>
         \E i1, i2 \in DOMAIN q : i1 < i2 /\ r[j1] = q[i1] /\ r[j2] = q[i2]
    /\ \A i \in DOMAIN q : ~Supersedes(m, q[i]) => \E j \in DOMAIN r : r[j] = q[i]

(* What enqueue() makes of such a queue: a sequence that ends with the new *)
(* message, that holds old messages in their old order before it, none of  *)
(* which the new one supersedes.                                           *)
LEMMA EnqueueKeepsOrder ==
    ASSUME NEW q \in Seq(Messages), NEW m \in Messages,
           \A i, j \in DOMAIN q : i < j => ~Supersedes(q[j], q[i])
    PROVE  EnqueuedInOrder(q, m, Enqueue(q, m))
<1>1. CASE /\ Deduplicate(q, m) = q
           /\ \A i \in DOMAIN q : ~Supersedes(m, q[i])
  BY <1>1 DEF Enqueue, EnqueuedInOrder
<1>2. ASSUME NEW k \in DOMAIN q,
             Deduplicate(q, m) = RemoveAt(q, k),
             Supersedes(m, q[k]),
             \A i \in DOMAIN q : i # k => ~Supersedes(m, q[i])
      PROVE  EnqueuedInOrder(q, m, Enqueue(q, m))
  <2> DEFINE r == Append(RemoveAt(q, k), m)
  <2>1. /\ r \in Seq(Messages)
        /\ Len(r) = Len(q)
        /\ r[Len(r)] = m
        /\ \A j \in 1..(Len(q) - 1) : r[j] = IF j < k THEN q[j] ELSE q[j + 1]
    BY RemoveAtShifts
  <2> HIDE DEF r
  <2>2. k \in 1..Len(q)
    OBVIOUS
  <2>3. \A j \in 1..(Len(r) - 1) : \E i \in DOMAIN q : r[j] = q[i] /\ ~Supersedes(m, q[i])
    <3> TAKE j \in 1..(Len(r) - 1)
    <3>1. CASE j < k
      BY <1>2, <2>1, <2>2, <3>1, SMTT(30)
    <3>2. CASE j >= k
      <4>1. j + 1 \in DOMAIN q /\ j + 1 # k /\ r[j] = q[j + 1]
        BY <2>1, <2>2, <3>2, SMTT(30)
      <4> QED BY <1>2, <4>1, SMTT(30)
    <3> QED BY <2>2, <3>1, <3>2
  <2>4. ASSUME NEW j1 \in 1..(Len(r) - 1), NEW j2 \in 1..(Len(r) - 1), j1 < j2
        PROVE  \E i1, i2 \in DOMAIN q : i1 < i2 /\ r[j1] = q[i1] /\ r[j2] = q[i2]
    <3> DEFINE at(j) == IF j < k THEN j ELSE j + 1
    <3>1. at(j1) \in DOMAIN q /\ at(j2) \in DOMAIN q /\ at(j1) < at(j2)
      BY <2>1, <2>2, <2>4, SMTT(30)
    <3>2. r[j1] = q[at(j1)] /\ r[j2] = q[at(j2)]
      BY <2>1, <2>2, <2>4, SMTT(30)
    <3> QED BY <3>1, <3>2, SMTT(30)
  <2>5. ASSUME NEW i \in DOMAIN q, ~Supersedes(m, q[i])
        PROVE  \E j \in DOMAIN r : r[j] = q[i]
    <3>1. CASE i < k
      BY <2>1, <2>2, <3>1, SMTT(30)
    <3>2. CASE i > k
      <4>1. i - 1 \in DOMAIN r /\ r[i - 1] = q[i]
        BY <2>1, <2>2, <3>2, SMTT(30)
      <4> QED BY <4>1, SMTT(30)
    <3> QED BY <1>2, <2>2, <2>5, <3>1, <3>2, SMTT(30)
  <2>6. EnqueuedInOrder(q, m, r)
    BY <2>1, <2>2, <2>3, <2>4, <2>5, SMTT(30) DEF EnqueuedInOrder
  <2> QED BY <1>2, <2>6 DEF Enqueue, r
<1> QED BY <1>1, <1>2, DeduplicateRemovesTheOnlyMatch

----------------------------------------------------------------------------

(* The empty queue of a new session satisfies the inductive invariant.     *)
LEMMA InitIInv == Init => IInv
<1> SUFFICES ASSUME Init PROVE IInv
  OBVIOUS
<1>1. DOMAIN queue = {} /\ DOMAIN enqueued = {} /\ DOMAIN written = {}
  BY DEF Init
<1>2. TypeOK
  BY EmptySeq, ZenonT(30) DEF Init, TypeOK
<1> QED BY <1>1, <1>2, SMTT(30) DEF IInv, NoSupersededMessage, NewestSurvives, WidsAreBounded, OrderParts

(* enqueue() with its deduplicate() preserves the inductive invariant.     *)
LEMMA EnqueuePreservesIInv ==
    ASSUME IInv, NEW c \in Commands, NEW s \in Subjects, EnqueueSendMessage(c, s)
    PROVE  IInv'
<1> DEFINE m == [command |-> c, subject |-> s, wid |-> Len(enqueued) + 1]
<1> USE DEF IInv
<1>1. m \in Messages
  BY DEF Messages, TypeOK
<1>2. /\ queue' = Enqueue(queue, m)
      /\ enqueued' = Append(enqueued, m)
      /\ written' = written
      /\ terminate' = terminate
      /\ onFly' \in {onFly, Append(onFly, m.wid)}
  BY DEF EnqueueSendMessage
<1>3. EnqueuedInOrder(queue, m, queue')
  BY <1>1, <1>2, EnqueueKeepsOrder DEF TypeOK, NoSupersededMessage
<1>4. m.wid = Len(enqueued) + 1 /\ m.wid \in Nat
  BY DEF TypeOK
<1> HIDE DEF m
<1>5. TypeOK'
  <2>1. queue' \in Seq(Messages)
    BY <1>3, SMTT(30) DEF EnqueuedInOrder
  <2>2. enqueued' \in Seq(Messages)
    BY <1>1, <1>2, SMTT(30) DEF TypeOK
  <2>3. onFly' \in Seq(Nat)
    <3>1. onFly \in Seq(Nat) /\ Append(onFly, m.wid) \in Seq(Nat)
      BY <1>4 DEF TypeOK
    <3> QED BY <1>2, <3>1, ZenonT(30)
  <2> QED BY <1>2, <2>1, <2>2, <2>3 DEF TypeOK
<1>6. Len(enqueued') = Len(enqueued) + 1 /\ enqueued'[Len(enqueued) + 1] = m
      /\ \A i \in DOMAIN enqueued : enqueued'[i] = enqueued[i] /\ i \in DOMAIN enqueued'
  BY <1>1, <1>2 DEF TypeOK
<1>7. DOMAIN queue' = 1..Len(queue') /\ Len(queue') \in Nat
  BY <1>3 DEF EnqueuedInOrder
<1>8. NoSupersededMessage'
  <2> SUFFICES ASSUME NEW i \in DOMAIN queue', NEW j \in DOMAIN queue', i < j
               PROVE  ~Supersedes(queue'[j], queue'[i])
    BY DEF NoSupersededMessage
  <2>1. i \in 1..(Len(queue') - 1)
    BY <1>7
  <2>2. CASE j = Len(queue')
    BY <1>3, <2>1, <2>2 DEF EnqueuedInOrder
  <2>3. CASE j # Len(queue')
    <3>1. j \in 1..(Len(queue') - 1)
      BY <1>7, <2>3
    <3> QED BY <1>3, <2>1, <3>1, SMTT(60) DEF EnqueuedInOrder, NoSupersededMessage
  <2> QED BY <2>2, <2>3
<1>9. \A j \in DOMAIN queue' : queue'[j] = m \/ \E i \in DOMAIN queue : queue'[j] = queue[i]
  BY <1>3, <1>7 DEF EnqueuedInOrder
<1>10. /\ \A i \in DOMAIN queue : queue[i].wid \in Nat
       /\ \A i \in DOMAIN written : written[i].wid \in Nat
       /\ Len(enqueued) \in Nat
  <2>1. /\ \A i \in DOMAIN queue : queue[i] \in Messages
        /\ \A i \in DOMAIN written : written[i] \in Messages
    BY SMTT(30) DEF TypeOK
  <2> QED BY <2>1 DEF TypeOK, Messages
<1>11. WidsAreBounded'
  BY <1>2, <1>4, <1>6, <1>9, <1>10, SMTT(30) DEF WidsAreBounded
<1>12. OrderParts'
  <2>1. ASSUME NEW i \in DOMAIN queue', NEW j \in DOMAIN queue', i < j
        PROVE  queue'[i].wid < queue'[j].wid
    <3>1. i \in 1..(Len(queue') - 1)
      BY <1>7, <2>1, SMTT(30)
    <3>2. CASE j = Len(queue')
      <4>1. queue'[j] = m /\ \E n \in DOMAIN queue : queue'[i] = queue[n]
        BY <1>3, <3>1, <3>2, SMTT(60) DEF EnqueuedInOrder
      <4> QED BY <1>4, <1>10, <4>1, SMTT(30) DEF WidsAreBounded
    <3>3. CASE j # Len(queue')
      <4>1. j \in 1..(Len(queue') - 1)
        BY <1>7, <3>3, SMTT(30)
      <4> QED BY <1>3, <2>1, <3>1, <4>1 DEF EnqueuedInOrder, OrderParts
    <3> QED BY <3>2, <3>3, SMTT(30)
  <2>2. ASSUME NEW i \in DOMAIN written, NEW j \in DOMAIN queue'
        PROVE  written[i].wid < queue'[j].wid
    BY <1>4, <1>9, <1>10, SMTT(30) DEF WidsAreBounded, OrderParts
  <2> QED BY <1>2, <2>1, <2>2, SMTT(30) DEF OrderParts
<1>13. NewestSurvives'
  <2> SUFFICES ASSUME NEW i \in DOMAIN enqueued',
                      \A j \in DOMAIN enqueued' : i < j => ~Supersedes(enqueued'[j], enqueued'[i])
               PROVE  \/ \E k \in DOMAIN queue' : queue'[k] = enqueued'[i]
                      \/ \E k \in DOMAIN written : written[k] = enqueued'[i]
    BY <1>2, SMTT(30) DEF NewestSurvives
  <2>1. CASE i = Len(enqueued) + 1
    BY <1>3, <1>6, <1>7, <2>1, SMTT(30) DEF EnqueuedInOrder
  <2>2. CASE i \in DOMAIN enqueued
    <3>1. Len(enqueued) + 1 \in DOMAIN enqueued' /\ i < Len(enqueued) + 1
      BY <1>5, <1>6, <1>10, <2>2, SMTT(30) DEF TypeOK
    <3>2. ~Supersedes(m, enqueued[i])
      BY <1>6, <2>2, <3>1, SMTT(30)
    <3>3. \A j \in DOMAIN enqueued : i < j => ~Supersedes(enqueued[j], enqueued[i])
      BY <1>6, <2>2, SMTT(30)
    <3>4. \/ \E k \in DOMAIN queue : queue[k] = enqueued[i]
          \/ \E k \in DOMAIN written : written[k] = enqueued[i]
      BY <2>2, <3>3, SMTT(30) DEF NewestSurvives
    <3> QED BY <1>3, <1>6, <2>2, <3>2, <3>4, SMTT(30) DEF EnqueuedInOrder
  <2> QED BY <1>5, <1>6, <1>10, <2>1, <2>2, SMTT(30) DEF TypeOK
<1> QED BY <1>5, <1>8, <1>11, <1>12, <1>13

(* Writing the front message to the socket, dequeue(), preserves it.       *)
LEMMA WritePreservesIInv ==
    ASSUME IInv, NEW n \in 1..MaxMessages, WriteQueuedMessages(n)
    PROVE  IInv'
<1> USE DEF IInv
<1> DEFINE head == SubSeq(queue, 1, n)
           rest == SubSeq(queue, n + 1, Len(queue))
<1>1. /\ n \in 1..Len(queue)
      /\ written' = written \o head
      /\ queue' = rest
      /\ UNCHANGED <<terminate, onFly, enqueued>>
  BY SMTT(30) DEF WriteQueuedMessages
<1>2. /\ queue \in Seq(Messages) /\ written \in Seq(Messages)
      /\ Len(queue) \in Nat /\ Len(written) \in Nat /\ Len(enqueued) \in Nat
      /\ \A i \in 1..Len(queue) : queue[i] \in Messages /\ queue[i].wid \in Nat
      /\ \A i \in 1..Len(written) : written[i].wid \in Nat
      /\ DOMAIN queue = 1..Len(queue) /\ DOMAIN written = 1..Len(written)
  <2>1. /\ \A i \in 1..Len(queue) : queue[i] \in Messages
        /\ \A i \in 1..Len(written) : written[i] \in Messages
    BY SMTT(30) DEF TypeOK
  <2> QED BY <2>1, SMTT(60) DEF TypeOK, Messages
<1>3. head \in Seq(Messages) /\ Len(head) = n /\ \A i \in 1..n : head[i] = queue[i]
  <2>1. \A i \in 1..n : queue[i] \in Messages
    BY <1>1, <1>2, SMTT(30)
  <2> QED BY <1>1, <1>2, <2>1, SubSeqProperties, SMTT(30)
<1>4. /\ rest \in Seq(Messages) /\ Len(rest) = Len(queue) - n
      /\ \A i \in 1..(Len(queue) - n) : rest[i] = queue[n + i]
  <2>1. \A i \in (n + 1)..Len(queue) : queue[i] \in Messages
    BY <1>1, <1>2, SMTT(30)
  <2>2. /\ rest \in Seq(Messages)
        /\ Len(rest) = IF n + 1 <= Len(queue) THEN Len(queue) - (n + 1) + 1 ELSE 0
        /\ \A i \in 1..(Len(queue) - (n + 1) + 1) : rest[i] = queue[(n + 1) + i - 1]
    BY <1>1, <1>2, <2>1, SubSeqProperties, SMTT(30)
  <2> HIDE DEF rest
  <2>3. n \in Nat /\ Len(queue) \in Nat /\ n <= Len(queue)
    BY <1>1, <1>2, SMTT(30)
  <2>4. Len(queue) - (n + 1) + 1 = Len(queue) - n
    BY <2>3, SMTT(30)
  <2>5. Len(rest) = Len(queue) - n
    <3>1. CASE n + 1 <= Len(queue)
      BY <2>2, <2>3, <2>4, <3>1, SMTT(30)
    <3>2. CASE ~(n + 1 <= Len(queue))
      BY <2>2, <2>3, <3>2, SMTT(30)
    <3> QED BY <3>1, <3>2, SMTT(30)
  <2>6. ASSUME NEW i \in 1..(Len(queue) - n) PROVE rest[i] = queue[n + i]
    <3>1. i \in Int /\ (n + 1) + i - 1 = n + i
      BY <2>3, SMTT(30)
    <3> QED BY <2>2, <2>4, <3>1, ZenonT(30)
  <2> QED BY <2>2, <2>5, <2>6, SMTT(30)
<1> HIDE DEF head, rest
<1>5. /\ written' \in Seq(Messages) /\ Len(written') = Len(written) + n
      /\ \A i \in 1..(Len(written) + n) :
           written'[i] = IF i <= Len(written) THEN written[i] ELSE queue[i - Len(written)]
  <2>1. /\ written \o head \in Seq(Messages) /\ Len(written \o head) = Len(written) + Len(head)
        /\ \A i \in 1..(Len(written) + Len(head)) :
             (written \o head)[i] = IF i <= Len(written) THEN written[i] ELSE head[i - Len(written)]
    BY <1>2, <1>3, ConcatProperties, ZenonT(30)
  <2>2. \A i \in 1..(Len(written) + n) : ~(i <= Len(written)) => i - Len(written) \in 1..n
    BY <1>1, <1>2
  <2> QED BY <1>1, <1>3, <2>1, <2>2, SMTT(30)
<1>6. TypeOK'
  BY <1>1, <1>4, <1>5 DEF TypeOK
<1>7. DOMAIN queue' = 1..(Len(queue) - n) /\ DOMAIN written' = 1..(Len(written) + n)
  BY <1>1, <1>4, <1>5
<1>8. \A i \in DOMAIN queue' : queue'[i] = queue[n + i] /\ n + i \in DOMAIN queue
  BY <1>1, <1>2, <1>4, <1>7, SMTT(30)
<1>9. NoSupersededMessage'
  <2> SUFFICES ASSUME NEW i \in DOMAIN queue', NEW j \in DOMAIN queue', i < j
               PROVE  ~Supersedes(queue'[j], queue'[i])
    BY SMTT(30) DEF NoSupersededMessage
  <2>1. n + i < n + j
    BY <1>1, <1>2, <1>7, SMTT(30)
  <2> QED BY <1>8, <2>1, SMTT(30) DEF NoSupersededMessage
<1>10. \A i \in DOMAIN written' :
         \/ i \in DOMAIN written /\ written'[i] = written[i]
         \/ i - Len(written) \in 1..n /\ written'[i] = queue[i - Len(written)] /\ ~(i <= Len(written))
  BY <1>1, <1>2, <1>5, <1>7, SMTT(60)
<1>11. WidsAreBounded'
  BY <1>1, <1>2, <1>8, <1>10, SMTT(60) DEF WidsAreBounded
<1>12. OrderParts'
  <2>1. ASSUME NEW i \in DOMAIN queue', NEW j \in DOMAIN queue', i < j
        PROVE  queue'[i].wid < queue'[j].wid
    <3>1. n + i < n + j
      BY <1>1, <1>2, <1>7, <2>1, SMTT(30)
    <3> QED BY <1>8, <3>1, SMTT(30) DEF OrderParts
  <2>2. ASSUME NEW i \in DOMAIN written', NEW j \in DOMAIN written', i < j
        PROVE  written'[i].wid < written'[j].wid
    <3>1. i \in Nat /\ j \in Nat
      BY <1>1, <1>2, <1>7, SMTT(30)
    <3>2. CASE j \in DOMAIN written /\ written'[j] = written[j]
      <4>1. i \in DOMAIN written /\ written'[i] = written[i]
        BY <1>2, <1>10, <2>2, <3>1, <3>2, SMTT(30)
      <4> QED BY <2>2, <3>2, <4>1, SMTT(30) DEF OrderParts
    <3>3. CASE j - Len(written) \in 1..n /\ written'[j] = queue[j - Len(written)]
      <4>1. j - Len(written) \in DOMAIN queue
        BY <1>1, <1>2, <3>3, SMTT(30)
      <4>2. CASE i \in DOMAIN written /\ written'[i] = written[i]
        BY <3>3, <4>1, <4>2, Zenon DEF OrderParts
      <4>3. CASE i - Len(written) \in 1..n /\ written'[i] = queue[i - Len(written)]
        <5>1. i - Len(written) \in DOMAIN queue /\ i - Len(written) < j - Len(written)
          BY <1>1, <1>2, <2>2, <3>1, <4>3, SMTT(30)
        <5> QED BY <3>3, <4>1, <4>3, <5>1, SMTT(30) DEF OrderParts
      <4> QED BY <1>10, <4>2, <4>3, SMTT(30)
    <3> QED BY <1>10, <3>2, <3>3, SMTT(30)
  <2>3. ASSUME NEW i \in DOMAIN written', NEW j \in DOMAIN queue'
        PROVE  written'[i].wid < queue'[j].wid
    <3>1. CASE i \in DOMAIN written /\ written'[i] = written[i]
      BY <1>8, <3>1, SMTT(30) DEF OrderParts
    <3>2. CASE i - Len(written) \in 1..n /\ written'[i] = queue[i - Len(written)]
      <4>1. i - Len(written) \in DOMAIN queue /\ i - Len(written) < n + j
        BY <1>1, <1>2, <1>7, <3>2, SMTT(60)
      <4> QED BY <1>8, <3>2, <4>1, SMTT(30) DEF OrderParts
    <3> QED BY <1>10, <3>1, <3>2, SMTT(30)
  <2> QED BY <2>1, <2>2, <2>3, SMTT(30) DEF OrderParts
<1>13. NewestSurvives'
  <2>1. ASSUME NEW k \in DOMAIN queue
        PROVE  \/ \E l \in DOMAIN queue' : queue'[l] = queue[k]
               \/ \E l \in DOMAIN written' : written'[l] = queue[k]
    <3>1. CASE k <= n
      <4>1. /\ Len(written) + k \in 1..(Len(written) + n)
            /\ ~(Len(written) + k <= Len(written))
            /\ (Len(written) + k) - Len(written) = k
        BY <1>1, <1>2, <3>1, SMTT(30)
      <4> QED BY <1>5, <1>7, <4>1, SMTT(30)
    <3>2. CASE k > n
      <4>1. k - n \in 1..(Len(queue) - n) /\ n + (k - n) = k
        BY <1>1, <1>2, <3>2, SMTT(30)
      <4> QED BY <1>1, <1>4, <1>7, <4>1, SMTT(30)
    <3> QED BY <1>1, <1>2, <3>1, <3>2, SMTT(30)
  <2>2. ASSUME NEW k \in DOMAIN written
        PROVE  k \in DOMAIN written' /\ written'[k] = written[k]
    BY <1>1, <1>2, <1>5, <1>7, SMTT(30)
  <2>3. enqueued' = enqueued
    BY <1>1, SMTT(30)
  <2>4. SUFFICES ASSUME NEW i \in DOMAIN enqueued,
                        \A j \in DOMAIN enqueued : i < j => ~Supersedes(enqueued[j], enqueued[i])
                 PROVE  \/ \E k \in DOMAIN queue' : queue'[k] = enqueued[i]
                        \/ \E k \in DOMAIN written' : written'[k] = enqueued[i]
    BY <2>3, SMTT(30) DEF NewestSurvives
  <2>5. \/ \E k \in DOMAIN queue : queue[k] = enqueued[i]
        \/ \E k \in DOMAIN written : written[k] = enqueued[i]
    BY <2>4, SMTT(30) DEF NewestSurvives
  <2> QED BY <2>1, <2>2, <2>5, SMTT(30)
<1> QED BY <1>6, <1>9, <1>11, <1>12, <1>13, SMTT(30)

(* The actions that touch neither the queue nor the histories.             *)
LEMMA OthersPreserveIInv ==
    ASSUME IInv, UNCHANGED <<queue, enqueued, written>>, terminate' \in BOOLEAN, onFly' \in Seq(Nat)
    PROVE  IInv'
BY SMTT(30) DEF IInv, TypeOK, NoSupersededMessage, NewestSurvives, WidsAreBounded, OrderParts

(* Every step of the session preserves the inductive invariant.            *)
LEMMA NextPreservesIInv == IInv /\ [Next]_vars => IInv'
<1> SUFFICES ASSUME IInv, [Next]_vars PROVE IInv'
  OBVIOUS
<1>1. ASSUME NEW c \in Commands, NEW s \in Subjects, EnqueueSendMessage(c, s) PROVE IInv'
  BY <1>1, EnqueuePreservesIInv, SMTT(30)
<1>2. ASSUME NEW n \in 1..MaxMessages, WriteQueuedMessages(n) PROVE IInv'
  BY <1>2, WritePreservesIInv, SMTT(30)
<1>3. onFly \in Seq(Nat) /\ terminate \in BOOLEAN
  BY SMTT(30) DEF IInv, TypeOK
<1>4. ASSUME NEW w \in 1..MaxMessages, OnTileProcessed(w) PROVE IInv'
  <2>1. PICK i \in DOMAIN onFly : onFly' = RemoveAt(onFly, i)
    BY <1>4, SMTT(30) DEF OnTileProcessed
  <2>2. onFly' \in Seq(Nat)
    BY <1>3, <2>1, RemoveAtShifts, SMTT(30)
  <2> QED BY <1>3, <1>4, <2>2, OthersPreserveIInv, SMTT(30) DEF OnTileProcessed
<1>5. ASSUME NEW n \in 1..MaxMessages, RemoveOutdatedTilesOnFly(n) PROVE IInv'
  <2>1. n + 1 \in Int /\ Len(onFly) \in Int /\ \A i \in (n + 1)..Len(onFly) : onFly[i] \in Nat
    BY <1>3, MaxMessagesIsNat, SMTT(30)
  <2>2. onFly' \in Seq(Nat)
    BY <1>5, <2>1, SubSeqProperties, SMTT(30) DEF RemoveOutdatedTilesOnFly
  <2> QED BY <1>3, <1>5, <2>2, OthersPreserveIInv, SMTT(30) DEF RemoveOutdatedTilesOnFly
<1>6. CASE SetTerminationFlag
  BY <1>3, <1>6, OthersPreserveIInv, SMTT(30) DEF SetTerminationFlag
<1>7. CASE UNCHANGED vars
  BY <1>3, <1>7, OthersPreserveIInv, SMTT(30) DEF vars
<1> QED BY <1>1, <1>2, <1>4, <1>5, <1>6, <1>7, SMTT(30) DEF Next

(* The parts of the order that the invariant keeps make up InOrder: what   *)
(* was written and what is queued are in the order of their enqueueing.    *)
LEMMA OrderPartsImplyInOrder == IInv => InOrder
<1> SUFFICES ASSUME IInv,
                    NEW i \in DOMAIN (written \o queue), NEW j \in DOMAIN (written \o queue), i < j
             PROVE  (written \o queue)[i].wid < (written \o queue)[j].wid
  BY SMTT(30) DEF InOrder
<1> DEFINE out == written \o queue
           n   == Len(written)
<1>1. /\ out \in Seq(Messages) /\ Len(out) = n + Len(queue)
      /\ \A k \in 1..(n + Len(queue)) : out[k] = IF k <= n THEN written[k] ELSE queue[k - n]
      /\ n \in Nat /\ Len(queue) \in Nat
      /\ DOMAIN written = 1..n /\ DOMAIN queue = 1..Len(queue)
  BY ConcatProperties, SMTT(30) DEF IInv, TypeOK
<1> HIDE DEF out, n
<1>2. i \in 1..(n + Len(queue)) /\ j \in 1..(n + Len(queue))
  BY <1>1, SMTT(30) DEF out
<1>3. CASE j <= n
  BY <1>1, <1>2, <1>3, SMTT(30) DEF IInv, OrderParts, out
<1>4. CASE i <= n /\ j > n
  <2>1. j - n \in DOMAIN queue /\ i \in DOMAIN written /\ out[i] = written[i] /\ out[j] = queue[j - n]
    BY <1>1, <1>2, <1>4, SMTT(30)
  <2> QED BY <2>1, SMTT(30) DEF IInv, OrderParts, out
<1>5. CASE i > n
  <2>1. /\ i - n \in DOMAIN queue /\ j - n \in DOMAIN queue /\ i - n < j - n
        /\ out[i] = queue[i - n] /\ out[j] = queue[j - n]
    BY <1>1, <1>2, <1>5, SMTT(30)
  <2> QED BY <2>1, SMTT(30) DEF IInv, OrderParts, out
<1> QED BY <1>1, <1>2, <1>3, <1>4, <1>5, SMTT(30)

LEMMA Invariance == Spec => []IInv
BY InitIInv, NextPreservesIInv, PTL DEF Spec

(* SenderQueue.hpp: at any moment the queue holds no message that a later  *)
(* queued one supersedes.                                                  *)
THEOREM NothingSuperseded == Spec => []NoSupersededMessage
<1>1. IInv => NoSupersededMessage
  BY SMTT(30) DEF IInv
<1> QED BY <1>1, Invariance, PTL

(* Deduplication loses nothing that no later message supersedes.           *)
THEOREM NothingElseLost == Spec => []NewestSurvives
<1>1. IInv => NewestSurvives
  BY SMTT(30) DEF IInv
<1> QED BY <1>1, Invariance, PTL

(* The client is sent its messages in the order of their enqueueing.       *)
THEOREM SentInOrder == Spec => []InOrder
BY OrderPartsImplyInOrder, Invariance, PTL
============================================================================
