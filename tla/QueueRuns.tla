----------------------------- MODULE QueueRuns -----------------------------
(***************************************************************************)
(* What a queue of messages makes of something, one message after another, *)
(* and what it makes of it once a message was added, taken, removed or     *)
(* moved to the end: the theory that the proofs about KitQueue rest on.    *)
(***************************************************************************)
EXTENDS Integers, Queues, SequenceTheorems, WellFoundedInduction, TLAPS

----------------------------------------------------------------------------
(* Induction, as the existence of a least counterexample.                  *)
LEMMA Least ==
    ASSUME NEW T \in SUBSET Nat, T # {}
    PROVE  \E m \in T : \A k \in T : m <= k
<1> DEFINE R == OpToRel(<, Nat)
<1>1. IsWellFoundedOn(R, Nat)
  BY NatLessThanWellFounded
<1>2. \A x, y \in Nat : (y < x) => <<y, x>> \in R
  <2> TAKE x, y \in Nat
  <2> HAVE y < x
  <2> QED
    BY DEF OpToRel
<1> HIDE DEF R
<1>3. PICK x \in T : \A y \in T : ~(<<y, x>> \in R)
  BY Zenon, <1>1, WFMin
<1>4. ASSUME NEW k \in T
      PROVE  x <= k
  <2>1. ~(k < x)
    BY Zenon, <1>2, <1>3
  <2> QED
    BY <2>1
<1> QED
  BY <1>4

----------------------------------------------------------------------------
(* What a queue makes of something, step by step.  The step is a function  *)
(* here; below, it is each of the operators that KitQueue's properties     *)
(* apply.                                                                  *)
IsRun(f, step, base, q) ==
    /\ f[0] = base
    /\ \A i \in DOMAIN q : f[i] = step[<<f[i - 1], q[i]>>]

(* The types of a step, of what it starts from and of a queue.             *)
IsStep(S, M, step, base, q) == step \in [S \X M -> S] /\ base \in S /\ q \in Seq(M)

(* Every queue has a run.                                                  *)
LEMMA RunExists ==
    ASSUME NEW S, NEW M, NEW step, NEW base, NEW q, IsStep(S, M, step, base, q)
    PROVE  \E f \in [0..Len(q) -> S] : IsRun(f, step, base, q)
<1> step \in [S \X M -> S] /\ base \in S /\ q \in Seq(M)
  BY DEF IsStep
<1> DEFINE Upto(f, n) == f[0] = base /\ \A i \in 1..n : f[i] = step[<<f[i - 1], q[i]>>]
           T == {n \in 0..Len(q) : ~\E f \in [0..n -> S] : Upto(f, n)}
<1>1. T = {}
  <2> SUFFICES ASSUME T # {} PROVE FALSE
    OBVIOUS
  <2>0. T \in SUBSET Nat
    OBVIOUS
  <2>1. PICK n \in T : \A k \in T : n <= k
    <3> HIDE DEF T
    <3> QED
      BY <2>0, Least
  <2>2. n # 0
    <3>1. Upto([i \in 0..0 |-> base], 0) /\ [i \in 0..0 |-> base] \in [0..0 -> S]
      OBVIOUS
    <3> QED
      BY Zenon, <3>1
  <2>3. n - 1 \in 0..Len(q) /\ n - 1 \notin T
    <3>1. n \in 0..Len(q) /\ Len(q) \in Nat
      BY <2>1
    <3> HIDE DEF T
    <3> QED
      BY <2>1, <2>2, <3>1
  <2>4. PICK f \in [0..(n - 1) -> S] : Upto(f, n - 1)
    BY <2>3
  <2> DEFINE g == [i \in 0..n |-> IF i = n THEN step[<<f[n - 1], q[n]>>] ELSE f[i]]
  <2>5. f[n - 1] \in S /\ q[n] \in M /\ n \in Nat
    BY <2>1, <2>2
  <2>6. g \in [0..n -> S]
    BY <2>5
  <2>7. Upto(g, n)
    <3>1. g[0] = base
      BY <2>2, <2>4, <2>5
    <3>2. ASSUME NEW i \in 1..n
          PROVE  g[i] = step[<<g[i - 1], q[i]>>]
      <4>1. i - 1 \in 0..(n - 1) /\ g[i - 1] = f[i - 1]
        BY <2>5
      <4>2. CASE i = n
        <5>1. n \in 0..n /\ g[n] = step[<<f[n - 1], q[n]>>]
          BY <2>5
        <5> QED
          BY Zenon, <4>1, <4>2, <5>1
      <4>3. CASE i # n
        <5>1. i \in 1..(n - 1) /\ g[i] = f[i]
          BY <2>5, <4>3
        <5>2. f[i] = step[<<f[i - 1], q[i]>>]
          BY <2>4, <5>1
        <5> QED
          BY Zenon, <4>1, <5>1, <5>2
      <4> QED
        BY <4>2, <4>3
    <3> QED
      BY Zenon, <3>1, <3>2
  <2> QED
    BY Zenon, <2>1, <2>6, <2>7
<1>2. \E f \in [0..Len(q) -> S] : Upto(f, Len(q))
  <2>1. Len(q) \in 0..Len(q)
    OBVIOUS
  <2> HIDE DEF Upto
  <2> QED
    BY Zenon, <1>1, <2>1
<1> QED
  BY <1>2, SMTT(60) DEF IsRun

(* It has only one, and that is what the recursive definition is.          *)
LEMMA RunUnique ==
    ASSUME NEW step, NEW base, NEW q, Len(q) \in Nat, DOMAIN q = 1..Len(q),
           NEW f, NEW g, IsRun(f, step, base, q), IsRun(g, step, base, q)
    PROVE  \A n \in 0..Len(q) : f[n] = g[n]
<1> DEFINE T == {n \in 0..Len(q) : f[n] # g[n]}
<1> SUFFICES ASSUME T # {} PROVE FALSE
  OBVIOUS
<1>1. T \in SUBSET Nat
  OBVIOUS
<1>2. PICK n \in T : \A k \in T : n <= k
  <2> HIDE DEF T
  <2> QED
    BY <1>1, Least
<1>3. n # 0
  BY <1>2 DEF IsRun
<1>4. n \in DOMAIN q /\ n - 1 \in 0..Len(q) /\ f[n - 1] = g[n - 1]
  BY <1>2, <1>3
<1>5. f[n] = g[n]
  BY Zenon, <1>4 DEF IsRun
<1> QED
  BY <1>2, <1>5

(* The recursive definition.                                               *)
Runs(step, base, q) ==
    LET f[i \in 0..Len(q)] == IF i = 0 THEN base ELSE step[<<f[i - 1], q[i]>>]
    IN  f[Len(q)]

(* It gives the last value of any run.                                     *)
LEMMA RunsIs ==
    ASSUME NEW S, NEW M, NEW step, NEW base, NEW q, IsStep(S, M, step, base, q),
           NEW f, IsRun(f, step, base, q)
    PROVE  Runs(step, base, q) = f[Len(q)]
<1> step \in [S \X M -> S] /\ base \in S /\ q \in Seq(M)
  BY DEF IsStep
<1> DEFINE Def(g) == g = [i \in 0..Len(q) |-> IF i = 0 THEN base ELSE step[<<g[i - 1], q[i]>>]]
           h == CHOOSE g : Def(g)
<1>1. PICK g \in [0..Len(q) -> S] : IsRun(g, step, base, q)
  BY RunExists
<1>2. Def(g)
  <2>1. \A i \in 0..Len(q) : g[i] = IF i = 0 THEN base ELSE step[<<g[i - 1], q[i]>>]
    <3>1. \A i \in 0..Len(q) : i # 0 => i \in DOMAIN q
      OBVIOUS
    <3> QED
      BY Zenon, <1>1, <3>1 DEF IsRun
  <2> QED
    BY <1>1, <2>1
<1>3. Def(h)
  <2> HIDE DEF Def
  <2> QED
    BY <1>2
<1>4. IsRun(h, step, base, q)
  <2> HIDE DEF h
  <2>1. \A i \in 0..Len(q) : h[i] = IF i = 0 THEN base ELSE step[<<h[i - 1], q[i]>>]
    BY <1>3, SMTT(60)
  <2>2. 0 \in 0..Len(q) /\ \A i \in DOMAIN q : i \in 0..Len(q) /\ i # 0
    OBVIOUS
  <2> HIDE DEF Def
  <2> QED
    BY Zenon, <2>1, <2>2 DEF IsRun
<1>5. h[Len(q)] = f[Len(q)]
  <2> HIDE DEF h
  <2>1. Len(q) \in Nat /\ DOMAIN q = 1..Len(q)
    OBVIOUS
  <2> QED
    BY <1>4, <2>1, RunUnique
<1> QED
  BY <1>5 DEF Runs

(* A message taken out of the queue.                                       *)
LEMMA Removing ==
    ASSUME NEW M, NEW q \in Seq(M), NEW i \in DOMAIN q
    PROVE  /\ RemoveAt(q, i) \in Seq(M)
           /\ Len(RemoveAt(q, i)) = Len(q) - 1
           /\ \A j \in 1..(Len(q) - 1) :
                  RemoveAt(q, i)[j] = IF j < i THEN q[j] ELSE q[j + 1]
<1> DEFINE a == SubSeq(q, 1, i - 1)
           b == SubSeq(q, i + 1, Len(q))
<1>1. a \in Seq(M) /\ Len(a) = i - 1 /\ \A j \in 1..(i - 1) : a[j] = q[j]
  OBVIOUS
<1>2. b \in Seq(M) /\ Len(b) = Len(q) - i /\ \A j \in 1..(Len(q) - i) : b[j] = q[i + j]
  OBVIOUS
<1>3. i \in 1..Len(q) /\ Len(q) \in Nat
  OBVIOUS
<1>4. RemoveAt(q, i) = a \o b
  BY DEF RemoveAt
<1> HIDE DEF a, b
<1>5. /\ a \o b \in Seq(M) /\ Len(a \o b) = Len(q) - 1
      /\ \A j \in 1..(Len(q) - 1) : (a \o b)[j] = IF j < i THEN a[j] ELSE b[j - (i - 1)]
  <2>1. /\ a \o b \in Seq(M) /\ Len(a \o b) = Len(a) + Len(b)
        /\ \A j \in 1..(Len(a) + Len(b)) :
               (a \o b)[j] = IF j <= Len(a) THEN a[j] ELSE b[j - Len(a)]
    BY Zenon, <1>1, <1>2, ConcatProperties
  <2>2. Len(a) + Len(b) = Len(q) - 1 /\ \A j \in Int : j <= Len(a) <=> j < i
    BY <1>1, <1>2, <1>3
  <2> QED
    BY <1>1, <2>1, <2>2, SMTT(60)
<1>6. ASSUME NEW j \in 1..(Len(q) - 1)
      PROVE  (a \o b)[j] = IF j < i THEN q[j] ELSE q[j + 1]
  <2>1. CASE j < i
    BY <1>1, <1>5, <2>1
  <2>2. CASE ~(j < i)
    <3>1. j - (i - 1) \in 1..(Len(q) - i) /\ i + (j - (i - 1)) = j + 1
      BY <1>3, <2>2
    <3>2. b[j - (i - 1)] = q[j + 1]
      BY <1>2, <3>1
    <3> QED
      BY <1>5, <2>2, <3>2
  <2> QED
    BY Zenon, <2>1, <2>2
<1> QED
  BY <1>4, <1>5, <1>6

(* What a run makes of a queue is of its type.                             *)
LEMMA RunsTyped ==
    ASSUME NEW S, NEW M, NEW step, NEW base, NEW q, IsStep(S, M, step, base, q)
    PROVE  Runs(step, base, q) \in S
<1> step \in [S \X M -> S] /\ base \in S /\ q \in Seq(M)
  BY DEF IsStep
<1>1. PICK f \in [0..Len(q) -> S] : IsRun(f, step, base, q)
  BY RunExists
<1>2. Runs(step, base, q) = f[Len(q)]
  BY <1>1, RunsIs
<1> QED
  BY <1>2

(* No message.                                                             *)
LEMMA RunsEmpty ==
    ASSUME NEW S, NEW M, NEW step, NEW base, IsStep(S, M, step, base, <<>>)
    PROVE  Runs(step, base, <<>>) = base
<1>1. PICK f \in [0..Len(<<>>) -> S] : IsRun(f, step, base, <<>>)
  BY RunExists
<1>2. Runs(step, base, <<>>) = f[Len(<<>>)]
  BY <1>1, RunsIs
<1> QED
  BY <1>1, <1>2 DEF IsRun

(* One message more.                                                       *)
LEMMA RunsAppend ==
    ASSUME NEW S, NEW M, NEW step, NEW base, NEW q, IsStep(S, M, step, base, q),
           NEW m \in M
    PROVE  Runs(step, base, Append(q, m)) = step[<<Runs(step, base, q), m>>]
<1> step \in [S \X M -> S] /\ base \in S /\ q \in Seq(M)
  BY DEF IsStep
<1> DEFINE r == Append(q, m)
<1>0. IsStep(S, M, step, base, r)
  BY DEF IsStep
<1>1. PICK f \in [0..Len(r) -> S] : IsRun(f, step, base, r)
  <2> HIDE DEF r
  <2> QED
    BY <1>0, RunExists
<1>2. Runs(step, base, r) = f[Len(r)]
  <2> HIDE DEF r
  <2> QED
    BY <1>0, <1>1, RunsIs
<1>3. IsRun(f, step, base, q)
  <2>1. \A i \in DOMAIN q : i \in DOMAIN r /\ r[i] = q[i]
    OBVIOUS
  <2> HIDE DEF r
  <2> QED
    BY <1>1, <2>1 DEF IsRun
<1>4. Runs(step, base, q) = f[Len(q)]
  BY <1>3, RunsIs
<1>5. Len(r) \in DOMAIN r /\ Len(r) - 1 = Len(q) /\ r[Len(r)] = m
  OBVIOUS
<1> HIDE DEF r
<1>6. f[Len(r)] = step[<<f[Len(q)], m>>]
  BY <1>1, <1>5, SMTT(60) DEF IsRun
<1> QED
  BY <1>2, <1>4, <1>6 DEF r

(* The first message is taken.                                             *)
LEMMA RunsTail ==
    ASSUME NEW S, NEW M, NEW step, NEW base, NEW q, IsStep(S, M, step, base, q),
           q # <<>>
    PROVE  Runs(step, base, q) = Runs(step, step[<<base, Head(q)>>], Tail(q))
<1> step \in [S \X M -> S] /\ base \in S /\ q \in Seq(M)
  BY DEF IsStep
<1> DEFINE t == Tail(q)
<1>1. PICK f \in [0..Len(q) -> S] : IsRun(f, step, base, q)
  BY RunExists
<1>2. Runs(step, base, q) = f[Len(q)]
  BY <1>1, RunsIs
<1>3. /\ t \in Seq(M) /\ Len(t) = Len(q) - 1 /\ Len(t) \in Nat
      /\ \A i \in DOMAIN t : i \in 1..Len(t) /\ i + 1 \in DOMAIN q /\ t[i] = q[i + 1]
      /\ 1 \in DOMAIN q /\ Head(q) = q[1] /\ Head(q) \in M
  OBVIOUS
<1> HIDE DEF t
<1> DEFINE g == [i \in 0..Len(t) |-> f[i + 1]]
           second == step[<<base, Head(q)>>]
<1>4. IsStep(S, M, step, second, t)
  BY <1>3 DEF IsStep
<1>5. g[0] = second
  BY <1>1, <1>3 DEF IsRun
<1>6. ASSUME NEW i \in DOMAIN t
      PROVE  g[i] = step[<<g[i - 1], t[i]>>]
  <2>1. i + 1 \in DOMAIN q /\ t[i] = q[i + 1] /\ (i + 1) - 1 = i
    BY <1>3
  <2>2. f[i + 1] = step[<<f[i], q[i + 1]>>]
    BY <1>1, <2>1 DEF IsRun
  <2>3. g[i] = f[i + 1] /\ g[i - 1] = f[i]
    BY <1>3
  <2> QED
    BY Zenon, <2>1, <2>2, <2>3
<1>7. IsRun(g, step, second, t)
  BY Zenon, <1>5, <1>6 DEF IsRun
<1>8. g[Len(t)] = f[Len(q)]
  BY <1>3
<1> HIDE DEF g, second
<1>9. Runs(step, second, t) = g[Len(t)]
  BY <1>4, <1>7, RunsIs
<1> QED
  BY <1>2, <1>8, <1>9 DEF second, t

(* A message that changes nothing is removed.                              *)
LEMMA RunsSkip ==
    ASSUME NEW S, NEW M, NEW step, NEW base, NEW q, IsStep(S, M, step, base, q),
           NEW i \in DOMAIN q, \A x \in S : step[<<x, q[i]>>] = x
    PROVE  Runs(step, base, RemoveAt(q, i)) = Runs(step, base, q)
<1> step \in [S \X M -> S] /\ base \in S /\ q \in Seq(M)
  BY DEF IsStep
<1> DEFINE r == RemoveAt(q, i)
<1>1. PICK f \in [0..Len(q) -> S] : IsRun(f, step, base, q)
  BY RunExists
<1>2. Runs(step, base, q) = f[Len(q)]
  BY <1>1, RunsIs
<1>3. /\ r \in Seq(M) /\ Len(r) = Len(q) - 1
      /\ \A j \in 1..(Len(q) - 1) : r[j] = IF j < i THEN q[j] ELSE q[j + 1]
  BY Removing
<1> HIDE DEF r
<1>4. /\ Len(q) \in Nat /\ i \in 1..Len(q) /\ DOMAIN q = 1..Len(q)
      /\ DOMAIN r = 1..(Len(q) - 1)
  BY <1>3
<1>5. f[i] = f[i - 1]
  <2>1. f[i - 1] \in S
    BY <1>4
  <2> QED
    BY Zenon, <1>1, <2>1 DEF IsRun
<1> DEFINE g == [j \in 0..Len(r) |-> IF j < i THEN f[j] ELSE f[j + 1]]
<1>6. g[0] = base
  BY <1>1, <1>3, <1>4 DEF IsRun
<1>7. ASSUME NEW j \in DOMAIN r
      PROVE  g[j] = step[<<g[j - 1], r[j]>>]
  <2>1. CASE j < i
    <3>1. j \in DOMAIN q /\ r[j] = q[j] /\ g[j] = f[j] /\ g[j - 1] = f[j - 1]
      BY <1>3, <1>4, <2>1
    <3> QED
      BY <1>1, <3>1 DEF IsRun
  <2>2. CASE j >= i
    <3>1. j + 1 \in DOMAIN q /\ r[j] = q[j + 1] /\ g[j] = f[j + 1] /\ (j + 1) - 1 = j
      BY <1>3, <1>4, <2>2
    <3>2. g[j - 1] = f[j]
      BY <1>3, <1>4, <1>5, <2>2
    <3>3. f[j + 1] = step[<<f[j], q[j + 1]>>]
      BY <1>1, <3>1 DEF IsRun
    <3> QED
      BY Zenon, <3>1, <3>2, <3>3
  <2> QED
    BY <1>4, <2>1, <2>2
<1>8. IsRun(g, step, base, r)
  BY Zenon, <1>6, <1>7 DEF IsRun
<1>9. g[Len(r)] = f[Len(q)]
  BY <1>3, <1>4, <1>5
<1> HIDE DEF g
<1>10. Runs(step, base, r) = g[Len(r)]
  <2>1. IsStep(S, M, step, base, r)
    BY <1>3 DEF IsStep
  <2> QED
    BY <1>8, <2>1, RunsIs
<1> QED
  BY <1>2, <1>9, <1>10 DEF r

(* The last message that changes anything may as well be done last.        *)
LEMMA RunsMove ==
    ASSUME NEW S, NEW M, NEW step, NEW base, NEW q, IsStep(S, M, step, base, q),
           NEW i \in DOMAIN q,
           \A j \in DOMAIN q : j > i => \A x \in S : step[<<x, q[j]>>] = x
    PROVE  Runs(step, base, q) = step[<<Runs(step, base, RemoveAt(q, i)), q[i]>>]
<1> step \in [S \X M -> S] /\ base \in S /\ q \in Seq(M)
  BY DEF IsStep
<1> DEFINE r == RemoveAt(q, i)
<1>1. PICK f \in [0..Len(q) -> S] : IsRun(f, step, base, q)
  BY RunExists
<1>3. /\ r \in Seq(M) /\ Len(r) = Len(q) - 1
      /\ \A j \in 1..(Len(q) - 1) : r[j] = IF j < i THEN q[j] ELSE q[j + 1]
  BY Removing
<1> HIDE DEF r
<1>4. /\ Len(q) \in Nat /\ i \in 1..Len(q) /\ DOMAIN q = 1..Len(q)
      /\ DOMAIN r = 1..(Len(q) - 1) /\ f[i - 1] \in S /\ q[i] \in M /\ f[i] \in S
  BY <1>3
<1> DEFINE g == [j \in 0..Len(r) |-> IF j < i THEN f[j] ELSE f[i - 1]]
           h == [j \in 0..Len(q) |-> IF j < i THEN f[j] ELSE f[i]]
<1>5. IsRun(g, step, base, r)
  <2>1. g[0] = base
    BY <1>1, <1>3, <1>4 DEF IsRun
  <2>2. ASSUME NEW j \in DOMAIN r
        PROVE  g[j] = step[<<g[j - 1], r[j]>>]
    <3>1. CASE j < i
      <4>1. j \in DOMAIN q /\ r[j] = q[j] /\ g[j] = f[j] /\ g[j - 1] = f[j - 1]
        BY <1>3, <1>4, <3>1
      <4> QED
        BY <1>1, <4>1 DEF IsRun
    <3>2. CASE j >= i
      <4>1. j + 1 \in DOMAIN q /\ j + 1 > i /\ r[j] = q[j + 1] /\ g[j] = f[i - 1]
        BY <1>3, <1>4, <3>2
      <4>2. g[j - 1] = f[i - 1]
        BY <1>3, <1>4, <3>2
      <4>3. step[<<f[i - 1], q[j + 1]>>] = f[i - 1]
        BY <1>4, <4>1
      <4> QED
        BY <4>1, <4>2, <4>3, SMTT(60)
    <3> QED
      BY <1>4, <3>1, <3>2
  <2> QED
    BY Zenon, <2>1, <2>2 DEF IsRun
<1>6. IsRun(h, step, base, q)
  <2>1. h[0] = base
    BY <1>1, <1>4 DEF IsRun
  <2>2. ASSUME NEW j \in DOMAIN q
        PROVE  h[j] = step[<<h[j - 1], q[j]>>]
    <3>1. CASE j <= i
      <4>1. h[j] = f[j] /\ h[j - 1] = f[j - 1]
        BY <1>4, <3>1
      <4> QED
        BY <1>1, <4>1 DEF IsRun
    <3>2. CASE j > i
      <4>1. h[j] = f[i] /\ h[j - 1] = f[i]
        BY <1>4, <3>2
      <4>2. step[<<f[i], q[j]>>] = f[i]
        BY <1>4, <3>2
      <4> QED
        BY Zenon, <4>1, <4>2
    <3> QED
      BY <1>4, <3>1, <3>2
  <2> QED
    BY Zenon, <2>1, <2>2 DEF IsRun
<1>7. g[Len(r)] = f[i - 1] /\ h[Len(q)] = f[i]
  BY <1>3, <1>4
<1> HIDE DEF g, h
<1>8. Runs(step, base, r) = f[i - 1] /\ Runs(step, base, q) = f[i]
  <2>1. IsStep(S, M, step, base, r)
    BY <1>3 DEF IsStep
  <2>2. Runs(step, base, r) = g[Len(r)] /\ Runs(step, base, q) = h[Len(q)]
    BY <1>5, <1>6, <2>1, RunsIs
  <2> QED
    BY <1>7, <2>2
<1>9. f[i] = step[<<f[i - 1], q[i]>>]
  BY <1>1 DEF IsRun
<1> QED
  BY <1>8, <1>9 DEF r

(* Something that follows the step as long as it has the type is the run.  *)
LEMMA SameRun ==
    ASSUME NEW S, NEW M, NEW step, NEW base, NEW q, IsStep(S, M, step, base, q),
           NEW f \in [0..Len(q) -> S], IsRun(f, step, base, q),
           NEW h, h[0] = base,
           \A i \in DOMAIN q : h[i - 1] \in S => h[i] = step[<<h[i - 1], q[i]>>]
    PROVE  h[Len(q)] = Runs(step, base, q)
<1> step \in [S \X M -> S] /\ base \in S /\ q \in Seq(M)
  BY DEF IsStep
<1> DEFINE T == {n \in 0..Len(q) : h[n] # f[n]}
<1>1. T = {}
  <2> SUFFICES ASSUME T # {} PROVE FALSE
    OBVIOUS
  <2>1. T \in SUBSET Nat
    OBVIOUS
  <2>2. PICK n \in T : \A k \in T : n <= k
    <3> HIDE DEF T
    <3> QED
      BY <2>1, Least, SMTT(60)
  <2>3. n # 0
    BY <2>2 DEF IsRun
  <2>4. n \in DOMAIN q /\ n - 1 \in 0..Len(q) /\ h[n - 1] = f[n - 1]
    BY <2>2, <2>3
  <2>5. h[n] = f[n]
    BY Zenon, <2>4 DEF IsRun
  <2> QED
    BY <2>2, <2>5
<1>2. h[Len(q)] = f[Len(q)]
  BY <1>1
<1> QED
  BY <1>2, RunsIs

============================================================================
