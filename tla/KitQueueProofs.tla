--------------------------- MODULE KitQueueProofs ---------------------------
(***************************************************************************)
(* Proofs about KitQueue for any views, windows, states and any number of  *)
(* messages: merging input changes no text, the last state reported is the *)
(* last that is heard, no obsolete callback stays queued, and all that may *)
(* not be merged arrives in order.                                         *)
(***************************************************************************)
EXTENDS KitQueue, QueueRuns

----------------------------------------------------------------------------
(* The messages, and the types of the variables.                           *)
Buffers == [left : Seq(Nat), right : Seq(Nat)]
Texts == [kind : {"text"}, view : Views, window : Windows, arg : Seq(Nat)]
Removals == [kind : {"remove"}, view : Views, window : Windows, arg : Nat \X Nat]
Events == [kind : {"event"}, view : Views, window : Windows, arg : Seq(Nat)]
Others == [kind : {"other"}, view : Views, window : {0}, arg : Seq(Nat)]
Callbacks ==
    [kind : {"callback"}, view : Views, type : {"state", "cursor", "viewcursor", "other"},
     about : States \cup Views \cup {"none", "ModifiedStatus"},
     arg : {a \in Seq(Nat) : Len(a) = 1}]
Messages == Texts \cup Removals \cup Events \cup Others \cup Callbacks

TypeInv ==
    /\ queue \in Seq(Messages) /\ puts \in Nat
    /\ typed \in [Views -> [Windows -> Buffers]]
    /\ text \in [Views -> [Windows -> Buffers]]
    /\ state \in [Subjects -> Nat] /\ seen \in [Subjects -> Nat]
    /\ told \in Seq(Messages) /\ got \in Seq(Messages)

TypesStep(v, w) == [p \in Buffers \X Messages |-> Types(p[1], p[2], v, w)]
HearsStep(s) == [p \in Nat \X Messages |-> Hears(p[1], p[2], s)]
GetsStep == [p \in Seq(Messages) \X Messages |-> Gets(p[1], p[2])]

(* What a message is, by its kind.                                         *)
LEMMA Kinds ==
    ASSUME NEW m \in Messages
    PROVE  /\ m.view \in Views
           /\ m.kind \in {"text", "remove", "event", "other", "callback"}
           /\ m.kind = "text" => m \in Texts
           /\ m.kind = "remove" => m \in Removals
           /\ m.kind = "event" => m \in Events
           /\ m.kind = "other" => m \in Others
           /\ m.kind = "callback" => m \in Callbacks
  BY SMTT(30) DEF Messages, Texts, Removals, Events, Others, Callbacks

(* A part of a text.                                                       *)
LEMMA PartOf ==
    ASSUME NEW t \in Seq(Nat), NEW i \in Nat \ {0}, NEW j \in 0..Len(t)
    PROVE  /\ SubSeq(t, i, j) \in Seq(Nat)
           /\ Len(SubSeq(t, i, j)) = IF i <= j THEN j - i + 1 ELSE 0
           /\ \A k \in 1..Len(SubSeq(t, i, j)) : SubSeq(t, i, j)[k] = t[i + k - 1]
<1>1. CASE i <= j
  BY <1>1, SMTT(30)
<1>2. CASE i > j
  BY <1>2, SMTT(30)
<1> QED
  BY <1>1, <1>2

(* Typing in parts.                                                        *)
LEMMA Associative ==
    ASSUME NEW x \in Seq(Nat), NEW y \in Seq(Nat), NEW z \in Seq(Nat)
    PROVE  x \o (y \o z) = (x \o y) \o z
  BY SMTT(60)

(* Input makes a text of a text.                                           *)
LEMMA ApplyTyped ==
    ASSUME NEW b \in Buffers, NEW m \in Messages
    PROVE  Apply(b, m) \in Buffers
<1>0. b.left \in Seq(Nat) /\ b.right \in Seq(Nat) /\ Len(b.left) \in Nat
  BY DEF Buffers
<1>1. CASE m.kind = "text"
  <2>1. m.arg \in Seq(Nat)
    BY <1>1, Kinds DEF Texts
  <2>2. Apply(b, m) = [b EXCEPT !.left = b.left \o m.arg]
    BY <1>1 DEF Apply
  <2>3. b.left \o m.arg \in Seq(Nat)
    BY <1>0, <2>1
  <2> QED
    BY Zenon, <2>2, <2>3 DEF Buffers
<1>2. CASE m.kind = "remove"
  <2>1. m.arg[1] \in Nat /\ m.arg[2] \in Nat
    BY <1>2, Kinds DEF Removals
  <2> DEFINE l == SubSeq(b.left, 1, Less(Len(b.left), m.arg[1]))
             r == SubSeq(b.right, m.arg[2] + 1, Len(b.right))
  <2>2. Apply(b, m) = [left |-> l, right |-> r]
    BY <1>2 DEF Apply
  <2>3. Less(Len(b.left), m.arg[1]) \in 0..Len(b.left)
    BY <1>0, <2>1 DEF Less
  <2>4. l \in Seq(Nat) /\ r \in Seq(Nat)
    <3>1. m.arg[2] + 1 \in Nat \ {0} /\ Len(b.right) \in 0..Len(b.right)
      BY <1>0, <2>1
    <3> QED
      BY <1>0, <2>3, <3>1, PartOf, SMTT(60)
  <2> QED
    BY <2>2, <2>4, SMTT(60) DEF Buffers
<1>3. CASE m.kind = "event" /\ b.left # <<>>
  <2>1. Apply(b, m) = [left |-> Front(b.left), right |-> <<Last(b.left)>> \o b.right]
    BY <1>3 DEF Apply
  <2>2. Front(b.left) \in Seq(Nat) /\ Last(b.left) \in Nat
    BY <1>0, <1>3 DEF Front, Last
  <2>3. <<Last(b.left)>> \o b.right \in Seq(Nat)
    BY <1>0, <2>2
  <2> QED
    BY <2>1, <2>2, <2>3 DEF Buffers
<1>4. CASE m.kind \notin {"text", "remove"} /\ ~(m.kind = "event" /\ b.left # <<>>)
  <2>1. Apply(b, m) = b
    BY Zenon, <1>4 DEF Apply
  <2> QED
    BY <2>1
<1> QED
  BY <1>1, <1>2, <1>3, <1>4

(* The three steps have the types that runs need.                          *)
LEMMA StepTypes ==
    /\ \A v, w : TypesStep(v, w) \in [Buffers \X Messages -> Buffers]
    /\ \A s : HearsStep(s) \in [Nat \X Messages -> Nat]
    /\ GetsStep \in [Seq(Messages) \X Messages -> Seq(Messages)]
<1>1. ASSUME NEW v, NEW w, NEW b \in Buffers, NEW m \in Messages
      PROVE  Types(b, m, v, w) \in Buffers
  BY ApplyTyped DEF Types
<1>2. ASSUME NEW s, NEW n \in Nat, NEW m \in Messages
      PROVE  Hears(n, m, s) \in Nat
  <2>1. m.kind = "callback" => m.arg[1] \in Nat
    BY Kinds DEF Callbacks
  <2> QED
    BY <2>1 DEF Hears, IsState
<1>3. ASSUME NEW all \in Seq(Messages), NEW m \in Messages
      PROVE  Gets(all, m) \in Seq(Messages)
  BY DEF Gets
<1> QED
  BY <1>1, <1>2, <1>3 DEF TypesStep, HearsStep, GetsStep

(* KitQueue's folds are runs of these steps.                               *)
LEMMA TypesRuns ==
    ASSUME NEW v, NEW w, NEW b \in Buffers, NEW q \in Seq(Messages)
    PROVE  /\ After(LAMBDA x, m : Types(x, m, v, w), b, q) = Runs(TypesStep(v, w), b, q)
           /\ IsStep(Buffers, Messages, TypesStep(v, w), b, q)
<1> DEFINE step == TypesStep(v, w)
           Def(f) == f = [i \in 0..Len(q) |-> IF i = 0 THEN b ELSE Types(f[i - 1], q[i], v, w)]
           h == CHOOSE f : Def(f)
<1>1. IsStep(Buffers, Messages, step, b, q)
  BY Zenon, StepTypes DEF IsStep
<1>2. \A x \in Buffers, m \in Messages : step[<<x, m>>] = Types(x, m, v, w)
  BY DEF TypesStep
<1> HIDE DEF step
<1>3. PICK f \in [0..Len(q) -> Buffers] : IsRun(f, step, b, q)
  BY <1>1, RunExists
<1>4. Def(f)
  <2>1. ASSUME NEW i \in 0..Len(q)
        PROVE  f[i] = IF i = 0 THEN b ELSE Types(f[i - 1], q[i], v, w)
    <3>1. i # 0 => i \in DOMAIN q /\ f[i - 1] \in Buffers /\ q[i] \in Messages
      OBVIOUS
    <3> QED
      BY <1>2, <1>3, <3>1, SMTT(60) DEF IsRun
  <2> QED
    BY <1>3, <2>1
<1>5. Def(h)
  <2> HIDE DEF Def
  <2> QED
    BY <1>4
<1>6. After(LAMBDA x, m : Types(x, m, v, w), b, q) = h[Len(q)]
  BY DEF After
<1>7. \A i \in 0..Len(q) : h[i] = IF i = 0 THEN b ELSE Types(h[i - 1], q[i], v, w)
  <2> HIDE DEF h
  <2> QED
    BY <1>5, SMTT(60)
<1> HIDE DEF h, Def
<1>8. h[0] = b /\ \A i \in DOMAIN q : h[i - 1] \in Buffers => h[i] = step[<<h[i - 1], q[i]>>]
  <2>1. 0 \in 0..Len(q) /\ \A i \in DOMAIN q : i \in 0..Len(q) /\ i # 0 /\ q[i] \in Messages
    OBVIOUS
  <2> QED
    BY <1>2, <1>7, <2>1
<1>9. h[Len(q)] = Runs(step, b, q)
  BY <1>1, <1>3, <1>8, SameRun
<1> QED
  BY <1>1, <1>6, <1>9 DEF step

(* The same for what is heard.                                             *)
LEMMA HearsRuns ==
    ASSUME NEW s, NEW b \in Nat, NEW q \in Seq(Messages)
    PROVE  /\ After(LAMBDA x, m : Hears(x, m, s), b, q) = Runs(HearsStep(s), b, q)
           /\ IsStep(Nat, Messages, HearsStep(s), b, q)
<1> DEFINE step == HearsStep(s)
           Def(f) == f = [i \in 0..Len(q) |-> IF i = 0 THEN b ELSE Hears(f[i - 1], q[i], s)]
           h == CHOOSE f : Def(f)
<1>1. IsStep(Nat, Messages, step, b, q)
  BY Zenon, StepTypes DEF IsStep
<1>2. \A x \in Nat, m \in Messages : step[<<x, m>>] = Hears(x, m, s)
  BY DEF HearsStep
<1> HIDE DEF step
<1>3. PICK f \in [0..Len(q) -> Nat] : IsRun(f, step, b, q)
  BY <1>1, RunExists
<1>4. Def(f)
  <2>1. ASSUME NEW i \in 0..Len(q)
        PROVE  f[i] = IF i = 0 THEN b ELSE Hears(f[i - 1], q[i], s)
    <3>1. i # 0 => i \in DOMAIN q /\ f[i - 1] \in Nat /\ q[i] \in Messages
      OBVIOUS
    <3> QED
      BY <1>2, <1>3, <3>1, SMTT(60) DEF IsRun
  <2> QED
    BY <1>3, <2>1
<1>5. Def(h)
  <2> HIDE DEF Def
  <2> QED
    BY <1>4
<1>6. After(LAMBDA x, m : Hears(x, m, s), b, q) = h[Len(q)]
  BY DEF After
<1>7. \A i \in 0..Len(q) : h[i] = IF i = 0 THEN b ELSE Hears(h[i - 1], q[i], s)
  <2> HIDE DEF h
  <2> QED
    BY <1>5, SMTT(60)
<1> HIDE DEF h, Def
<1>8. h[0] = b /\ \A i \in DOMAIN q : h[i - 1] \in Nat => h[i] = step[<<h[i - 1], q[i]>>]
  <2>1. 0 \in 0..Len(q) /\ \A i \in DOMAIN q : i \in 0..Len(q) /\ i # 0 /\ q[i] \in Messages
    OBVIOUS
  <2> QED
    BY <1>2, <1>7, <2>1
<1>9. h[Len(q)] = Runs(step, b, q)
  BY <1>1, <1>3, <1>8, SameRun
<1> QED
  BY <1>1, <1>6, <1>9 DEF step

(* The same for what arrives.                                              *)
LEMMA GetsRuns ==
    ASSUME NEW b \in Seq(Messages), NEW q \in Seq(Messages)
    PROVE  /\ After(Gets, b, q) = Runs(GetsStep, b, q)
           /\ IsStep(Seq(Messages), Messages, GetsStep, b, q)
<1> DEFINE step == GetsStep
           Def(f) == f = [i \in 0..Len(q) |-> IF i = 0 THEN b ELSE Gets(f[i - 1], q[i])]
           h == CHOOSE f : Def(f)
<1>1. IsStep(Seq(Messages), Messages, step, b, q)
  BY StepTypes DEF IsStep
<1>2. \A x \in Seq(Messages), m \in Messages : step[<<x, m>>] = Gets(x, m)
  BY DEF GetsStep
<1> HIDE DEF step
<1>3. PICK f \in [0..Len(q) -> Seq(Messages)] : IsRun(f, step, b, q)
  BY <1>1, RunExists
<1>4. Def(f)
  <2>1. ASSUME NEW i \in 0..Len(q)
        PROVE  f[i] = IF i = 0 THEN b ELSE Gets(f[i - 1], q[i])
    <3>1. i # 0 => i \in DOMAIN q /\ f[i - 1] \in Seq(Messages) /\ q[i] \in Messages
      BY SMTT(60)
    <3> QED
      BY Zenon, <1>2, <1>3, <3>1 DEF IsRun
  <2> QED
    BY <1>3, <2>1
<1>5. Def(h)
  <2> HIDE DEF Def
  <2> QED
    BY <1>4
<1>6. After(Gets, b, q) = h[Len(q)]
  BY DEF After
<1>7. \A i \in 0..Len(q) : h[i] = IF i = 0 THEN b ELSE Gets(h[i - 1], q[i])
  <2> HIDE DEF h
  <2> QED
    BY Zenon, <1>5
<1> HIDE DEF h, Def
<1>8. h[0] = b /\ \A i \in DOMAIN q : h[i - 1] \in Seq(Messages) => h[i] = step[<<h[i - 1], q[i]>>]
  <2>1. 0 \in 0..Len(q) /\ \A i \in DOMAIN q : i \in 0..Len(q) /\ i # 0 /\ q[i] \in Messages
    OBVIOUS
  <2> QED
    BY <1>2, <1>7, <2>1
<1>9. h[Len(q)] = Runs(step, b, q)
  BY <1>1, <1>3, <1>8, SameRun
<1> QED
  BY <1>1, <1>6, <1>9 DEF step

----------------------------------------------------------------------------
(* Merging.                                                                *)

(* A set of indices has a greatest.                                        *)
LEMMA Greatest ==
    ASSUME NEW n \in Nat, NEW T \in SUBSET (1..n), T # {}
    PROVE  \E j \in T : \A k \in T : k <= j
<1> DEFINE U == {x \in 0..n : n - x \in T}
<1>1. U \in SUBSET Nat /\ U # {}
  <2>1. PICK k \in T : TRUE
    BY Zenon
  <2>2. n - k \in U
    <3>1. n - k \in 0..n /\ n - (n - k) = k
      BY <2>1
    <3> QED
      BY <2>1, <3>1
  <2>3. U \subseteq Nat
    OBVIOUS
  <2> HIDE DEF U
  <2> QED
    BY <2>2, <2>3
<1>2. PICK x \in U : \A y \in U : x <= y
  <2> HIDE DEF U
  <2> QED
    BY <1>1, Least
<1>3. n - x \in T /\ x \in 0..n
  BY <1>2
<1>4. ASSUME NEW k \in T
      PROVE  k <= n - x
  <2>1. k \in 1..n
    OBVIOUS
  <2>2. n - k \in 0..n /\ n - (n - k) = k
    BY <2>1
  <2>3. n - k \in U
    BY <2>2
  <2>4. x <= n - k
    BY <1>2, <2>3
  <2> QED
    BY <1>3, <2>1, <2>4
<1> QED
  BY <1>3, <1>4

(* put_impl(): a message is appended, or merged with the last one of its   *)
(* kind and window, after which nothing of its view is in the way.         *)
LEMMA Combining ==
    ASSUME NEW q \in Seq(Messages), NEW m
    PROVE  \/ Combine(q, m) = Append(q, m)
           \/ \E i \in DOMAIN q :
                 /\ Merges(m, q[i])
                 /\ \A j \in DOMAIN q : j > i => ~Blocks(m, q[j]) /\ ~Merges(m, q[j])
                 /\ Combine(q, m) = Append(RemoveAt(q, i), Merge(m, q[i]))
<1> DEFINE met == {i \in DOMAIN q : Blocks(m, q[i]) \/ Merges(m, q[i])}
           i == CHOOSE j \in met : \A k \in met : k <= j
<1>1. CASE met = {}
  BY <1>1 DEF Combine
<1>2. CASE met # {}
  <2>1. met \in SUBSET (1..Len(q)) /\ Len(q) \in Nat
    OBVIOUS
  <2>2. i \in met /\ \A k \in met : k <= i
    <3> HIDE DEF met
    <3>1. \E j \in met : \A k \in met : k <= j
      BY Zenon, <1>2, <2>1, Greatest
    <3> QED
      BY <3>1
  <2>3. Combine(q, m) = IF Blocks(m, q[i]) THEN Append(q, m)
                        ELSE Append(RemoveAt(q, i), Merge(m, q[i]))
    BY <1>2 DEF Combine
  <2> HIDE DEF i
  <2>4. i \in DOMAIN q /\ (Blocks(m, q[i]) \/ Merges(m, q[i]))
    BY <2>2
  <2>5. ASSUME NEW j \in DOMAIN q, j > i
        PROVE  ~Blocks(m, q[j]) /\ ~Merges(m, q[j])
    <3>1. j \notin met
      <4> HIDE DEF met
      <4>1. i \in Nat /\ j \in Nat
        BY <2>4
      <4> QED
        BY <2>2, <2>5, <4>1
    <3> QED
      BY <3>1
  <2> HIDE DEF met
  <2> QED
    BY <2>3, <2>4, <2>5, Zenon
<1> QED
  BY <1>1, <1>2

(* The merged message does what the two did.                               *)
LEMMA Merging ==
    ASSUME NEW m \in Messages, NEW o \in Messages, m.kind \in {"text", "remove"}, Merges(m, o)
    PROVE  /\ Merge(m, o) \in Messages
           /\ Merge(m, o).kind = m.kind /\ Merge(m, o).view = m.view
           /\ Merge(m, o).window = m.window
           /\ \A b \in Buffers : Apply(b, Merge(m, o)) = Apply(Apply(b, o), m)
<1>1. CASE m.kind = "text"
  <2>1. m \in Texts /\ o \in Texts
    BY <1>1, Kinds DEF Merges
  <2>2. Merge(m, o) = [m EXCEPT !.arg = o.arg \o m.arg]
    BY <1>1 DEF Merge
  <2>3. m.arg \in Seq(Nat) /\ o.arg \in Seq(Nat) /\ o.arg \o m.arg \in Seq(Nat)
    BY <2>1 DEF Texts
  <2>4. /\ Merge(m, o) \in Texts /\ Merge(m, o).arg = o.arg \o m.arg
        /\ Merge(m, o).kind = "text" /\ Merge(m, o).view = m.view
        /\ Merge(m, o).window = m.window
    BY Zenon, <2>1, <2>2, <2>3 DEF Texts
  <2>5. ASSUME NEW b \in Buffers
        PROVE  Apply(b, Merge(m, o)) = Apply(Apply(b, o), m)
    <3>1. b.left \in Seq(Nat)
      BY DEF Buffers
    <3>2. Apply(b, o) = [b EXCEPT !.left = b.left \o o.arg]
      BY <1>1 DEF Apply, Merges
    <3>3. Apply(b, Merge(m, o)) = [b EXCEPT !.left = b.left \o (o.arg \o m.arg)]
      BY <2>4 DEF Apply
    <3>4. Apply(Apply(b, o), m) = [b EXCEPT !.left = (b.left \o o.arg) \o m.arg]
      BY Zenon, <1>1, <3>2 DEF Apply, Buffers
    <3>5. b.left \o (o.arg \o m.arg) = (b.left \o o.arg) \o m.arg
      BY <2>3, <3>1, Associative, ZenonT(60)
    <3> QED
      BY <3>3, <3>4, <3>5, Zenon
  <2> QED
    BY <1>1, <2>4, <2>5 DEF Messages
<1>2. CASE m.kind = "remove"
  <2>1. m \in Removals /\ o \in Removals
    BY <1>2, Kinds DEF Merges
  <2>2. Merge(m, o) = [m EXCEPT !.arg = <<o.arg[1] + m.arg[1], o.arg[2] + m.arg[2]>>]
    BY <1>2 DEF Merge
  <2>3. m.arg[1] \in Nat /\ m.arg[2] \in Nat /\ o.arg[1] \in Nat /\ o.arg[2] \in Nat
    BY <2>1 DEF Removals
  <2>4. /\ Merge(m, o) \in Removals
        /\ Merge(m, o).arg[1] = o.arg[1] + m.arg[1] /\ Merge(m, o).arg[2] = o.arg[2] + m.arg[2]
        /\ Merge(m, o).kind = "remove" /\ Merge(m, o).view = m.view
        /\ Merge(m, o).window = m.window
    BY <2>1, <2>2, <2>3 DEF Removals
  <2>5. ASSUME NEW b \in Buffers
        PROVE  Apply(b, Merge(m, o)) = Apply(Apply(b, o), m)
    <3> DEFINE Cut(l, n) == SubSeq(l, 1, Less(Len(l), n))
               Skip(r, n) == SubSeq(r, n + 1, Len(r))
    <3>1. b.left \in Seq(Nat) /\ b.right \in Seq(Nat)
      BY DEF Buffers
    <3>2. \A c \in Buffers : Apply(c, m) = [left |-> Cut(c.left, m.arg[1]), right |-> Skip(c.right, m.arg[2])]
      BY <1>2 DEF Apply
    <3>3. Apply(b, o) = [left |-> Cut(b.left, o.arg[1]), right |-> Skip(b.right, o.arg[2])]
      BY <1>2 DEF Apply, Merges
    <3>4. Apply(b, Merge(m, o)) = [left |-> Cut(b.left, o.arg[1] + m.arg[1]),
                                   right |-> Skip(b.right, o.arg[2] + m.arg[2])]
      BY <2>4 DEF Apply
    <3>5. ASSUME NEW l \in Seq(Nat), NEW x \in Nat, NEW y \in Nat
          PROVE  Cut(Cut(l, x), y) = Cut(l, x + y) /\ Skip(Skip(l, x), y) = Skip(l, x + y)
      <4>1. Less(Len(l), x) \in 0..Len(l) /\ Less(Len(l), x + y) \in 0..Len(l) /\ Len(l) \in Nat
        BY <3>5 DEF Less
      <4>2. Cut(l, x) \in Seq(Nat) /\ Len(Cut(l, x)) = Less(Len(l), x)
        BY <4>1, PartOf
      <4>3. Less(Less(Len(l), x), y) = Less(Len(l), x + y)
        BY DEF Less
      <4>4. Cut(Cut(l, x), y) = Cut(l, x + y)
        <5> DEFINE n == Less(Len(l), x + y)
        <5>1. n \in 0..Len(Cut(l, x)) /\ n \in 0..Len(l)
          BY <4>1, <4>2 DEF Less
        <5>2. Cut(Cut(l, x), y) = SubSeq(Cut(l, x), 1, n) /\ Cut(l, x + y) = SubSeq(l, 1, n)
          BY Zenon, <4>2, <4>3
        <5>3. \A k \in 1..Len(Cut(l, x)) : Cut(l, x)[k] = l[k]
          BY <4>1, <4>2, PartOf
        <5> HIDE DEF n, Cut
        <5>4. /\ SubSeq(l, 1, n) \in Seq(Nat) /\ Len(SubSeq(l, 1, n)) = n
              /\ \A k \in 1..n : SubSeq(l, 1, n)[k] = l[k]
          BY <4>1, <5>1, PartOf
        <5>5. /\ SubSeq(Cut(l, x), 1, n) \in Seq(Nat) /\ Len(SubSeq(Cut(l, x), 1, n)) = n
              /\ \A k \in 1..n : SubSeq(Cut(l, x), 1, n)[k] = Cut(l, x)[k]
          BY <4>2, <5>1, PartOf, SMTT(60)
        <5>6. \A k \in 1..n : Cut(l, x)[k] = l[k]
          BY <4>1, <4>2, <5>1, <5>3, SMTT(60)
        <5> QED
          BY <5>2, <5>4, <5>5, <5>6, SeqEqual
      <4>5. Skip(Skip(l, x), y) = Skip(l, x + y)
        BY <4>1, PartOf, SMTT(60)
      <4> QED
        BY Zenon, <4>4, <4>5
    <3>6. Apply(b, o) \in Buffers
      BY ApplyTyped
    <3> HIDE DEF Cut, Skip
    <3> QED
      BY ZenonT(60), <2>3, <3>1, <3>2, <3>3, <3>4, <3>5, <3>6
  <2> QED
    BY <1>2, <2>4, <2>5 DEF Messages
<1> QED
  BY <1>1, <1>2

(* A step that has no use for input like m has none for its merging.       *)
LEMMA CombineSkips ==
    ASSUME NEW S, NEW step, NEW base, NEW q, IsStep(S, Messages, step, base, q),
           NEW m \in Messages, m.kind \in {"text", "remove"},
           \A x \in Messages : Merges(m, x) => \A y \in S : step[<<y, x>>] = y
    PROVE  Runs(step, base, Combine(q, m)) = Runs(step, base, q)
<1> step \in [S \X Messages -> S] /\ base \in S /\ q \in Seq(Messages)
  BY DEF IsStep
<1>1. ASSUME NEW r \in Seq(Messages), NEW x \in Messages, Merges(m, x)
      PROVE  Runs(step, base, Append(r, x)) = Runs(step, base, r)
  <2>1. IsStep(S, Messages, step, base, r)
    BY DEF IsStep
  <2>2. Runs(step, base, r) \in S
    BY <2>1, RunsTyped
  <2>3. Runs(step, base, Append(r, x)) = step[<<Runs(step, base, r), x>>]
    BY <2>1, RunsAppend
  <2> QED
    BY <1>1, <2>2, <2>3
<1>2. CASE Combine(q, m) = Append(q, m)
  <2>1. Merges(m, m)
    BY DEF Merges
  <2> QED
    BY <1>1, <1>2, <2>1
<1>3. ASSUME NEW i \in DOMAIN q, Merges(m, q[i]),
             Combine(q, m) = Append(RemoveAt(q, i), Merge(m, q[i]))
      PROVE  Runs(step, base, Combine(q, m)) = Runs(step, base, q)
  <2>1. q[i] \in Messages /\ RemoveAt(q, i) \in Seq(Messages)
    BY Removing
  <2>2. Merge(m, q[i]) \in Messages /\ Merges(m, Merge(m, q[i]))
    BY <1>3, <2>1, Merging DEF Merges
  <2>3. Runs(step, base, RemoveAt(q, i)) = Runs(step, base, q)
    <3>1. \A y \in S : step[<<y, q[i]>>] = y
      BY <1>3, <2>1
    <3> QED
      BY <3>1, RunsSkip
  <2> QED
    BY <1>1, <1>3, <2>1, <2>2, <2>3
<1> QED
  BY <1>2, <1>3, Combining

(* Merging input does to each window what the input did.                   *)
LEMMA CombineTypes ==
    ASSUME NEW q \in Seq(Messages), NEW m \in Messages, m.kind \in {"text", "remove"},
           NEW b \in Buffers, NEW v, NEW w
    PROVE  Runs(TypesStep(v, w), b, Combine(q, m)) = Types(Runs(TypesStep(v, w), b, q), m, v, w)
<1> DEFINE step == TypesStep(v, w)
<1>1. IsStep(Buffers, Messages, step, b, q)
  BY TypesRuns
<1>2. \A x \in Buffers, y \in Messages : step[<<x, y>>] = Types(x, y, v, w)
  BY DEF TypesStep
<1> HIDE DEF step
<1>3. Runs(step, b, q) \in Buffers
  BY <1>1, RunsTyped
<1>4. CASE ~(m.view = v /\ m.window = w)
  <2>1. \A x \in Messages : Merges(m, x) => \A y \in Buffers : step[<<y, x>>] = y
    BY <1>2, <1>4 DEF Merges, Types
  <2>2. Runs(step, b, Combine(q, m)) = Runs(step, b, q)
    BY <1>1, <2>1, CombineSkips
  <2> QED
    BY <1>4, <2>2 DEF Types, step
<1>5. CASE m.view = v /\ m.window = w
  <2>1. \A x : Types(x, m, v, w) = Apply(x, m)
    BY <1>5 DEF Types, IsTyping
  <2>2. CASE Combine(q, m) = Append(q, m)
    <3>1. Runs(step, b, Append(q, m)) = step[<<Runs(step, b, q), m>>]
      BY <1>1, RunsAppend
    <3> QED
      BY <1>2, <1>3, <2>2, <3>1 DEF step
  <2>3. ASSUME NEW i \in DOMAIN q, Merges(m, q[i]),
               \A j \in DOMAIN q : j > i => ~Blocks(m, q[j]) /\ ~Merges(m, q[j]),
               Combine(q, m) = Append(RemoveAt(q, i), Merge(m, q[i]))
        PROVE  Runs(step, b, Combine(q, m)) = Apply(Runs(step, b, q), m)
    <3> DEFINE r == RemoveAt(q, i)
               o == Merge(m, q[i])
    <3>1. q[i] \in Messages /\ r \in Seq(Messages)
      BY Removing
    <3>2. /\ o \in Messages /\ o.kind = m.kind /\ o.view = v /\ o.window = w
          /\ \A x \in Buffers : Apply(x, o) = Apply(Apply(x, q[i]), m)
      BY <1>5, <2>3, <3>1, Merging
    <3>3. ASSUME NEW j \in DOMAIN q, j > i, NEW x \in Buffers
          PROVE  step[<<x, q[j]>>] = x
      <4>1. q[j] \in Messages
        OBVIOUS
      <4>2. ~(IsTyping(q[j]) /\ q[j].view = v /\ q[j].window = w)
        BY <1>5, <2>3, <3>3 DEF IsTyping, Blocks, Merges
      <4> QED
        BY <1>2, <4>1, <4>2 DEF Types
    <3>4. Runs(step, b, q) = step[<<Runs(step, b, r), q[i]>>]
      BY <1>1, <3>3, RunsMove
    <3>5. IsStep(Buffers, Messages, step, b, r)
      BY <1>1, <3>1 DEF IsStep
    <3> HIDE DEF r, o
    <3>6. Runs(step, b, r) \in Buffers
      BY <3>5, RunsTyped
    <3>7. Runs(step, b, Append(r, o)) = step[<<Runs(step, b, r), o>>]
      BY <3>2, <3>5, RunsAppend
    <3>8. step[<<Runs(step, b, r), o>>] = Apply(Runs(step, b, r), o)
      BY <1>2, <3>2, <3>6 DEF Types, IsTyping
    <3>9. step[<<Runs(step, b, r), q[i]>>] = Apply(Runs(step, b, r), q[i])
      BY <1>2, <1>5, <2>3, <3>1, <3>6 DEF Types, IsTyping, Merges
    <3> QED
      BY <2>3, <3>2, <3>4, <3>6, <3>7, <3>8, <3>9 DEF r, o
  <2> QED
    BY <2>1, <2>2, <2>3, Combining DEF step
<1> QED
  BY <1>4, <1>5

----------------------------------------------------------------------------
(* Callbacks.                                                              *)
NoObsoleteIn(q) ==
    \A i, j \in DOMAIN q : i < j /\ q[j].kind = "callback" => ~Obsoletes(q[j], q[i])

(* removeCallbackDuplicate(): the first obsolete message is removed.       *)
LEMMA Duplicates ==
    ASSUME NEW q \in Seq(Messages), NEW m
    PROVE  \/ /\ \A i \in DOMAIN q : ~Obsoletes(m, q[i])
              /\ RemoveCallbackDuplicate(q, m) = q
           \/ \E i \in DOMAIN q : /\ Obsoletes(m, q[i])
                                  /\ RemoveCallbackDuplicate(q, m) = RemoveAt(q, i)
<1> DEFINE old == {i \in DOMAIN q : Obsoletes(m, q[i])}
           i == CHOOSE j \in old : \A k \in old : j <= k
<1>1. CASE old = {}
  BY <1>1 DEF RemoveCallbackDuplicate
<1>2. CASE old # {}
  <2>1. old \in SUBSET Nat
    OBVIOUS
  <2>2. i \in old
    <3> HIDE DEF old
    <3>1. \E j \in old : \A k \in old : j <= k
      BY <1>2, <2>1, Least
    <3> QED
      BY <3>1
  <2>3. RemoveCallbackDuplicate(q, m) = RemoveAt(q, i)
    BY <1>2 DEF RemoveCallbackDuplicate
  <2> HIDE DEF i
  <2>4. i \in DOMAIN q /\ Obsoletes(m, q[i])
    BY <2>2
  <2> QED
    BY <2>3, <2>4
<1> QED
  BY <1>1, <1>2

(* A step that has no use for what m makes obsolete does not miss it.      *)
LEMMA DuplicatesSkipped ==
    ASSUME NEW S, NEW step, NEW base, NEW q, IsStep(S, Messages, step, base, q), NEW m,
           \A x \in Messages : Obsoletes(m, x) => \A y \in S : step[<<y, x>>] = y
    PROVE  Runs(step, base, RemoveCallbackDuplicate(q, m)) = Runs(step, base, q)
<1>0. q \in Seq(Messages)
  BY DEF IsStep
<1>1. ASSUME NEW i \in DOMAIN q, Obsoletes(m, q[i])
      PROVE  Runs(step, base, RemoveAt(q, i)) = Runs(step, base, q)
  <2>1. q[i] \in Messages
    BY <1>0
  <2>2. \A y \in S : step[<<y, q[i]>>] = y
    BY <1>1, <2>1
  <2> QED
    BY <2>2, RunsSkip
<1> QED
  BY <1>0, <1>1, Duplicates

(* Removing a message leaves no obsolete callback.                         *)
LEMMA ObsoleteRemoved ==
    ASSUME NEW q \in Seq(Messages), NEW i \in DOMAIN q, NoObsoleteIn(q)
    PROVE  NoObsoleteIn(RemoveAt(q, i))
<1> DEFINE r == RemoveAt(q, i)
           At(j) == IF j < i THEN j ELSE j + 1
<1>1. \A j \in DOMAIN r : At(j) \in DOMAIN q /\ r[j] = q[At(j)]
  <2> Len(q) \in Nat
    OBVIOUS
  <2>1. /\ r \in Seq(Messages) /\ Len(r) = Len(q) - 1
        /\ \A j \in 1..(Len(q) - 1) : r[j] = IF j < i THEN q[j] ELSE q[j + 1]
    BY Zenon, Removing
  <2> HIDE DEF r
  <2> QED
    BY <2>1
<1>2. DOMAIN r \subseteq Nat
  BY Removing
<1> HIDE DEF r
<1>3. \A j, k \in DOMAIN r : j < k => At(j) < At(k)
  BY <1>2
<1> HIDE DEF At
<1> QED
  BY <1>1, <1>3 DEF NoObsoleteIn, r

(* Nor does a message that makes nothing obsolete.                         *)
LEMMA ObsoleteAppended ==
    ASSUME NEW q \in Seq(Messages), NEW m, NoObsoleteIn(q),
           m.kind = "callback" => \A i \in DOMAIN q : ~Obsoletes(m, q[i])
    PROVE  NoObsoleteIn(Append(q, m))
<1>1. \A j \in DOMAIN Append(q, m) : \/ j \in DOMAIN q /\ Append(q, m)[j] = q[j]
                                     \/ j = Len(q) + 1 /\ Append(q, m)[j] = m
  OBVIOUS
<1>2. \A i \in DOMAIN q : i \in Nat /\ i < Len(q) + 1
  OBVIOUS
<1>3. \A i, j \in DOMAIN Append(q, m) : i < j => i \in DOMAIN q /\ Append(q, m)[i] = q[i]
  BY <1>1
<1> QED
  BY <1>1, <1>3 DEF NoObsoleteIn

(* A callback leaves none that is obsolete: there was at most one.         *)
LEMMA ObsoletePut ==
    ASSUME NEW q \in Seq(Messages), NEW m \in Callbacks, NoObsoleteIn(q)
    PROVE  /\ RemoveCallbackDuplicate(q, m) \in Seq(Messages)
           /\ NoObsoleteIn(Append(RemoveCallbackDuplicate(q, m), m))
<1>1. CASE /\ \A i \in DOMAIN q : ~Obsoletes(m, q[i])
           /\ RemoveCallbackDuplicate(q, m) = q
  BY <1>1, ObsoleteAppended
<1>2. ASSUME NEW i \in DOMAIN q, Obsoletes(m, q[i]),
             RemoveCallbackDuplicate(q, m) = RemoveAt(q, i)
      PROVE  /\ RemoveCallbackDuplicate(q, m) \in Seq(Messages)
             /\ NoObsoleteIn(Append(RemoveCallbackDuplicate(q, m), m))
  <2> DEFINE r == RemoveAt(q, i)
  <2> Len(q) \in Nat
    OBVIOUS
  <2>1. /\ r \in Seq(Messages) /\ Len(r) = Len(q) - 1
        /\ \A j \in 1..(Len(q) - 1) : r[j] = IF j < i THEN q[j] ELSE q[j + 1]
    BY Zenon, Removing
  <2>2. NoObsoleteIn(r)
    BY ObsoleteRemoved
  <2>3. ASSUME NEW k \in DOMAIN q, Obsoletes(m, q[k])
        PROVE  k = i
    <3>1. k \in Nat /\ i \in Nat
      OBVIOUS
    <3>2. ~(k < i) /\ ~(i < k)
      BY <1>2, <2>3 DEF NoObsoleteIn, Obsoletes, IsDuplicate
    <3> QED
      BY <3>1, <3>2
  <2> HIDE DEF r
  <2>4. ASSUME NEW j \in DOMAIN r
        PROVE  ~Obsoletes(m, r[j])
    <3>1. CASE j < i
      <4>1. j \in DOMAIN q /\ r[j] = q[j] /\ j # i
        BY <2>1, <3>1
      <4> QED
        BY <2>3, <4>1
    <3>2. CASE j >= i
      <4>1. j + 1 \in DOMAIN q /\ r[j] = q[j + 1] /\ j + 1 # i
        BY <2>1, <3>2
      <4> QED
        BY <2>3, <4>1
    <3> QED
      BY <2>1, <3>1, <3>2
  <2>5. NoObsoleteIn(Append(r, m))
    BY <2>1, <2>2, <2>4, ObsoleteAppended
  <2> QED
    BY <1>2, <2>1, <2>5 DEF r
<1> QED
  BY <1>1, <1>2, Duplicates

(* Nor does merging.                                                       *)
LEMMA ObsoleteCombined ==
    ASSUME NEW q \in Seq(Messages), NEW m \in Messages, m.kind \in {"text", "remove"},
           NoObsoleteIn(q)
    PROVE  Combine(q, m) \in Seq(Messages) /\ NoObsoleteIn(Combine(q, m))
<1>1. CASE Combine(q, m) = Append(q, m)
  BY <1>1, ObsoleteAppended
<1>2. ASSUME NEW i \in DOMAIN q, Merges(m, q[i]),
             Combine(q, m) = Append(RemoveAt(q, i), Merge(m, q[i]))
      PROVE  Combine(q, m) \in Seq(Messages) /\ NoObsoleteIn(Combine(q, m))
  <2>1. q[i] \in Messages /\ RemoveAt(q, i) \in Seq(Messages)
    BY Removing
  <2>2. NoObsoleteIn(RemoveAt(q, i))
    BY ObsoleteRemoved
  <2>3. Merge(m, q[i]) \in Messages /\ Merge(m, q[i]).kind # "callback"
    BY <1>2, <2>1, Merging
  <2>4. NoObsoleteIn(Append(RemoveAt(q, i), Merge(m, q[i])))
    BY <2>1, <2>2, <2>3, ObsoleteAppended
  <2> QED
    BY <1>2, <2>1, <2>3, <2>4
<1> QED
  BY <1>1, <1>2, Combining

----------------------------------------------------------------------------
(* The invariant, by runs: what is queued makes of the texts, of what was  *)
(* heard and of what arrived what the histories say.                       *)
IInv ==
    /\ TypeInv
    /\ NoObsoleteIn(queue)
    /\ \A v \in Views, w \in Windows : typed[v][w] = Runs(TypesStep(v, w), text[v][w], queue)
    /\ \A s \in Subjects : state[s] = Runs(HearsStep(s), seen[s], queue)
    /\ told = Runs(GetsStep, got, queue)

(* It says what the properties say.                                        *)
LEMMA Meaning == IInv => TypingPreserved /\ NewestArrives /\ NoObsolete /\ AllArrive
<1> SUFFICES ASSUME IInv PROVE TypingPreserved /\ NewestArrives /\ NoObsolete /\ AllArrive
  OBVIOUS
<1>0. /\ queue \in Seq(Messages)
      /\ \A v \in Views, w \in Windows : text[v][w] \in Buffers
      /\ \A s \in Subjects : seen[s] \in Nat
      /\ got \in Seq(Messages)
  BY DEF IInv, TypeInv
<1>1. TypingPreserved
  <2> SUFFICES ASSUME NEW v \in Views, NEW w \in Windows
               PROVE  typed[v][w] = After(LAMBDA b, m : Types(b, m, v, w), text[v][w], queue)
    BY DEF TypingPreserved
  <2>1. After(LAMBDA b, m : Types(b, m, v, w), text[v][w], queue)
          = Runs(TypesStep(v, w), text[v][w], queue)
    BY <1>0, TypesRuns
  <2>2. typed[v][w] = Runs(TypesStep(v, w), text[v][w], queue)
    BY DEF IInv
  <2> QED
    BY <2>1, <2>2
<1>2. NewestArrives
  <2> SUFFICES ASSUME NEW s \in Subjects
               PROVE  state[s] = After(LAMBDA old, m : Hears(old, m, s), seen[s], queue)
    BY DEF NewestArrives
  <2>1. After(LAMBDA old, m : Hears(old, m, s), seen[s], queue)
          = Runs(HearsStep(s), seen[s], queue)
    BY <1>0, HearsRuns
  <2>2. state[s] = Runs(HearsStep(s), seen[s], queue)
    BY DEF IInv
  <2> QED
    BY <2>1, <2>2
<1>3. NoObsolete
  BY DEF IInv, NoObsolete, NoObsoleteIn
<1>4. AllArrive
  BY <1>0, GetsRuns, Zenon DEF IInv, AllArrive
<1> QED
  BY <1>1, <1>2, <1>3, <1>4

(* A message is appended.                                                  *)
LEMMA Appending ==
    ASSUME NEW q \in Seq(Messages), NEW m \in Messages
    PROVE  /\ \A v, w : \A b \in Buffers :
                 Runs(TypesStep(v, w), b, Append(q, m)) = Types(Runs(TypesStep(v, w), b, q), m, v, w)
           /\ \A s : \A n \in Nat :
                 Runs(HearsStep(s), n, Append(q, m)) = Hears(Runs(HearsStep(s), n, q), m, s)
           /\ \A all \in Seq(Messages) :
                 Runs(GetsStep, all, Append(q, m)) = Gets(Runs(GetsStep, all, q), m)
<1>1. ASSUME NEW v, NEW w, NEW b \in Buffers
      PROVE  Runs(TypesStep(v, w), b, Append(q, m)) = Types(Runs(TypesStep(v, w), b, q), m, v, w)
  <2>1. IsStep(Buffers, Messages, TypesStep(v, w), b, q)
    BY TypesRuns
  <2>2. Runs(TypesStep(v, w), b, q) \in Buffers
    BY <2>1, RunsTyped
  <2>3. Runs(TypesStep(v, w), b, Append(q, m)) = TypesStep(v, w)[<<Runs(TypesStep(v, w), b, q), m>>]
    BY <2>1, RunsAppend
  <2>4. \A x \in Buffers : TypesStep(v, w)[<<x, m>>] = Types(x, m, v, w)
    BY DEF TypesStep
  <2> QED
    BY <2>2, <2>3, <2>4, Zenon
<1>2. ASSUME NEW s, NEW n \in Nat
      PROVE  Runs(HearsStep(s), n, Append(q, m)) = Hears(Runs(HearsStep(s), n, q), m, s)
  <2>1. IsStep(Nat, Messages, HearsStep(s), n, q)
    BY HearsRuns
  <2>2. Runs(HearsStep(s), n, q) \in Nat
    BY <2>1, RunsTyped
  <2>3. Runs(HearsStep(s), n, Append(q, m)) = HearsStep(s)[<<Runs(HearsStep(s), n, q), m>>]
    BY <2>1, RunsAppend
  <2>4. \A x \in Nat : HearsStep(s)[<<x, m>>] = Hears(x, m, s)
    BY DEF HearsStep
  <2> QED
    BY <2>2, <2>3, <2>4
<1>3. ASSUME NEW all \in Seq(Messages)
      PROVE  Runs(GetsStep, all, Append(q, m)) = Gets(Runs(GetsStep, all, q), m)
  <2>1. IsStep(Seq(Messages), Messages, GetsStep, all, q)
    BY GetsRuns
  <2>2. Runs(GetsStep, all, q) \in Seq(Messages)
    BY <2>1, RunsTyped
  <2>3. Runs(GetsStep, all, Append(q, m)) = GetsStep[<<Runs(GetsStep, all, q), m>>]
    BY <2>1, RunsAppend
  <2>4. \A x \in Seq(Messages) : GetsStep[<<x, m>>] = Gets(x, m)
    BY DEF GetsStep
  <2> QED
    BY <2>2, <2>3, <2>4
<1> QED
  BY <1>1, <1>2, <1>3

(* The first message is taken.                                             *)
LEMMA Taking ==
    ASSUME NEW q \in Seq(Messages), q # <<>>
    PROVE  /\ \A v, w : \A b \in Buffers :
                 Runs(TypesStep(v, w), b, q) = Runs(TypesStep(v, w), Types(b, Head(q), v, w), Tail(q))
           /\ \A s : \A n \in Nat :
                 Runs(HearsStep(s), n, q) = Runs(HearsStep(s), Hears(n, Head(q), s), Tail(q))
           /\ \A all \in Seq(Messages) :
                 Runs(GetsStep, all, q) = Runs(GetsStep, Gets(all, Head(q)), Tail(q))
<1>0. Head(q) \in Messages
  OBVIOUS
<1>1. ASSUME NEW v, NEW w, NEW b \in Buffers
      PROVE  Runs(TypesStep(v, w), b, q) = Runs(TypesStep(v, w), Types(b, Head(q), v, w), Tail(q))
  <2>1. IsStep(Buffers, Messages, TypesStep(v, w), b, q)
    BY TypesRuns
  <2>2. TypesStep(v, w)[<<b, Head(q)>>] = Types(b, Head(q), v, w)
    BY <1>0 DEF TypesStep
  <2> QED
    BY <2>1, <2>2, RunsTail
<1>2. ASSUME NEW s, NEW n \in Nat
      PROVE  Runs(HearsStep(s), n, q) = Runs(HearsStep(s), Hears(n, Head(q), s), Tail(q))
  <2>1. IsStep(Nat, Messages, HearsStep(s), n, q)
    BY HearsRuns
  <2>2. HearsStep(s)[<<n, Head(q)>>] = Hears(n, Head(q), s)
    BY <1>0 DEF HearsStep
  <2> QED
    BY <2>1, <2>2, RunsTail
<1>3. ASSUME NEW all \in Seq(Messages)
      PROVE  Runs(GetsStep, all, q) = Runs(GetsStep, Gets(all, Head(q)), Tail(q))
  <2>1. IsStep(Seq(Messages), Messages, GetsStep, all, q)
    BY GetsRuns
  <2>2. GetsStep[<<all, Head(q)>>] = Gets(all, Head(q))
    BY <1>0 DEF GetsStep
  <2> QED
    BY <2>1, <2>2, RunsTail
<1> QED
  BY <1>1, <1>2, <1>3

----------------------------------------------------------------------------
(* The steps.                                                              *)

(* The initial state: nothing is queued.                                   *)
LEMMA InitIInv == Init => IInv
<1> SUFFICES ASSUME Init PROVE IInv
  OBVIOUS
<1>0. <<>> \in Seq(Messages) /\ Nothing \in Buffers
  BY DEF Nothing, Buffers
<1>1. TypeInv
  BY <1>0 DEF Init, TypeInv
<1>2. NoObsoleteIn(queue)
  BY DEF Init, NoObsoleteIn
<1>3. ASSUME NEW v \in Views, NEW w \in Windows
      PROVE  typed[v][w] = Runs(TypesStep(v, w), text[v][w], queue)
  <2>1. text[v][w] \in Buffers /\ typed[v][w] = text[v][w] /\ queue = <<>>
    BY <1>1 DEF Init, TypeInv
  <2>2. IsStep(Buffers, Messages, TypesStep(v, w), text[v][w], <<>>)
    BY <1>0, <2>1, TypesRuns
  <2> QED
    BY <2>1, <2>2, RunsEmpty
<1>4. ASSUME NEW s \in Subjects
      PROVE  state[s] = Runs(HearsStep(s), seen[s], queue)
  <2>1. seen[s] \in Nat /\ state[s] = seen[s] /\ queue = <<>>
    BY <1>1 DEF Init, TypeInv
  <2>2. IsStep(Nat, Messages, HearsStep(s), seen[s], <<>>)
    BY <1>0, <2>1, HearsRuns
  <2> QED
    BY <2>1, <2>2, RunsEmpty
<1>5. told = Runs(GetsStep, got, queue)
  <2>1. got \in Seq(Messages) /\ told = got /\ queue = <<>>
    BY <1>1 DEF Init, TypeInv
  <2>2. IsStep(Seq(Messages), Messages, GetsStep, got, <<>>)
    BY Zenon, <1>0, <2>1, GetsRuns
  <2> QED
    BY <2>1, <2>2, RunsEmpty
<1> QED
  BY <1>1, <1>2, <1>3, <1>4, <1>5, Zenon DEF IInv

(* The texts, after the input m.                                           *)
IsTyped(old, new, m) == new = [old EXCEPT ![m.view][m.window] = Apply(@, m)]

(* Only the text of its window changes.                                    *)
LEMMA Typing ==
    ASSUME NEW m \in Messages, IsTyping(m), NEW old \in [Views -> [Windows -> Buffers]],
           NEW new, IsTyped(old, new, m)
    PROVE  /\ new \in [Views -> [Windows -> Buffers]]
           /\ \A x \in Views, y \in Windows : new[x][y] = Types(old[x][y], m, x, y)
<1> DEFINE v == m.view
           w == m.window
<1>0. v \in Views /\ w \in Windows
  BY Kinds DEF IsTyping, Texts, Removals, Events
<1>1. new = [old EXCEPT ![v][w] = Apply(old[v][w], m)]
  BY DEF IsTyped
<1> HIDE DEF v, w
<1>2. Apply(old[v][w], m) \in Buffers
  BY <1>0, ApplyTyped
<1>3. new \in [Views -> [Windows -> Buffers]]
  BY <1>0, <1>1, <1>2
<1>4. ASSUME NEW x \in Views, NEW y \in Windows
      PROVE  new[x][y] = IF x = v /\ y = w THEN Apply(old[v][w], m) ELSE old[x][y]
  BY <1>0, <1>1
<1> QED
  BY <1>3, <1>4 DEF Types, v, w

(* Input that may be merged.                                               *)
LEMMA MergingInput ==
    ASSUME IInv, NEW v \in Views, NEW w \in Windows, NEW m \in Messages,
           m.kind \in {"text", "remove"}, m.view = v, m.window = w,
           puts' \in Nat, queue' = Combine(queue, m),
           typed' = [typed EXCEPT ![v][w] = Apply(@, m)],
           UNCHANGED <<text, state, seen, told, got>>
    PROVE  IInv'
<1>0. TypeInv /\ queue \in Seq(Messages) /\ NoObsoleteIn(queue)
  BY DEF IInv, TypeInv
<1>1. queue' \in Seq(Messages) /\ NoObsoleteIn(queue')
  BY <1>0, ObsoleteCombined
<1>2. /\ typed' \in [Views -> [Windows -> Buffers]]
      /\ \A x \in Views, y \in Windows : typed'[x][y] = Types(typed[x][y], m, x, y)
  <2>1. typed \in [Views -> [Windows -> Buffers]] /\ IsTyping(m)
    BY <1>0 DEF TypeInv, IsTyping
  <2>2. IsTyped(typed, typed', m)
    BY DEF IsTyped
  <2> QED
    BY <2>1, <2>2, Typing
<1>3. TypeInv'
  BY <1>0, <1>1, <1>2 DEF TypeInv
<1>4. ASSUME NEW x \in Views, NEW y \in Windows
      PROVE  typed'[x][y] = Runs(TypesStep(x, y), text'[x][y], queue')
  <2>1. text[x][y] \in Buffers
    BY <1>0 DEF TypeInv
  <2>2. typed[x][y] = Runs(TypesStep(x, y), text[x][y], queue)
    BY DEF IInv
  <2>3. Runs(TypesStep(x, y), text[x][y], Combine(queue, m))
          = Types(Runs(TypesStep(x, y), text[x][y], queue), m, x, y)
    BY <1>0, <2>1, CombineTypes
  <2> QED
    BY <1>2, <2>2, <2>3, ZenonT(60)
<1>5. ASSUME NEW s \in Subjects
      PROVE  state'[s] = Runs(HearsStep(s), seen'[s], queue')
  <2>1. seen[s] \in Nat
    BY <1>0 DEF TypeInv
  <2>2. IsStep(Nat, Messages, HearsStep(s), seen[s], queue)
    BY <1>0, <2>1, HearsRuns
  <2>3. \A x \in Messages : Merges(m, x) => \A y \in Nat : HearsStep(s)[<<y, x>>] = y
    BY DEF HearsStep, Hears, IsState, Merges
  <2>4. Runs(HearsStep(s), seen[s], Combine(queue, m)) = Runs(HearsStep(s), seen[s], queue)
    BY <2>2, <2>3, CombineSkips
  <2> QED
    BY <2>4 DEF IInv
<1>6. told' = Runs(GetsStep, got', queue')
  <2>1. IsStep(Seq(Messages), Messages, GetsStep, got, queue)
    BY <1>0, GetsRuns, Zenon DEF TypeInv
  <2>2. \A x \in Messages : Merges(m, x) => \A y \in Seq(Messages) : GetsStep[<<y, x>>] = y
    BY DEF GetsStep, Gets, IsKept, Merges
  <2>3. Runs(GetsStep, got, Combine(queue, m)) = Runs(GetsStep, got, queue)
    BY <2>1, <2>2, CombineSkips
  <2> QED
    BY <2>3 DEF IInv
<1> QED
  BY <1>1, <1>3, <1>4, <1>5, <1>6, Zenon DEF IInv

(* A message that is kept.                                                 *)
LEMMA KeptMessage ==
    ASSUME IInv, NEW m \in Messages, IsKept(m), puts' \in Nat,
           m.kind = "callback" => \A i \in DOMAIN queue : ~Obsoletes(m, queue[i]),
           queue' = Append(queue, m), told' = Append(told, m),
           typed' \in [Views -> [Windows -> Buffers]],
           \A x \in Views, y \in Windows : typed'[x][y] = Types(typed[x][y], m, x, y),
           UNCHANGED <<text, state, seen, got>>
    PROVE  IInv'
<1>0. TypeInv /\ queue \in Seq(Messages) /\ NoObsoleteIn(queue) /\ told \in Seq(Messages)
  BY DEF IInv, TypeInv
<1>1. queue' \in Seq(Messages) /\ NoObsoleteIn(queue')
  BY <1>0, ObsoleteAppended
<1>2. told' \in Seq(Messages)
  BY <1>0
<1>3. TypeInv'
  BY <1>0, <1>1, <1>2 DEF TypeInv
<1>4. ASSUME NEW x \in Views, NEW y \in Windows
      PROVE  typed'[x][y] = Runs(TypesStep(x, y), text'[x][y], queue')
  <2>1. text[x][y] \in Buffers
    BY <1>0 DEF TypeInv
  <2>2. typed[x][y] = Runs(TypesStep(x, y), text[x][y], queue)
    BY Zenon DEF IInv
  <2>3. Runs(TypesStep(x, y), text[x][y], Append(queue, m))
          = Types(Runs(TypesStep(x, y), text[x][y], queue), m, x, y)
    BY <1>0, <2>1, Appending
  <2> QED
    BY <2>2, <2>3, Zenon
<1>5. ASSUME NEW s \in Subjects
      PROVE  state'[s] = Runs(HearsStep(s), seen'[s], queue')
  <2>1. seen[s] \in Nat
    BY <1>0, Zenon DEF TypeInv
  <2>2. state[s] = Runs(HearsStep(s), seen[s], queue)
    BY Zenon DEF IInv
  <2>3. Runs(HearsStep(s), seen[s], Append(queue, m)) = Hears(state[s], m, s)
    <3>1. Runs(HearsStep(s), seen[s], Append(queue, m))
            = Hears(Runs(HearsStep(s), seen[s], queue), m, s)
      BY <1>0, <2>1, Appending, ZenonT(60)
    <3> QED
      BY Zenon, <2>2, <3>1
  <2> QED
    BY ZenonT(30), <2>3 DEF Hears, IsKept
<1>6. told' = Runs(GetsStep, got', queue')
  <2>1. got \in Seq(Messages) /\ told = Runs(GetsStep, got, queue)
    BY Zenon DEF IInv, TypeInv
  <2>2. Runs(GetsStep, got, Append(queue, m)) = Gets(told, m)
    BY ZenonT(30), <1>0, <2>1, Appending
  <2> QED
    BY <2>2 DEF Gets
<1> QED
  BY <1>1, <1>3, <1>4, <1>5, <1>6, Zenon DEF IInv

(* What a user types.                                                      *)
LEMMA PutTextIInv ==
    ASSUME IInv, NEW v \in Views, NEW w \in Windows, PutText(v, w)
    PROVE  IInv'
<1>0. puts \in Nat /\ puts' = puts + 1 /\ puts' \in Nat /\ TypeInv
  BY DEF IInv, TypeInv, PutText
<1>1. ASSUME NEW m \in {Input("text", v, w, <<puts'>>), Input("remove", v, w, <<1, 0>>),
                        Input("remove", v, w, <<0, 1>>)},
             queue' = Combine(queue, m), typed' = [typed EXCEPT ![v][w] = Apply(@, m)],
             UNCHANGED <<told, text, state, seen, got>>
      PROVE  IInv'
  <2>1. m \in Texts \/ m \in Removals
    <3>1. Input("text", v, w, <<puts'>>) \in Texts
      BY <1>0 DEF Texts, Input
    <3>2. /\ Input("remove", v, w, <<1, 0>>) \in Removals
          /\ Input("remove", v, w, <<0, 1>>) \in Removals
      BY DEF Removals, Input
    <3> QED
      BY <1>1, <3>1, <3>2
  <2>2. m \in Messages
    BY <2>1 DEF Messages
  <2>3. m.kind \in {"text", "remove"} /\ m.view = v /\ m.window = w
    BY <1>1 DEF Input
  <2> QED
    BY ZenonT(30), <1>0, <1>1, <2>2, <2>3, MergingInput
<1>2. ASSUME NEW m, m = Input("event", v, w, <<puts'>>),
             queue' = Append(queue, m), typed' = [typed EXCEPT ![v][w] = Apply(@, m)],
             told' = Append(told, m), UNCHANGED <<text, state, seen, got>>
      PROVE  IInv'
  <2>1. m \in Events
    BY <1>0, <1>2 DEF Events, Input
  <2>2. m \in Messages
    BY <2>1 DEF Messages
  <2>3. m.kind = "event" /\ m.view = v /\ m.window = w /\ IsKept(m)
    BY <1>2 DEF Input, IsKept, IsState
  <2>4. /\ typed' \in [Views -> [Windows -> Buffers]]
        /\ \A x \in Views, y \in Windows : typed'[x][y] = Types(typed[x][y], m, x, y)
    <3>1. typed \in [Views -> [Windows -> Buffers]] /\ IsTyping(m)
      BY <1>0, <2>3 DEF TypeInv, IsTyping
    <3>2. IsTyped(typed, typed', m)
      BY ZenonT(30), <1>2, <2>3 DEF IsTyped
    <3> QED
      BY <2>2, <3>1, <3>2, Typing
  <2> QED
    BY <1>0, <1>2, <2>2, <2>3, <2>4, KeptMessage, Zenon
<1> QED
  BY <1>1, <1>2, Zenon DEF PutText

(* Messages that are kept as they are.                                     *)
LEMMA PutOtherIInv ==
    ASSUME IInv, NEW v \in Views, PutOther(v)
    PROVE  IInv'
<1>0. puts \in Nat /\ puts' = puts + 1 /\ puts' \in Nat /\ TypeInv /\ queue \in Seq(Messages)
  BY DEF IInv, TypeInv, PutOther
<1>1. PICK m \in {Input("other", v, 0, <<puts'>>),
                  Callback(v, "state", "ModifiedStatus", <<puts'>>),
                  Callback(v, "other", "none", <<puts'>>)} :
          /\ queue' = Append(IF m.kind = "callback" THEN RemoveCallbackDuplicate(queue, m)
                             ELSE queue, m)
          /\ told' = Append(told, m)
  BY Zenon DEF PutOther
<1>2. UNCHANGED <<typed, text, state, seen, got>>
  BY DEF PutOther
<1>3. m \in Messages
  <2>1. Input("other", v, 0, <<puts'>>) \in Others
    BY <1>0 DEF Others, Input
  <2>2. /\ Callback(v, "state", "ModifiedStatus", <<puts'>>) \in Callbacks
        /\ Callback(v, "other", "none", <<puts'>>) \in Callbacks
    BY <1>0 DEF Callbacks, Callback
  <2> QED
    BY <1>1, <2>1, <2>2 DEF Messages
<1>4. IsKept(m) /\ ~IsTyping(m)
  BY <1>1, StatesAssumption DEF IsKept, IsState, IsTyping, Input, Callback, Subject, Subjects
<1>5. m.kind = "callback" => \A x : ~Obsoletes(m, x)
  BY <1>1 DEF Input, Callback, Obsoletes
<1>6. queue' = Append(queue, m)
  BY ZenonT(30), <1>0, <1>1, <1>5, Duplicates
<1>7. /\ typed' \in [Views -> [Windows -> Buffers]]
      /\ \A x \in Views, y \in Windows : typed'[x][y] = Types(typed[x][y], m, x, y)
  BY <1>0, <1>2, <1>4 DEF TypeInv, Types
<1> QED
  BY <1>0, <1>1, <1>2, <1>3, <1>4, <1>5, <1>6, <1>7, KeptMessage, Zenon

(* A state is reported.                                                    *)
LEMMA PutStateIInv ==
    ASSUME IInv, NEW s \in Subjects, PutState(s)
    PROVE  IInv'
<1> DEFINE m == Callback(s.view, s.type, s.about, <<puts'>>)
           r == RemoveCallbackDuplicate(queue, m)
<1>0. /\ puts \in Nat /\ puts' = puts + 1 /\ puts' \in Nat /\ TypeInv
      /\ queue \in Seq(Messages) /\ NoObsoleteIn(queue)
  BY DEF IInv, TypeInv, PutState
<1>1. /\ queue' = Append(r, m)
      /\ state' = [state EXCEPT ![s] = puts']
      /\ UNCHANGED <<typed, text, seen, told, got>>
  BY DEF PutState
<1>2. m \in Callbacks /\ m \in Messages
  <2>1. m \in Callbacks
    BY <1>0 DEF Callbacks, Callback, Subjects
  <2> QED
    BY <2>1 DEF Messages
<1>3. m.kind = "callback" /\ Subject(m) = s /\ m.arg[1] = puts' /\ IsState(m)
  <2>1. m.kind = "callback" /\ m.arg[1] = puts' /\ m.view = s.view /\ m.type = s.type
        /\ m.about = s.about
    BY DEF Callback
  <2>2. Subject(m) = s
    BY <2>1, Zenon DEF Subject, Subjects
  <2> QED
    BY <2>1, <2>2, Zenon DEF IsState
<1>4. \A x : Obsoletes(m, x) => x.kind = "callback" /\ Subject(x) = s
  BY <1>3, Zenon DEF Obsoletes, IsDuplicate, Subject
<1> HIDE DEF m
<1>5. r \in Seq(Messages) /\ NoObsoleteIn(queue')
  BY <1>0, <1>1, <1>2, ObsoletePut
<1>6. queue' \in Seq(Messages)
  BY <1>1, <1>2, <1>5
<1>7. TypeInv'
  BY <1>0, <1>1, <1>6 DEF TypeInv
<1>8. ASSUME NEW x \in Views, NEW y \in Windows
      PROVE  typed'[x][y] = Runs(TypesStep(x, y), text'[x][y], queue')
  <2>1. text[x][y] \in Buffers
    BY <1>0 DEF TypeInv
  <2>2. IsStep(Buffers, Messages, TypesStep(x, y), text[x][y], queue)
    BY <1>0, <2>1, TypesRuns
  <2>3. \A z \in Messages : Obsoletes(m, z) => \A b \in Buffers : TypesStep(x, y)[<<b, z>>] = b
    BY <1>4 DEF TypesStep, Types, IsTyping
  <2>4. Runs(TypesStep(x, y), text[x][y], r) = Runs(TypesStep(x, y), text[x][y], queue)
    BY <2>2, <2>3, DuplicatesSkipped
  <2> HIDE DEF r
  <2>5. Runs(TypesStep(x, y), text[x][y], Append(r, m))
          = Types(Runs(TypesStep(x, y), text[x][y], r), m, x, y)
    BY <1>2, <1>5, <2>1, Appending
  <2>6. \A b : Types(b, m, x, y) = b
    BY <1>3 DEF Types, IsTyping
  <2> QED
    BY ZenonT(30), <1>1, <2>4, <2>5, <2>6 DEF IInv
<1>9. ASSUME NEW t \in Subjects
      PROVE  state'[t] = Runs(HearsStep(t), seen'[t], queue')
  <2>1. seen[t] \in Nat /\ state' \in [Subjects -> Nat]
    BY <1>0, <1>7 DEF TypeInv
  <2> HIDE DEF r
  <2>2. Runs(HearsStep(t), seen[t], Append(r, m)) = Hears(Runs(HearsStep(t), seen[t], r), m, t)
    BY <1>2, <1>5, <2>1, Appending
  <2>3. CASE t = s
    <3>1. Hears(Runs(HearsStep(t), seen[t], r), m, t) = puts'
      BY <1>3, <2>3 DEF Hears
    <3>2. state'[t] = puts'
      BY <1>0, <1>1, <2>3 DEF TypeInv
    <3> QED
      BY <1>1, <2>2, <3>1, <3>2
  <2>4. CASE t # s
    <3>1. IsStep(Nat, Messages, HearsStep(t), seen[t], queue)
      BY <1>0, <2>1, HearsRuns
    <3>2. \A z \in Messages : Obsoletes(m, z) => \A n \in Nat : HearsStep(t)[<<n, z>>] = n
      BY <1>4, <2>4, Zenon DEF HearsStep, Hears
    <3>3. Runs(HearsStep(t), seen[t], r) = Runs(HearsStep(t), seen[t], queue)
      BY <3>1, <3>2, DuplicatesSkipped DEF r
    <3>4. \A n : Hears(n, m, t) = n
      BY <1>3, <2>4 DEF Hears
    <3>5. state'[t] = state[t]
      BY <1>0, <1>1, <2>4 DEF TypeInv
    <3> QED
      BY <1>1, <2>2, <3>3, <3>4, <3>5, Zenon DEF IInv
  <2> QED
    BY <2>3, <2>4
<1>10. told' = Runs(GetsStep, got', queue')
  <2>1. got \in Seq(Messages)
    BY <1>0 DEF TypeInv
  <2>2. IsStep(Seq(Messages), Messages, GetsStep, got, queue)
    BY <1>0, <2>1, GetsRuns
  <2>3. \A z \in Messages : Obsoletes(m, z) => \A all \in Seq(Messages) : GetsStep[<<all, z>>] = all
    BY <1>4 DEF GetsStep, Gets, IsKept, IsState
  <2>4. Runs(GetsStep, got, r) = Runs(GetsStep, got, queue)
    BY <2>2, <2>3, DuplicatesSkipped
  <2> HIDE DEF r
  <2>5. Runs(GetsStep, got, Append(r, m)) = Gets(Runs(GetsStep, got, r), m)
    BY <1>2, <1>5, <2>1, Appending
  <2>6. \A all : Gets(all, m) = all
    BY <1>3, Zenon DEF Gets, IsKept
  <2> QED
    BY <1>1, <2>4, <2>5, <2>6, Zenon DEF IInv
<1> QED
  BY ZenonT(30), <1>5, <1>7, <1>8, <1>9, <1>10 DEF IInv

(* A message is taken.                                                     *)
LEMMA PopIInv ==
    ASSUME IInv, Pop
    PROVE  IInv'
<1> DEFINE m == Head(queue)
<1>0. TypeInv /\ queue \in Seq(Messages) /\ NoObsoleteIn(queue) /\ queue # <<>>
  BY Zenon DEF IInv, TypeInv, Pop
<1>1. /\ text' = IF IsTyping(m) THEN [text EXCEPT ![m.view][m.window] = Apply(@, m)] ELSE text
      /\ seen' = IF IsState(m) THEN [seen EXCEPT ![Subject(m)] = m.arg[1]] ELSE seen
      /\ got' = IF IsKept(m) THEN Append(got, m) ELSE got
      /\ queue' = Tail(queue)
      /\ UNCHANGED <<puts, typed, state, told>>
  BY Zenon DEF Pop
<1>2. m \in Messages /\ queue' \in Seq(Messages)
  BY <1>0, <1>1
<1>3. NoObsoleteIn(queue')
  <2>1. \A i \in DOMAIN Tail(queue) :
            i \in Nat /\ i + 1 \in DOMAIN queue /\ Tail(queue)[i] = queue[i + 1]
    BY <1>0
  <2>2. \A i, j \in DOMAIN Tail(queue) : i < j => i + 1 < j + 1
    BY <2>1
  <2> QED
    BY <1>0, <1>1, <2>1, <2>2 DEF NoObsoleteIn
<1> HIDE DEF m
<1>4. /\ text' \in [Views -> [Windows -> Buffers]]
      /\ \A x \in Views, y \in Windows : text'[x][y] = Types(text[x][y], m, x, y)
  <2>1. text \in [Views -> [Windows -> Buffers]]
    BY <1>0 DEF TypeInv
  <2>2. CASE IsTyping(m)
    <3>1. IsTyped(text, text', m)
      BY <1>1, <2>2 DEF IsTyped
    <3> QED
      BY <1>2, <2>1, <2>2, <3>1, Typing
  <2>3. CASE ~IsTyping(m)
    BY <1>1, <2>1, <2>3, Zenon DEF Types
  <2> QED
    BY <2>2, <2>3, Zenon
<1>5. /\ seen' \in [Subjects -> Nat]
      /\ \A s \in Subjects : seen'[s] = Hears(seen[s], m, s)
  <2>1. seen \in [Subjects -> Nat]
    BY <1>0 DEF TypeInv
  <2>2. CASE IsState(m)
    <3>1. m.arg[1] \in Nat /\ Subject(m) \in Subjects
      BY <1>2, <2>2, Kinds DEF IsState, Callbacks
    <3> QED
      BY <1>1, <2>1, <2>2, <3>1 DEF Hears
  <2>3. CASE ~IsState(m)
    BY <1>1, <2>1, <2>3 DEF Hears
  <2> QED
    BY <2>2, <2>3
<1>6. got' \in Seq(Messages) /\ got' = Gets(got, m)
  <2>1. got \in Seq(Messages)
    BY <1>0 DEF TypeInv
  <2> QED
    BY <1>1, <1>2, <2>1 DEF Gets
<1>7. TypeInv'
  BY <1>0, <1>1, <1>2, <1>4, <1>5, <1>6, Zenon DEF TypeInv
<1>8. ASSUME NEW x \in Views, NEW y \in Windows
      PROVE  typed'[x][y] = Runs(TypesStep(x, y), text'[x][y], queue')
  <2>1. text[x][y] \in Buffers
    BY <1>0 DEF TypeInv
  <2>2. Runs(TypesStep(x, y), text[x][y], queue)
          = Runs(TypesStep(x, y), Types(text[x][y], m, x, y), Tail(queue))
    BY <1>0, <2>1, Taking, ZenonT(60) DEF m
  <2> QED
    BY ZenonT(30), <1>1, <1>4, <2>2 DEF IInv
<1>9. ASSUME NEW s \in Subjects
      PROVE  state'[s] = Runs(HearsStep(s), seen'[s], queue')
  <2>1. seen[s] \in Nat
    BY <1>0 DEF TypeInv
  <2>2. Runs(HearsStep(s), seen[s], queue) = Runs(HearsStep(s), Hears(seen[s], m, s), Tail(queue))
    BY <1>0, <2>1, Taking DEF m
  <2> QED
    BY <1>1, <1>5, <2>2, Zenon DEF IInv
<1>10. told' = Runs(GetsStep, got', queue')
  <2>1. got \in Seq(Messages)
    BY <1>0 DEF TypeInv
  <2>2. Runs(GetsStep, got, queue) = Runs(GetsStep, Gets(got, m), Tail(queue))
    BY <1>0, <2>1, Taking DEF m
  <2> QED
    BY ZenonT(30), <1>1, <1>6, <2>2 DEF IInv
<1> QED
  BY <1>3, <1>7, <1>8, <1>9, <1>10, Zenon DEF IInv

(* Every step keeps the invariant.                                         *)
LEMMA Invariance == Spec => []IInv
<1>1. IInv /\ [Next]_vars => IInv'
  <2> SUFFICES ASSUME IInv, [Next]_vars PROVE IInv'
    OBVIOUS
  <2>1. CASE UNCHANGED vars
    BY <2>1, Zenon DEF vars, IInv, TypeInv
  <2>2. CASE Next
    BY <2>2, PutTextIInv, PutStateIInv, PutOtherIInv, PopIInv, Zenon DEF Next
  <2> QED
    BY <2>1, <2>2
<1> QED
  BY <1>1, InitIInv, PTL DEF Spec

(* Merging the input in the queue, combineTextInput() and                  *)
(* combineRemoveText(), changes no text: whatever the users of the views   *)
(* type and remove, in whatever windows and whenever the Kit takes it, the *)
(* windows get what was typed, as it was typed.                            *)
THEOREM TypingSafety == Spec => []TypingPreserved
  BY Invariance, Meaning, PTL

(* removeCallbackDuplicate() drops no callback that a session still needs: *)
(* the last state that it hears of is the last that was reported.          *)
THEOREM NewestSafety == Spec => []NewestArrives
  BY Invariance, Meaning, PTL

(* removeCallbackDuplicate() removes only the first duplicate that it      *)
(* meets, and still no obsolete callback stays queued.                     *)
THEOREM ObsoleteSafety == Spec => []NoObsolete
  BY Invariance, Meaning, PTL

(* Events, other commands, other callbacks and every ModifiedStatus arrive *)
(* once and in the order in which they were put.                           *)
THEOREM ArrivalSafety == Spec => []AllArrive
  BY Invariance, Meaning, PTL
=============================================================================
