-------------------------- MODULE ThreadPoolProofs --------------------------
(***************************************************************************)
(* ThreadPool, for any number of workers and any amount of work: outside   *)
(* of run() no thread works, and the pool implements RenderBatch.  A pool  *)
(* of one worker needs waits that only return when notified: run() does    *)
(* not wait for the only worker.                                           *)
(***************************************************************************)
EXTENDS ThreadPool, FiniteSetTheorems, TLAPS

(* What the number of workers has to be.  A single worker is what a Kit    *)
(* gets with max_concurrency 2, and on a host with two hardware threads,   *)
(* to which the configured number is clamped.                              *)
EnoughWorkers == Spurious => Cardinality(Workers) # 1

Busy == {t \in Threads : InRunOne(t)}

(* _working counts the threads in runOne().                                *)
Counting == working = Cardinality(Busy)

(* Each piece of work that was taken is being done, by one thread, or done.*)
Items ==
    /\ done \subseteq 1..taken
    /\ \A t \in Threads : pc[t] = "run" => item[t] \in 1..taken /\ item[t] \notin done
    /\ \A t, u \in Threads : pc[t] = "run" /\ pc[u] = "run" /\ t # u => item[t] # item[u]
    /\ \A i \in 1..taken : i \in done \/ \E t \in Threads : pc[t] = "run" /\ item[t] = i

(* Where the threads are when run() runs, and when not.                    *)
Phases ==
    /\ running <=> pc[Main] \in {"run", "ran", "complete"}
    /\ shutdown => pc[Main] \in {"joining", "stopped"}
    /\ ~running => \A w \in Workers : ~InRunOne(w)

(* run() that does not use the workers has no worker working: there is no  *)
(* more work, or at most one worker, which is not woken.                   *)
NoneWoken == \A w \in Workers : pc[w] # "woken"
Alone ==
    /\ running /\ ~useThreads => \A w \in Workers : ~InRunOne(w)
    /\ running /\ ~useThreads => Empty \/ Cardinality(Workers) <= 1
    /\ Cardinality(Workers) <= 1 /\ ~shutdown => NoneWoken

IndInv == TypeOK /\ Counting /\ Items /\ Phases /\ Alone

----------------------------------------------------------------------------
(* Counting.                                                               *)

LEMMA BusyFinite == IsFiniteSet(Busy)
<1>1. IsFiniteSet(Threads)
  BY PoolAssumption, FS_AddElement DEF Threads
<1>2. Busy \subseteq Threads
  BY DEF Busy
<1> QED
  BY <1>1, <1>2, FS_Subset

(* A thread that enters runOne() is counted.                               *)
LEMMA Enters ==
  ASSUME Counting, NEW t, t \notin Busy, Busy' = Busy \cup {t}, working' = working + 1
  PROVE  Counting'
BY BusyFinite, FS_AddElement DEF Counting

(* A thread that leaves runOne() was counted, and is no longer.            *)
LEMMA Leaves ==
  ASSUME Counting, NEW t, t \in Busy, Busy' = Busy \ {t}, working' = working - 1
  PROVE  Counting' /\ working' \in Nat
<1>1. Cardinality(Busy \ {t}) = Cardinality(Busy) - 1 /\ IsFiniteSet(Busy \ {t})
  BY BusyFinite, FS_RemoveElement
<1>2. Cardinality(Busy \ {t}) \in Nat
  BY <1>1, FS_CardinalityType
<1> QED
  BY <1>1, <1>2 DEF Counting

(* Then as many threads as are in runOne() are working, none if there are  *)
(* none; a thread in runOne() is one.                                      *)
LEMMA NobodyBusy ==
  ASSUME Counting
  PROVE  working = 0 <=> \A t \in Threads : ~InRunOne(t)
<1>1. Cardinality(Busy) = 0 <=> Busy = {}
  BY BusyFinite, FS_EmptySet
<1> QED
  BY <1>1 DEF Counting, Busy

LEMMA OnlyMainBusy ==
  ASSUME Counting, Main \in Busy, working - 1 = 0
  PROVE  \A w \in Workers : ~InRunOne(w)
<1>1. Cardinality(Busy \ {Main}) = 0 /\ IsFiniteSet(Busy \ {Main})
  BY BusyFinite, FS_RemoveElement DEF Counting
<1>2. Busy \ {Main} = {}
  BY <1>1, FS_EmptySet
<1> QED
  BY <1>2, PoolAssumption DEF Busy, Threads

LEMMA CountingStep ==
  ASSUME IndInv, Next
  PROVE  Counting'
<1> USE DEF IndInv
<1>0. Main \in Threads /\ Workers \subseteq Threads /\ \A w \in Workers : w # Main
  BY PoolAssumption DEF Threads
<1>1. ASSUME \A t \in Threads : InRunOne(t)' <=> InRunOne(t), working' = working
      PROVE  Counting'
  <2>1. Busy' = Busy
    BY <1>1 DEF Busy
  <2> QED
    BY <2>1, <1>1 DEF Counting
<1>2. ASSUME NEW t \in Threads, ~InRunOne(t), InRunOne(t)', working' = working + 1,
             \A u \in Threads \ {t} : InRunOne(u)' <=> InRunOne(u)
      PROVE  Counting'
  <2>1. t \notin Busy /\ Busy' = Busy \cup {t}
    BY <1>2 DEF Busy
  <2> QED
    BY <2>1, <1>2, Enters
<1>3. ASSUME NEW t \in Threads, InRunOne(t), ~InRunOne(t)', working' = working - 1,
             \A u \in Threads \ {t} : InRunOne(u)' <=> InRunOne(u)
      PROVE  Counting'
  <2>1. t \in Busy /\ Busy' = Busy \ {t}
    BY <1>3 DEF Busy
  <2> QED
    BY <2>1, <1>3, Leaves
<1>4. CASE Push \/ Join \/ Stop \/ MainWakes
  BY <1>0, <1>1, <1>4 DEF Push, Join, Stop, MainWakes, InRunOne, Woken, TypeOK
<1>5. CASE Run
  BY <1>0, <1>2, <1>5, Zenon DEF Run, Takes, InRunOne, Woken, TypeOK
<1>6. CASE MainTakes
  BY <1>0, <1>1, <1>6 DEF MainTakes, Takes, InRunOne, TypeOK
<1>7. CASE MainWaits \/ MainReturns
  BY <1>0, <1>3, <1>7 DEF MainWaits, MainReturns, InRunOne, TypeOK
<1>8. ASSUME NEW w \in Workers, WorkerStarts(w) \/ WakesSpuriously(w) \/ WorkerWaits(w)
      PROVE  Counting'
  BY <1>0, <1>1, <1>8 DEF WorkerStarts, WakesSpuriously, WorkerWaits, Waits, InRunOne, TypeOK
<1>9. ASSUME NEW w \in Workers, WorkerTakes(w)
      PROVE  Counting'
  BY <1>0, <1>2, <1>9 DEF WorkerTakes, Takes, InRunOne, TypeOK
<1>10. ASSUME NEW w \in Workers, WorkerTakesNext(w)
       PROVE  Counting'
  BY <1>0, <1>1, <1>10 DEF WorkerTakesNext, Takes, InRunOne, TypeOK
<1>11. ASSUME NEW w \in Workers, WorkerEnds(w)
       PROVE  Counting'
  BY <1>0, <1>3, <1>11 DEF WorkerEnds, Waits, InRunOne, TypeOK
<1>12. ASSUME NEW t \in Threads, FnEnds(t)
       PROVE  Counting'
  BY <1>1, <1>12 DEF FnEnds, InRunOne, TypeOK
<1> QED
  BY <1>4, <1>5, <1>6, <1>7, <1>8, <1>9, <1>10, <1>11, <1>12 DEF Next, MainStep, WorkerStep

----------------------------------------------------------------------------
(* Types.                                                                  *)

LEMMA TypeStep ==
  ASSUME IndInv, Next
  PROVE  TypeOK'
<1> USE DEF IndInv
<1>0. Main \in Threads /\ Workers \subseteq Threads /\ \A w \in Workers : w # Main
  BY PoolAssumption DEF Threads
<1>1. ASSUME NEW t \in Threads, InRunOne(t)
      PROVE  working - 1 \in Nat
  <2>1. t \in Busy
    BY <1>1 DEF Busy
  <2>2. Cardinality(Busy \ {t}) = Cardinality(Busy) - 1 /\ IsFiniteSet(Busy \ {t})
    BY <2>1, BusyFinite, FS_RemoveElement
  <2> QED
    BY <2>2, FS_CardinalityType DEF Counting
<1>2. CASE Push \/ Join \/ Stop \/ MainWakes
  <2>1. CASE Push
    BY <2>1 DEF Push, TypeOK
  <2>2. CASE Join
    BY <1>0, <2>2 DEF Join, TypeOK, MainStates, WorkerStates
  <2>3. CASE Stop
    BY <1>0, <2>3 DEF Stop, Woken, TypeOK, MainStates, WorkerStates
  <2>4. CASE MainWakes
    BY <1>0, <2>4, Zenon DEF MainWakes, TypeOK, MainStates, WorkerStates
  <2> QED
    BY <1>2, <2>1, <2>2, <2>3, <2>4
<1>3. CASE Run
  <2>1. UseThreads \in BOOLEAN
    BY DEF UseThreads
  <2> QED
    BY <1>0, <1>3, <2>1 DEF Run, Takes, Woken, Empty, TypeOK, MainStates, WorkerStates
<1>4. CASE MainTakes
  BY <1>0, <1>1, <1>4 DEF MainTakes, Takes, Empty, InRunOne, TypeOK, MainStates, WorkerStates
<1>5. CASE MainWaits \/ MainReturns
  BY <1>0, <1>1, <1>5, Zenon DEF MainWaits, MainReturns, InRunOne, TypeOK, MainStates, WorkerStates
<1>6. ASSUME NEW w \in Workers, WorkerStarts(w) \/ WakesSpuriously(w) \/ WorkerWaits(w)
      PROVE  TypeOK'
  BY <1>0, <1>6, ZenonT(60) DEF WorkerStarts, WakesSpuriously, WorkerWaits, Waits, TypeOK, MainStates, WorkerStates
<1>7. ASSUME NEW w \in Workers, WorkerTakes(w)
      PROVE  TypeOK'
  BY <1>0, <1>7 DEF WorkerTakes, Takes, MayTake, Empty, TypeOK, MainStates, WorkerStates
<1>8. ASSUME NEW w \in Workers, WorkerTakesNext(w)
      PROVE  TypeOK'
  BY <1>0, <1>1, <1>8
     DEF WorkerTakesNext, Takes, MayTake, Empty, InRunOne, TypeOK, MainStates, WorkerStates
<1>9. ASSUME NEW w \in Workers, WorkerEnds(w)
      PROVE  TypeOK'
  <2>1. notified' \in BOOLEAN
    BY <1>9 DEF WorkerEnds
  <2> QED
    BY <1>0, <1>1, <1>9, <2>1 DEF WorkerEnds, Waits, InRunOne, TypeOK, MainStates, WorkerStates
<1>10. ASSUME NEW t \in Threads, FnEnds(t)
       PROVE  TypeOK'
  BY <1>0, <1>10, Zenon DEF FnEnds, TypeOK, MainStates, WorkerStates
<1> QED
  BY <1>2, <1>3, <1>4, <1>5, <1>6, <1>7, <1>8, <1>9, <1>10 DEF Next, MainStep, WorkerStep

----------------------------------------------------------------------------
(* Work is done once.                                                      *)

(* A thread that takes work takes one that nobody took.                    *)
LEMMA ItemsTake ==
  ASSUME TypeOK, Items, NEW t \in Threads, pc[t] # "run",
         item' = [item EXCEPT ![t] = taken + 1], taken' = taken + 1, done' = done,
         pc'[t] = "run",
         \A u \in Threads \ {t} : pc'[u] = "run" <=> pc[u] = "run"
  PROVE  Items'
<1>1. \A u \in Threads \ {t} : item'[u] = item[u]
  BY DEF TypeOK
<1>2. item'[t] = taken + 1
  BY DEF TypeOK
<1>3. \A i \in 1..taken' : i \in 1..taken \/ i = taken + 1
  BY DEF TypeOK
<1>4. (done \subseteq 1..taken)'
  BY DEF Items, TypeOK
<1>5. (\A u \in Threads : pc[u] = "run" => item[u] \in 1..taken /\ item[u] \notin done)'
  BY <1>1, <1>2 DEF Items, TypeOK
<1>6. (\A u, v \in Threads : pc[u] = "run" /\ pc[v] = "run" /\ u # v => item[u] # item[v])'
  BY <1>1, <1>2 DEF Items, TypeOK
<1>7. (\A i \in 1..taken : i \in done \/ \E u \in Threads : pc[u] = "run" /\ item[u] = i)'
  BY <1>1, <1>2, <1>3 DEF Items
<1> QED
  BY <1>4, <1>5, <1>6, <1>7 DEF Items

LEMMA ItemsStep ==
  ASSUME IndInv, Next
  PROVE  Items'
<1> USE DEF IndInv
<1>0. Main \in Threads /\ Workers \subseteq Threads /\ \A w \in Workers : w # Main
  BY PoolAssumption DEF Threads
<1>1. ASSUME \A t \in Threads : pc'[t] = "run" <=> pc[t] = "run",
             UNCHANGED <<item, taken, done>>
      PROVE  Items'
  BY <1>1 DEF Items
<1>2. CASE Push \/ Join \/ Stop \/ MainWakes
  BY <1>0, <1>1, <1>2 DEF Push, Join, Stop, MainWakes, Woken, TypeOK
<1>3. CASE Run
  BY <1>0, <1>3, ItemsTake, Zenon DEF Run, Takes, Woken, TypeOK
<1>4. CASE MainTakes
  BY <1>0, <1>4, ItemsTake, Zenon DEF MainTakes, Takes, TypeOK
<1>5. CASE MainWaits \/ MainReturns
  BY <1>0, <1>1, <1>5 DEF MainWaits, MainReturns, TypeOK
<1>6. ASSUME NEW w \in Workers, WorkerStarts(w) \/ WakesSpuriously(w) \/ WorkerWaits(w)
      PROVE  Items'
  BY <1>0, <1>1, <1>6 DEF WorkerStarts, WakesSpuriously, WorkerWaits, Waits, TypeOK
<1>7. ASSUME NEW w \in Workers, WorkerTakes(w) \/ WorkerTakesNext(w)
      PROVE  Items'
  BY <1>0, <1>7, ItemsTake DEF WorkerTakes, WorkerTakesNext, Takes, TypeOK
<1>8. ASSUME NEW w \in Workers, WorkerEnds(w)
      PROVE  Items'
  BY <1>0, <1>1, <1>8 DEF WorkerEnds, Waits, TypeOK
<1>9. ASSUME NEW t \in Threads, FnEnds(t)
      PROVE  Items'
  BY <1>9, Zenon DEF FnEnds, Items, TypeOK
<1> QED
  BY <1>2, <1>3, <1>4, <1>5, <1>6, <1>7, <1>8, <1>9 DEF Next, MainStep, WorkerStep

----------------------------------------------------------------------------
(* Where the threads are.                                                  *)

LEMMA PhasesStep ==
  ASSUME IndInv, Next
  PROVE  Phases'
<1> USE DEF IndInv
<1>0. Main \in Threads /\ Workers \subseteq Threads /\ \A w \in Workers : w # Main
  BY PoolAssumption DEF Threads
<1>1. CASE Push \/ Join \/ Stop
  BY <1>0, <1>1 DEF Push, Join, Stop, Woken, InRunOne, Phases, TypeOK
<1>2. CASE Run
  BY <1>0, <1>2 DEF Run, Takes, InRunOne, Phases, TypeOK
<1>3. CASE MainTakes \/ MainWaits
  BY <1>0, <1>3 DEF MainTakes, MainWaits, Takes, InRunOne, Phases, TypeOK
<1>4. CASE MainReturns
  <2>1. \A w \in Workers : ~InRunOne(w)
    <3>1. CASE useThreads
      <4>1. Main \in Busy
        BY <1>0, <1>4 DEF MainReturns, Busy, InRunOne
      <4>2. working \in Nat /\ ~(working - 1 > 0) /\ working # 0
        BY <1>0, <1>4, <3>1, NobodyBusy DEF MainReturns, MustWait, InRunOne, TypeOK
      <4> QED
        BY <4>1, <4>2, OnlyMainBusy
    <3>2. CASE ~useThreads
      BY <3>2, <1>4 DEF MainReturns, Alone, Phases
    <3> QED
      BY <3>1, <3>2
  <2> QED
    BY <1>0, <1>4, <2>1 DEF MainReturns, InRunOne, Phases, TypeOK
<1>5. CASE MainWakes
  <2>1. IsComplete => \A w \in Workers : ~InRunOne(w)
    BY <1>0, NobodyBusy DEF IsComplete
  <2> QED
    BY <1>0, <1>5, <2>1, Zenon DEF MainWakes, InRunOne, Phases, TypeOK
<1>6. ASSUME NEW w \in Workers, WorkerStep(w)
      PROVE  Phases'
  <2>1. pc'[Main] = pc[Main] /\ UNCHANGED <<running, shutdown>>
    BY <1>0, <1>6 DEF WorkerStep, WorkerStarts, WakesSpuriously, WorkerWaits, WorkerTakes,
                      WorkerTakesNext, WorkerEnds, Takes, TypeOK
  <2>2. ~running => \A v \in Workers : ~InRunOne(v)'
    BY <1>0, <1>6, Zenon DEF WorkerStep, WorkerStarts, WakesSpuriously, WorkerWaits, WorkerTakes,
                      WorkerTakesNext, WorkerEnds, Waits, MayTake, InRunOne, Phases, TypeOK
  <2> QED
    BY <2>1, <2>2 DEF Phases
<1>7. ASSUME NEW t \in Threads, FnEnds(t)
      PROVE  Phases'
  BY <1>0, <1>7 DEF FnEnds, InRunOne, Phases, TypeOK
<1> QED
  BY <1>1, <1>2, <1>3, <1>4, <1>5, <1>6, <1>7 DEF Next, MainStep

(* A worker that is not woken cannot take work.                            *)
LEMMA AloneStep ==
  ASSUME EnoughWorkers, IndInv, Next
  PROVE  Alone'
<1> USE DEF IndInv
<1>0. Main \in Threads /\ Workers \subseteq Threads /\ \A w \in Workers : w # Main
  BY PoolAssumption DEF Threads
<1>1. ASSUME Cardinality(Workers) <= 1, Spurious
      PROVE  Workers = {}
  <2>1. Cardinality(Workers) \in Nat
    BY PoolAssumption, FS_CardinalityType
  <2>2. Cardinality(Workers) = 0
    BY <1>1, <2>1 DEF EnoughWorkers
  <2> QED
    BY <2>2, PoolAssumption, FS_EmptySet
<1>2. CASE Push
  BY <1>2 DEF Push, NoneWoken, Empty, InRunOne, Alone, Phases
<1>3. CASE Join \/ Stop \/ MainWakes
  BY <1>0, <1>3 DEF Join, Stop, MainWakes, Woken, NoneWoken, Empty, InRunOne, Alone, Phases, TypeOK
<1>4. CASE MainTakes \/ MainWaits \/ MainReturns
  BY <1>0, <1>4
     DEF MainTakes, MainWaits, MainReturns, Takes, NoneWoken, Empty, InRunOne, Alone, Phases, TypeOK
<1>5. CASE Run
  <2>1. \A w \in Workers : ~InRunOne(w)' /\ (~UseThreads => pc'[w] = pc[w])
    BY <1>0, <1>5 DEF Run, Takes, Woken, InRunOne, Phases, TypeOK
  <2>2. Cardinality(Workers) <= 1 => ~UseThreads
    BY PoolAssumption, FS_CardinalityType DEF UseThreads
  <2>3. ~UseThreads => Empty' \/ Cardinality(Workers) <= 1
    BY <1>5, PoolAssumption, FS_CardinalityType DEF Run, UseThreads, Takes, Empty, TypeOK
  <2>4. ~shutdown /\ ~shutdown' /\ useThreads' = UseThreads
    BY <1>5 DEF Run
  <2> QED
    BY <2>1, <2>2, <2>3, <2>4 DEF NoneWoken, Alone
<1>6. ASSUME NEW w \in Workers, WorkerStarts(w) \/ WorkerWaits(w) \/ WorkerEnds(w)
      PROVE  Alone'
  BY <1>0, <1>6
     DEF WorkerStarts, WorkerWaits, WorkerEnds, Waits, NoneWoken, Empty, InRunOne, Alone, TypeOK
<1>7. ASSUME NEW w \in Workers, WakesSpuriously(w)
      PROVE  Alone'
  <2>1. ~(Cardinality(Workers) <= 1)
    BY <1>1, <1>7 DEF WakesSpuriously
  <2>2. running /\ ~useThreads => Empty
    BY <2>1 DEF Alone
  <2> QED
    BY <1>0, <1>7, <2>1, <2>2 DEF WakesSpuriously, NoneWoken, Empty, InRunOne, Alone, TypeOK
<1>8. ASSUME NEW w \in Workers, WorkerTakes(w) \/ WorkerTakesNext(w)
      PROVE  Alone'
  <2>1. running /\ useThreads
    BY <1>8 DEF WorkerTakes, WorkerTakesNext, MayTake, NoneWoken, InRunOne, Alone, TypeOK
  <2> QED
    BY <1>0, <1>8, <2>1, ZenonT(30)
       DEF WorkerTakes, WorkerTakesNext, Takes, NoneWoken, Alone, TypeOK
<1>9. ASSUME NEW t \in Threads, FnEnds(t)
      PROVE  Alone'
  BY <1>0, <1>9 DEF FnEnds, NoneWoken, Empty, InRunOne, Alone, TypeOK
<1> QED
  BY <1>2, <1>3, <1>4, <1>5, <1>6, <1>7, <1>8, <1>9 DEF Next, MainStep, WorkerStep

----------------------------------------------------------------------------
(* The invariant.                                                          *)

LEMMA Initially ==
  ASSUME Init
  PROVE  IndInv
<1>0. Main \in Threads /\ Workers \subseteq Threads /\ \A w \in Workers : w # Main
  BY PoolAssumption DEF Threads
<1>1. TypeOK
  <2>1. /\ pc \in [Threads -> MainStates \cup WorkerStates]
        /\ pc[Main] \in MainStates
        /\ \A w \in Workers : pc[w] \in WorkerStates
    BY <1>0 DEF Init, MainStates, WorkerStates
  <2>2. /\ item \in [Threads -> Nat]
        /\ pushed \in Nat /\ taken \in Nat /\ taken <= pushed
        /\ working \in Nat
    BY DEF Init
  <2>3. /\ running \in BOOLEAN /\ shutdown \in BOOLEAN
        /\ useThreads \in BOOLEAN /\ notified \in BOOLEAN
        /\ done \subseteq Nat
    BY Zenon DEF Init
  <2> QED
    BY <2>1, <2>2, <2>3 DEF TypeOK
<1>2. Counting
  <2>1. Busy = {}
    BY <1>0 DEF Init, Busy, InRunOne
  <2> QED
    BY <2>1, FS_EmptySet DEF Init, Counting
<1>3. Items
  <2>1. 1..0 = {}
    OBVIOUS
  <2>2. \A t \in Threads : pc[t] # "run"
    BY DEF Init
  <2> QED
    BY <2>1, <2>2 DEF Init, Items
<1>4. Phases
  BY <1>0 DEF Init, Phases, InRunOne
<1>5. Alone
  BY <1>0 DEF Init, Alone, InRunOne, NoneWoken
<1> QED
  BY <1>1, <1>2, <1>3, <1>4, <1>5 DEF IndInv

LEMMA Inductive ==
  ASSUME EnoughWorkers, IndInv, [Next]_vars
  PROVE  IndInv'
<1>1. CASE Next
  BY <1>1, TypeStep, CountingStep, ItemsStep, PhasesStep, AloneStep DEF IndInv
<1>2. CASE UNCHANGED vars
  <2>1. Busy' = Busy
    BY <1>2 DEF vars, Busy, InRunOne
  <2>2. Counting'
    BY <1>2, <2>1 DEF IndInv, Counting, vars
  <2> QED
    BY <1>2, <2>2 DEF vars, IndInv, TypeOK, Items, Phases, Alone, NoneWoken, Empty, InRunOne
<1> QED
  BY <1>1, <1>2

LEMMA Invariance ==
  ASSUME EnoughWorkers
  PROVE  Spec => []IndInv
<1>1. Init => IndInv
  BY Initially
<1>2. IndInv /\ [Next]_vars => IndInv'
  BY Inductive
<1> QED
  BY <1>1, <1>2, PTL DEF Spec

(* When run() does not run, no thread works and _working is 0, so that the *)
(* asserts in pushWork(), run() and stop() hold and doRender() may give up *)
(* the locals that the work refers to: for every number of workers, other  *)
(* than one worker whose wait may return without a notification.           *)
THEOREM NothingOutlivesRun ==
  ASSUME EnoughWorkers
  PROVE  Spec => []NoWorkOutlivesRun
<1>1. IndInv => NoWorkOutlivesRun
  <2> SUFFICES ASSUME IndInv, ~running
               PROVE  working = 0 /\ \A t \in Threads : ~InRunOne(t)
    BY DEF NoWorkOutlivesRun
  <2>1. \A t \in Threads : ~InRunOne(t)
    BY DEF IndInv, Phases, InRunOne, Threads
  <2> QED
    BY <2>1, NobodyBusy DEF IndInv
<1> QED
  BY <1>1, Invariance, PTL

----------------------------------------------------------------------------
(* Refinement.                                                             *)

Left == (1..pushed) \ done

(* run() returns only when all work was done.                              *)
LEMMA ReturnsDone ==
  ASSUME IndInv, Next, running, ~running'
  PROVE  Left = {} /\ UNCHANGED <<pushed, done>>
<1> USE DEF IndInv
<1>0. Main \in Threads /\ Workers \subseteq Threads /\ \A w \in Workers : w # Main
  BY PoolAssumption DEF Threads
<1>1. MainReturns \/ (MainWakes /\ IsComplete)
  BY Zenon DEF Next, MainStep, WorkerStep, Push, Run, MainTakes, MainWaits, MainReturns, MainWakes, Stop,
         Join, WorkerStarts, WakesSpuriously, WorkerTakes, WorkerWaits, WorkerTakesNext, WorkerEnds,
         FnEnds
<1>2. Empty /\ UNCHANGED <<pushed, done>>
  BY <1>1, Zenon DEF MainReturns, MainWakes, IsComplete
<1>3. \A t \in Threads : pc[t] # "run"
  <2>1. CASE MainReturns
    <3>1. UNCHANGED pc \/ \A w \in Workers : pc'[w] = pc[w]
      BY <1>0, <2>1 DEF MainReturns, TypeOK
    <3>2. \A w \in Workers : ~InRunOne(w)'
      BY PhasesStep DEF Phases
    <3>3. \A w \in Workers : pc[w] # "run"
      BY <3>1, <3>2 DEF InRunOne
    <3> QED
      BY <2>1, <3>3 DEF MainReturns, Threads
  <2>2. CASE MainWakes /\ IsComplete
    BY <2>2, NobodyBusy DEF IsComplete, InRunOne
  <2> QED
    BY <1>1, <2>1, <2>2
<1>4. 1..pushed \subseteq done
  BY <1>2, <1>3 DEF Items, Empty
<1> QED
  BY <1>2, <1>4 DEF Left

(* A step of the pool is a step of the batch, or none.                     *)
LEMMA BatchStep ==
  ASSUME IndInv, Next
  PROVE  [Batch!Next]_(Batch!vars)
<1> USE DEF IndInv
<1>0. Main \in Threads /\ Workers \subseteq Threads /\ \A w \in Workers : w # Main
  BY PoolAssumption DEF Threads
<1>1. ASSUME UNCHANGED <<pushed, done, running>>
      PROVE  UNCHANGED Batch!vars
  BY <1>1 DEF Batch!vars
<1>2. CASE Push
  <2>1. ~running /\ UNCHANGED <<done, running>>
    BY <1>2 DEF Push, Phases
  <2>2. pushed + 1 \notin 1..pushed /\ pushed + 1 \notin done
    BY DEF Items, TypeOK
  <2>3. 1..(pushed + 1) = (1..pushed) \cup {pushed + 1}
    BY DEF TypeOK
  <2>4. Left' = Left \cup {pushed + 1}
    BY <1>2, <2>1, <2>2, <2>3 DEF Left, Push
  <2>5. Batch!Push
    BY <2>1, <2>2, <2>4 DEF Batch!Push, Left
  <2> QED
    BY <2>5 DEF Batch!Next
<1>3. CASE Run
  <2>1. Batch!Run
    BY <1>3 DEF Run, Batch!Run, Phases
  <2> QED
    BY <2>1 DEF Batch!Next
<1>4. ASSUME NEW t \in Threads, FnEnds(t)
      PROVE  Batch!Next
  <2>1. item[t] \in Left
    BY <1>4 DEF FnEnds, Items, Left, TypeOK
  <2>2. Left' = Left \ {item[t]} /\ done' = done \cup {item[t]} /\ UNCHANGED running
    BY <1>4 DEF FnEnds, Left
  <2>3. running
    BY <1>4 DEF FnEnds, Phases, InRunOne, Threads
  <2>4. Batch!Work
    BY <2>1, <2>2, <2>3 DEF Batch!Work, Left
  <2> QED
    BY <2>4 DEF Batch!Next
<1>5. CASE MainReturns \/ MainWakes
  <2>1. CASE running /\ ~running'
    <3>1. Left = {} /\ UNCHANGED <<pushed, done>>
      BY <2>1, ReturnsDone
    <3>2. running' = FALSE
      BY <2>1, <1>5 DEF MainReturns, MainWakes
    <3>3. Batch!Return
      BY <2>1, <3>1, <3>2 DEF Batch!Return, Left
    <3> QED
      BY <3>3 DEF Batch!Next
  <2>2. CASE ~(running /\ ~running')
    <3>1. UNCHANGED <<pushed, done, running>>
      BY <1>5, <2>2 DEF MainReturns, MainWakes, Phases
    <3> QED
      BY <3>1, <1>1
  <2> QED
    BY <2>1, <2>2
<1>6. CASE MainTakes \/ MainWaits \/ Stop \/ Join
  BY <1>1, <1>6 DEF MainTakes, MainWaits, Stop, Join
<1>7. ASSUME NEW w \in Workers, WorkerStep(w)
      PROVE  UNCHANGED <<pushed, done, running>>
  BY <1>7 DEF WorkerStep, WorkerStarts, WakesSpuriously, WorkerTakes, WorkerWaits,
              WorkerTakesNext, WorkerEnds
<1> QED
  BY <1>1, <1>2, <1>3, <1>4, <1>5, <1>6, <1>7 DEF Next, MainStep

(* doRender() sees a RenderBatch, whatever the threads do: tiles are       *)
(* rendered while run() runs, and all that were pushed are rendered when   *)
(* run() returns.  That no two threads take the same one is Items.         *)
THEOREM PoolImplementsBatch ==
  ASSUME EnoughWorkers
  PROVE  Spec => ImplementsBatch
<1>1. Init => Batch!Init
  BY DEF Init, Batch!Init
<1>2. IndInv /\ [Next]_vars => [Batch!Next]_(Batch!vars)
  <2>1. UNCHANGED vars => UNCHANGED Batch!vars
    BY DEF vars, Batch!vars
  <2> QED
    BY <2>1, BatchStep
<1> QED
  BY <1>1, <1>2, Invariance, PTL DEF Spec, ImplementsBatch, Batch!Spec

(* The types, with the asserts in runOne(): _working never falls below 0,  *)
(* and no more work is taken than was pushed, however many threads take    *)
(* it.                                                                     *)
THEOREM TypeCorrect ==
  ASSUME EnoughWorkers
  PROVE  Spec => []TypeOK
<1>1. IndInv => TypeOK
  BY DEF IndInv
<1> QED
  BY <1>1, Invariance, PTL
=============================================================================
