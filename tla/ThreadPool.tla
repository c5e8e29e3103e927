----------------------------- MODULE ThreadPool -----------------------------
(***************************************************************************)
(* The ThreadPool with which the Kit compresses the tiles of a request     *)
(* (common/RenderTiles.hpp): a thread that pushes work, runs it, with the  *)
(* workers' help, and in the end stops the pool.                           *)
(*                                                                         *)
(* What a thread does while it holds _mutex is one step.  Work is numbered *)
(* in the order in which it is pushed, so that _work, a queue, is the      *)
(* numbers from taken + 1 to pushed.                                       *)
(***************************************************************************)
EXTENDS Integers, FiniteSets

CONSTANTS
    Main,      \* the Kit's thread
    Workers,   \* _threads
    Spurious,  \* whether a wait may return without a notification
    MaxWork    \* bound: pieces of work ever pushed

ASSUME PoolAssumption ==
    /\ IsFiniteSet(Workers)
    /\ Main \notin Workers
    /\ Spurious \in BOOLEAN
    /\ MaxWork \in Nat

Threads == Workers \cup {Main}

VARIABLES
    pc,         \* where each thread is
    item,       \* the fn of each thread that is in runOne()
    pushed,     \* the work pushed so far
    taken,      \* the work popped so far
    working,    \* _working
    running,    \* _running
    shutdown,   \* _shutdown
    useThreads, \* the local of run()
    notified,   \* the notification of _complete for the thread that waits
    done        \* history: the work that was done

vars == <<pc, item, pushed, taken, working, running, shutdown, useThreads, notified, done>>

(* "idle": outside of the pool; "run", "ran": in runOne(), before and      *)
(* after the end of fn(); "complete": waits for _complete; "joining",      *)
(* "stopped": in and after stop(); "start": before a worker locks _mutex;  *)
(* "wait": waits for _cond; "woken": is about to lock _mutex again.        *)
MainStates == {"idle", "run", "ran", "complete", "joining", "stopped"}
WorkerStates == {"start", "wait", "woken", "run", "ran", "exited"}

Init ==
    /\ pc = [t \in Threads |-> IF t = Main THEN "idle" ELSE "start"]
    /\ item = [t \in Threads |-> 0]
    /\ pushed = 0 /\ taken = 0 /\ working = 0
    /\ running = FALSE /\ shutdown = FALSE /\ useThreads = FALSE /\ notified = FALSE
    /\ done = {}

Empty == taken = pushed
InRunOne(t) == pc[t] \in {"run", "ran"}

(* notify_all() of _cond.                                                  *)
Woken(w) == IF pc[w] = "wait" THEN "woken" ELSE pc[w]

(* Mutants of Takes: the thread does not count; the last work is taken.    *)
TakesUncounted(t, state, busy) ==
    /\ pc' = [state EXCEPT ![t] = "run"]
    /\ item' = [item EXCEPT ![t] = taken + 1]
    /\ taken' = taken + 1
    /\ working' = busy

TakesLast(t, state, busy) ==
    /\ pc' = [state EXCEPT ![t] = "run"]
    /\ item' = [item EXCEPT ![t] = pushed]
    /\ taken' = taken + 1
    /\ working' = busy + 1

(* The start of runOne(), until it unlocks; state is where all threads are *)
(* otherwise.                                                              *)
Takes(t, state, busy) ==
    /\ pc' = [state EXCEPT ![t] = "run"]
    /\ item' = [item EXCEPT ![t] = taken + 1]
    /\ taken' = taken + 1
    /\ working' = busy + 1

----------------------------------------------------------------------------
(* pushWork().                                                             *)
Push ==
    /\ pc[Main] = "idle" /\ ~shutdown
    /\ pushed < MaxWork
    /\ pushed' = pushed + 1
    /\ UNCHANGED <<pc, item, taken, working, running, shutdown, useThreads, notified, done>>

(* run(), until it is in fn(); without work it does nothing.               *)
UseThreads == Cardinality(Workers) > 1 /\ pushed - taken > 1
Run ==
    /\ pc[Main] = "idle" /\ ~shutdown
    /\ ~Empty
    /\ running' = TRUE
    /\ useThreads' = UseThreads
    /\ Takes(Main, [t \in Threads |-> IF UseThreads THEN Woken(t) ELSE pc[t]], working)
    /\ UNCHANGED <<pushed, shutdown, notified, done>>

(* fn() ends, by an exception or not.                                      *)
FnEnds(t) ==
    /\ pc[t] = "run"
    /\ pc' = [pc EXCEPT ![t] = "ran"]
    /\ done' = done \cup {item[t]}
    /\ UNCHANGED <<item, pushed, taken, working, running, shutdown, useThreads, notified>>

(* The end of runOne() in run(), and the next round of its loop.           *)
MainTakes ==
    /\ pc[Main] = "ran"
    /\ ~Empty
    /\ Takes(Main, pc, working - 1)
    /\ UNCHANGED <<pushed, running, shutdown, useThreads, notified, done>>

(* Mutant of MustWait: the queue is looked at, not the threads.            *)
MustWaitForQueue(busy) == useThreads /\ ~Empty

(* The end of runOne() in run(), and the wait for _complete.               *)
MustWait(busy) == useThreads /\ busy > 0
MainWaits ==
    /\ pc[Main] = "ran"
    /\ Empty
    /\ MustWait(working - 1)
    /\ pc' = [pc EXCEPT ![Main] = "complete"]
    /\ working' = working - 1
    /\ notified' = FALSE
    /\ UNCHANGED <<item, pushed, taken, running, shutdown, useThreads, done>>

(* The end of runOne() and of run().                                       *)
MainReturns ==
    /\ pc[Main] = "ran"
    /\ Empty
    /\ ~MustWait(working - 1)
    /\ pc' = [pc EXCEPT ![Main] = "idle"]
    /\ working' = working - 1
    /\ running' = FALSE
    /\ UNCHANGED <<item, pushed, taken, shutdown, useThreads, notified, done>>

(* The wait for _complete wakes up: it goes on, or run() ends.             *)
IsComplete == working = 0 /\ Empty
MainWakes ==
    /\ pc[Main] = "complete"
    /\ notified \/ Spurious
    /\ IF IsComplete
       THEN pc' = [pc EXCEPT ![Main] = "idle"] /\ running' = FALSE
       ELSE UNCHANGED <<pc, running>>
    /\ notified' = FALSE
    /\ UNCHANGED <<item, pushed, taken, working, shutdown, useThreads, done>>

----------------------------------------------------------------------------
(* Mutant of Waits: the loop does not end.                                 *)
WaitsAlways(w) == "wait"

(* work(): the thread starts, and waits.                                   *)
Waits(w) == IF shutdown THEN "exited" ELSE "wait"
WorkerStarts(w) ==
    /\ pc[w] = "start"
    /\ pc' = [pc EXCEPT ![w] = Waits(w)]
    /\ UNCHANGED <<item, pushed, taken, working, running, shutdown, useThreads, notified, done>>

WakesSpuriously(w) ==
    /\ Spurious
    /\ pc[w] = "wait"
    /\ pc' = [pc EXCEPT ![w] = "woken"]
    /\ UNCHANGED <<item, pushed, taken, working, running, shutdown, useThreads, notified, done>>

(* work(): the condition of the inner loop, after the wait.                *)
MayTake == ~shutdown /\ ~Empty /\ running
WorkerTakes(w) ==
    /\ pc[w] = "woken"
    /\ MayTake
    /\ Takes(w, pc, working)
    /\ UNCHANGED <<pushed, running, shutdown, useThreads, notified, done>>

WorkerWaits(w) ==
    /\ pc[w] = "woken"
    /\ ~MayTake
    /\ pc' = [pc EXCEPT ![w] = Waits(w)]
    /\ UNCHANGED <<item, pushed, taken, working, running, shutdown, useThreads, notified, done>>

(* The end of runOne() in work(), and the next round of its loop.          *)
WorkerTakesNext(w) ==
    /\ pc[w] = "ran"
    /\ MayTake
    /\ Takes(w, pc, working - 1)
    /\ UNCHANGED <<pushed, running, shutdown, useThreads, notified, done>>

(* Mutant of Notifies: too early for the last thread.                      *)
NotifiesEarly(busy) == ~Empty /\ busy = 0

(* The end of runOne() in work(), with the notification of _complete, and  *)
(* the next wait.                                                          *)
Notifies(busy) == Empty /\ busy = 0
WorkerEnds(w) ==
    /\ pc[w] = "ran"
    /\ ~MayTake
    /\ pc' = [pc EXCEPT ![w] = Waits(w)]
    /\ working' = working - 1
    /\ notified' = (notified \/ (pc[Main] = "complete" /\ Notifies(working - 1)))
    /\ UNCHANGED <<item, pushed, taken, running, shutdown, useThreads, done>>

----------------------------------------------------------------------------
(* stop(), until it joins the threads.                                     *)
Stop ==
    /\ pc[Main] = "idle" /\ ~shutdown
    /\ shutdown' = TRUE
    /\ pc' = [t \in Threads |-> IF t = Main THEN "joining" ELSE Woken(t)]
    /\ UNCHANGED <<item, pushed, taken, working, running, useThreads, notified, done>>

Join ==
    /\ pc[Main] = "joining"
    /\ \A w \in Workers : pc[w] = "exited"
    /\ pc' = [pc EXCEPT ![Main] = "stopped"]
    /\ UNCHANGED <<item, pushed, taken, working, running, shutdown, useThreads, notified, done>>

MainStep == Push \/ Run \/ MainTakes \/ MainWaits \/ MainReturns \/ MainWakes \/ Stop \/ Join
WorkerStep(w) ==
    \/ WorkerStarts(w) \/ WakesSpuriously(w) \/ WorkerTakes(w) \/ WorkerWaits(w)
    \/ WorkerTakesNext(w) \/ WorkerEnds(w)

Next == MainStep \/ (\E w \in Workers : WorkerStep(w)) \/ \E t \in Threads : FnEnds(t)

Spec == Init /\ [][Next]_vars

(* The threads are scheduled, fn() ends, and a notification arrives; that  *)
(* waits wake up without one is not relied upon.                           *)
FairSpec ==
    /\ Spec
    /\ \A t \in Threads : WF_vars(FnEnds(t))
    /\ WF_vars(MainTakes \/ MainWaits \/ MainReturns \/ Join)
    /\ WF_vars(notified /\ MainWakes)
    /\ \A w \in Workers :
          WF_vars(WorkerStarts(w) \/ WorkerTakes(w) \/ WorkerWaits(w) \/ WorkerTakesNext(w)
                  \/ WorkerEnds(w))

----------------------------------------------------------------------------
(* The types, and the asserts in runOne().                                 *)
TypeOK ==
    /\ pc \in [Threads -> MainStates \cup WorkerStates]
    /\ pc[Main] \in MainStates
    /\ \A w \in Workers : pc[w] \in WorkerStates
    /\ item \in [Threads -> Nat]
    /\ pushed \in Nat /\ taken \in Nat /\ taken <= pushed
    /\ working \in Nat
    /\ running \in BOOLEAN /\ shutdown \in BOOLEAN
    /\ useThreads \in BOOLEAN /\ notified \in BOOLEAN
    /\ done \subseteq Nat

(* The asserts in pushWork(), run() and stop(): outside of run() no thread *)
(* works, and _working says so; the work on doRender()'s locals ended.     *)
NoWorkOutlivesRun ==
    ~running => working = 0 /\ \A t \in Threads : ~InRunOne(t)

(* doRender() sees a RenderBatch: work is done while run() runs, and all   *)
(* of it before run() returns.                                             *)
Batch == INSTANCE RenderBatch WITH waiting <- (1..pushed) \ done
ImplementsBatch == Batch!Spec

(* run() returns: the one who waits for _complete is not forgotten.        *)
RunReturns == running ~> ~running

(* stop() returns: all threads see _shutdown.                              *)
StopReturns == shutdown ~> pc[Main] = "stopped"
=============================================================================
