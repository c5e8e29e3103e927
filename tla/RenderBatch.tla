---------------------------- MODULE RenderBatch ----------------------------
(***************************************************************************)
(* What doRender() counts on when it hands its tiles to a pool of threads: *)
(* each piece of work is done, and only while run() runs; run() returns    *)
(* when all is done.  The work refers to locals of doRender().             *)
(***************************************************************************)
VARIABLES
    waiting,  \* the work that is not done
    done,     \* the work that is
    running   \* run() was called and has not returned

vars == <<waiting, done, running>>

Init == waiting = {} /\ done = {} /\ running = FALSE

Push ==
    /\ ~running
    /\ \E i \in waiting' : i \notin waiting \cup done /\ waiting' = waiting \cup {i}
    /\ UNCHANGED <<done, running>>

Run ==
    /\ ~running
    /\ running' = TRUE
    /\ UNCHANGED <<waiting, done>>

Work ==
    /\ running
    /\ \E i \in waiting :
          /\ waiting' = waiting \ {i}
          /\ done' = done \cup {i}
    /\ UNCHANGED running

Return ==
    /\ running
    /\ waiting = {}
    /\ running' = FALSE
    /\ UNCHANGED <<waiting, done>>

Next == Push \/ Run \/ Work \/ Return

Spec == Init /\ [][Next]_vars
=============================================================================
