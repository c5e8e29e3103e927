------------------------------ MODULE TileView ------------------------------
(***************************************************************************)
(* What the tile machinery promises to a browser, whatever caches, queues  *)
(* and deltas are in between: a tile shows some state of the document up   *)
(* to the present one, never goes back to an older state unless the        *)
(* browser forgot it, and never shows another tile.                        *)
(***************************************************************************)
EXTENDS Integers

CONSTANTS Sessions, Tiles

VARIABLES
    doc,    \* the number of edits of each tile
    shown,  \* the number of edits that each browser shows of it; -1: nothing
    asked   \* the tiles that each browser asked for

vars == <<doc, shown, asked>>

Init ==
    /\ doc = [t \in Tiles |-> 0]
    /\ shown = [s \in Sessions |-> [t \in Tiles |-> -1]]
    /\ asked = [s \in Sessions |-> {}]

(* Some tiles of the document change.                                      *)
Edit ==
    /\ \E ts \in SUBSET Tiles :
          doc' = [t \in Tiles |-> IF t \in ts THEN doc[t] + 1 ELSE doc[t]]
    /\ UNCHANGED <<shown, asked>>

(* What is shown of a tile stays, or becomes a later state, of those until *)
(* now.                                                                    *)
Advances(t, from, to) == to = from \/ to \in (from + 1)..doc[t]

(* Browsers show later states of some tiles.                               *)
Show ==
    /\ UNCHANGED <<doc, asked>>
    /\ \E now \in {shown'}, was \in {shown} :
          \A s \in Sessions, t \in Tiles : Advances(t, was[s][t], now[s][t])

(* A browser asks for tiles; those at hand may be shown at once.           *)
Ask(s) ==
    /\ UNCHANGED doc
    /\ \E ts \in SUBSET Tiles : asked' = [asked EXCEPT ![s] = @ \cup ts]
    /\ \E now \in {shown'}, was \in {shown} :
          /\ \A t \in Tiles : Advances(t, was[s][t], now[s][t])
          /\ \A u \in Sessions \ {s} : now[u] = was[u]

(* A browser forgets tiles, unless it is about to get them anew.           *)
Forget(s) ==
    /\ UNCHANGED doc
    /\ \E ts \in SUBSET Tiles :
          /\ asked' = [asked EXCEPT ![s] = @ \ ts]
          /\ \E now \in {shown'}, was \in {shown} :
                /\ \A t \in Tiles : now[s][t] = was[s][t] \/ (t \in ts /\ now[s][t] = -1)
                /\ \A u \in Sessions \ {s} : now[u] = was[u]

Next == Edit \/ Show \/ \E s \in Sessions : Ask(s) \/ Forget(s)

Spec == Init /\ [][Next]_vars
=============================================================================
