------------------------------- MODULE Queues -------------------------------
(***************************************************************************)
(* What the queues of KitQueue and Tiles need of sequences.  The operators *)
(* have the names and the values that they have in the community modules;  *)
(* a fold is a recursive function here, which a proof can reason about.    *)
(***************************************************************************)
EXTENDS Naturals, Sequences

Last(q) == q[Len(q)]
Front(q) == SubSeq(q, 1, Len(q) - 1)
RemoveAt(q, i) == SubSeq(q, 1, i - 1) \o SubSeq(q, i + 1, Len(q))

(* What the elements of q make of base, one after the other.               *)
After(Op(_, _), base, q) ==
    LET f[i \in 0..Len(q)] == IF i = 0 THEN base ELSE Op(f[i - 1], q[i])
    IN  f[Len(q)]
=============================================================================
