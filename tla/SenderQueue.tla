---------------------------- MODULE SenderQueue ----------------------------
(***************************************************************************)
(* The outgoing queue of one ClientSession (wsd/SenderQueue.hpp), with the *)
(* flow control of the tiles it carries (_tilesOnFly in                    *)
(* wsd/ClientSession.cpp) and the client that acknowledges them.           *)
(*                                                                         *)
(* A message is its command, its subject (the tile or the view it is       *)
(* about) and the number of its enqueueing, which stands for its payload   *)
(* and, for a tile, for its wire id.                                       *)
(***************************************************************************)
EXTENDS Naturals, Sequences, SequencesExt

CONSTANTS Subjects,      \* the tiles, and the views, that messages are about
          MaxMessages    \* bound: how many messages are ever enqueued

ASSUME MaxMessagesIsNat == MaxMessages \in Nat

(* "setpart" stands for the three commands of which only the last matters  *)
(* (statusindicatorsetvalue, invalidatecursor, setpart), "other" for those *)
(* that are never coalesced.                                               *)
Commands == {"tile", "delta", "setpart", "invalidateviewcursor", "other"}

Messages == [command : Commands, subject : Subjects, wid : Nat]

VARIABLES
    queue,        \* _queue
    terminate,    \* SigUtil::getTerminationFlag()
    onFly,        \* _tilesOnFly: wire ids in the order they were added
    enqueued,     \* history: the messages enqueued while terminate was off
    written       \* history: the messages written to the client's socket

vars == <<queue, terminate, onFly, enqueued, written>>

Init ==
    /\ queue = <<>>
    /\ terminate = FALSE
    /\ onFly = <<>>
    /\ enqueued = <<>>
    /\ written = <<>>

----------------------------------------------------------------------------

IsTile(m) == m.command \in {"tile", "delta"}

(* Whether deduplicate() drops the queued message cur for the sake of the  *)
(* new one: the same tile, the same view's cursor, or any earlier message  *)
(* of a command of which only the last one matters.                        *)
Supersedes(new, cur) ==
    /\ cur.command = new.command
    /\ \/ new.command \in {"tile", "invalidateviewcursor"} /\ cur.subject = new.subject
       \/ new.command = "setpart"

(* deduplicate(): find_if and erase, so only the first match goes.         *)
Deduplicate(q, new) ==
    LET hits == {i \in DOMAIN q : Supersedes(new, q[i])}
    IN  IF hits = {} THEN q ELSE RemoveAt(q, CHOOSE i \in hits : \A j \in hits : i <= j)

(* Mutants of enqueue(): no coalescing; the queued message stays and the   *)
(* new one is dropped; the new message takes the place of the queued one.  *)
EnqueuePlain(q, m) == Append(q, m)
EnqueueKeepsOld(q, m) ==
    IF \E i \in DOMAIN q : Supersedes(m, q[i]) THEN q ELSE Append(q, m)
EnqueueInPlace(q, m) ==
    IF \E i \in DOMAIN q : Supersedes(m, q[i])
    THEN [i \in DOMAIN q |-> IF Supersedes(m, q[i]) THEN m ELSE q[i]]
    ELSE Append(q, m)

(* SenderQueue::enqueue, while the termination flag is off.                *)
Enqueue(q, m) == Append(Deduplicate(q, m), m)

(* ClientSession::enqueueSendMessage: a tile is tracked as on the fly only *)
(* when the queue grew.                                                    *)
EnqueueSendMessage(command, subject) ==
    LET m == [command |-> command, subject |-> subject, wid |-> Len(enqueued) + 1]
    IN  /\ Len(enqueued) < MaxMessages
        /\ ~terminate
        /\ queue' = Enqueue(queue, m)
        /\ onFly' = IF IsTile(m) /\ Len(queue') # Len(queue) THEN Append(onFly, m.wid) ELSE onFly
        /\ enqueued' = Append(enqueued, m)
        /\ UNCHANGED <<terminate, written>>

(* Mutant of WriteQueuedMessages: the last message stays in the queue.     *)
WriteKeepsLast(n) ==
    /\ ~terminate
    /\ n \in 1..(Len(queue) - 1)
    /\ written' = written \o SubSeq(queue, 1, n)
    /\ queue' = SubSeq(queue, n + 1, Len(queue))
    /\ UNCHANGED <<terminate, onFly, enqueued>>

(* ClientSession::writeQueuedMessages: drains while the socket's buffer    *)
(* has room, here for n messages.                                          *)
WriteQueuedMessages(n) ==
    /\ ~terminate
    /\ n \in 1..Len(queue)
    /\ written' = written \o SubSeq(queue, 1, n)
    /\ queue' = SubSeq(queue, n + 1, Len(queue))
    /\ UNCHANGED <<terminate, onFly, enqueued>>

(* ClientSession::onTileProcessed: the client has shown a tile it was sent *)
(* (an id that is not tracked is only logged).                             *)
OnTileProcessed(wid) ==
    /\ \E i \in DOMAIN written : IsTile(written[i]) /\ written[i].wid = wid
    /\ \E i \in DOMAIN onFly :
         /\ onFly[i] = wid
         /\ \A j \in 1..(i - 1) : onFly[j] # wid
         /\ onFly' = RemoveAt(onFly, i)
    /\ UNCHANGED <<queue, terminate, enqueued, written>>

(* ClientSession::removeOutdatedTilesOnFly: the n oldest entries are past  *)
(* the round-trip timeout.                                                 *)
RemoveOutdatedTilesOnFly(n) ==
    /\ n \in 1..Len(onFly)
    /\ onFly' = SubSeq(onFly, n + 1, Len(onFly))
    /\ UNCHANGED <<queue, terminate, enqueued, written>>

(* The process is asked to terminate: from here on enqueue() and dequeue() *)
(* do nothing.                                                             *)
SetTerminationFlag ==
    /\ ~terminate
    /\ terminate' = TRUE
    /\ UNCHANGED <<queue, onFly, enqueued, written>>

Next ==
    \/ \E c \in Commands, s \in Subjects : EnqueueSendMessage(c, s)
    \/ \E n \in 1..MaxMessages : WriteQueuedMessages(n)
    \/ \E w \in 1..MaxMessages : OnTileProcessed(w)
    \/ \E n \in 1..MaxMessages : RemoveOutdatedTilesOnFly(n)
    \/ SetTerminationFlag

Spec == Init /\ [][Next]_vars

(* The poll thread writes whenever the socket takes data and the queue has *)
(* some (hasQueuedMessages adds POLLOUT to the socket's events).           *)
FairSpec == Spec /\ WF_vars(\E n \in 1..MaxMessages : WriteQueuedMessages(n))

----------------------------------------------------------------------------

TypeOK ==
    /\ queue \in Seq(Messages)
    /\ terminate \in BOOLEAN
    /\ onFly \in Seq(Nat)
    /\ enqueued \in Seq(Messages)
    /\ written \in Seq(Messages)

(* SenderQueue::deduplicate erases one match only. That is enough: no      *)
(* message in the queue is superseded by one queued behind it.             *)
NoSupersededMessage ==
    \A i, j \in DOMAIN queue : i < j => ~Supersedes(queue[j], queue[i])

(* Coalescing loses nothing else: a message that no later one supersedes   *)
(* is in the queue or has been written to the client.                      *)
NewestSurvives ==
    \A i \in DOMAIN enqueued :
        (\A j \in DOMAIN enqueued : i < j => ~Supersedes(enqueued[j], enqueued[i]))
            => \/ \E k \in DOMAIN queue : queue[k] = enqueued[i]
               \/ \E k \in DOMAIN written : written[k] = enqueued[i]

(* Erasing from the middle keeps the order: the client receives messages   *)
(* in the order of their enqueueing.                                       *)
InOrder ==
    LET out == written \o queue
    IN  \A i, j \in DOMAIN out : i < j => out[i].wid < out[j].wid

(* Every message is written in the end, or a later one that supersedes it  *)
(* has been queued: as long as the socket takes data, and the process does *)
(* not terminate, none is left behind by the erasing of others.            *)
EventuallyWritten ==
    \A w \in 1..MaxMessages :
        (w <= Len(enqueued))
            ~> \/ terminate
               \/ \E k \in DOMAIN written : written[k].wid = w
               \/ \E j \in DOMAIN enqueued : j > w /\ Supersedes(enqueued[j], enqueued[w])
============================================================================
