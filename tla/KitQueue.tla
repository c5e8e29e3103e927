------------------------------ MODULE KitQueue ------------------------------
(***************************************************************************)
(* The queue of a Kit between wsd, LibreOffice and the Kit's sessions      *)
(* (common/MessageQueue.hpp, MessageQueue.cpp): the users' input, which is *)
(* merged where it can be, and LibreOffice's callbacks, of which only the  *)
(* newest may matter.  Tiles and invalidations are in module Tiles.        *)
(*                                                                         *)
(* Every message has the number of its putting; a callback's number stands *)
(* for its payload, a text's for the character typed.                      *)
(***************************************************************************)
EXTENDS Naturals, Sequences, FiniteSets, Queues

CONSTANTS
    Views,    \* the views, each with its session
    Windows,  \* the windows of a view that take text: the document, dialogs
    States,   \* the .uno: commands whose state is reported, but ModifiedStatus
    MaxPuts   \* bound: messages ever put

ASSUME StatesAssumption == "ModifiedStatus" \notin States

VARIABLES
    queue,  \* _queue
    puts,   \* how many messages were put
    typed,  \* history: the text of each window as its user typed it
    text,   \* the text of each window, in LibreOffice
    state,  \* what LibreOffice reported last, of all that has a last state
    seen,   \* what the sessions were told last
    told,   \* history: the messages put that may not be merged
    got     \* history: those of them that were taken

vars == <<queue, puts, typed, text, state, seen, told, got>>

(* Input: text, removetextcontext, an event (key, windowkey or mouse) or   *)
(* any other command.                                                      *)
Input(kind, v, w, arg) == [kind |-> kind, view |-> v, window |-> w, arg |-> arg]

(* A callback to view v: the state of a .uno: command, a cursor or another *)
(* type of which only the last matters, the like about a view, or others.  *)
Callback(v, type, about, arg) ==
    [kind |-> "callback", view |-> v, type |-> type, about |-> about, arg |-> arg]

Subjects ==
    [view : Views, type : {"state"}, about : States]
    \cup [view : Views, type : {"cursor"}, about : {"none"}]
    \cup [view : Views, type : {"viewcursor"}, about : Views]
Subject(m) == [view |-> m.view, type |-> m.type, about |-> m.about]

IsTyping(m) == m.kind \in {"text", "remove", "event"}
IsState(m) == m.kind = "callback" /\ Subject(m) \in Subjects
IsKept(m) == ~IsState(m) /\ m.kind \notin {"text", "remove"}

Nothing == [left |-> <<>>, right |-> <<>>]

Init ==
    /\ queue = <<>> /\ puts = 0
    /\ typed = [v \in Views |-> [w \in Windows |-> Nothing]]
    /\ text = typed
    /\ state = [s \in Subjects |-> 0] /\ seen = state
    /\ told = <<>> /\ got = <<>>

----------------------------------------------------------------------------
(* What input does to a window, with its cursor between left and right;    *)
(* the event moves the cursor to the left.                                 *)
Less(n, k) == IF n > k THEN n - k ELSE 0
Apply(b, m) ==
    CASE m.kind = "text" -> [b EXCEPT !.left = @ \o m.arg]
      [] m.kind = "remove" ->
            [left  |-> SubSeq(b.left, 1, Less(Len(b.left), m.arg[1])),
             right |-> SubSeq(b.right, m.arg[2] + 1, Len(b.right))]
      [] m.kind = "event" /\ b.left # <<>> ->
            [left |-> Front(b.left), right |-> <<Last(b.left)>> \o b.right]
      [] OTHER -> b

(* Mutant of Blocks: only events are looked at.                            *)
BlocksEvent(m, q) == q.view = m.view /\ q.kind = "event"

(* combineTextInput() and combineRemoveText(): the queued message q makes  *)
(* it wrong to merge m with what is before q.  (So does a message of one   *)
(* token, eof, which nothing follows.)                                     *)
Blocks(m, q) ==
    /\ q.view = m.view
    /\ q.kind \in {"event", "text", "remove"} \ {m.kind}

Merges(m, q) == q.kind = m.kind /\ q.view = m.view /\ q.window = m.window

Merge(m, q) ==
    [m EXCEPT !.arg = IF m.kind = "text" THEN q.arg \o m.arg
                      ELSE <<q.arg[1] + m.arg[1], q.arg[2] + m.arg[2]>>]

(* MessageQueue::put_impl(), for text and removetextcontext.               *)
Combine(q, m) ==
    LET met == {i \in DOMAIN q : Blocks(m, q[i]) \/ Merges(m, q[i])}
        i   == CHOOSE j \in met : \A k \in met : k <= j
    IN  IF met = {} \/ Blocks(m, q[i]) THEN Append(q, m)
        ELSE Append(RemoveAt(q, i), Merge(m, q[i]))

(* Mutants of Obsoletes: any view's cursor; ModifiedStatus as well.        *)
ObsoletesAnyView(m, q) ==
    /\ q.kind = "callback" /\ q.view = m.view /\ q.type = m.type
    /\ m.type = "state" => q.about = m.about
    /\ m.type # "other" /\ m.about # "ModifiedStatus"
ObsoletesModified(m, q) ==
    /\ q.kind = "callback" /\ q.view = m.view /\ q.type = m.type
    /\ q.about = m.about
    /\ m.type # "other"

(* isDuplicateCommand, and the like for cursors: a callback to the same    *)
(* target, of the same type and about the same.                            *)
IsDuplicate(m, q) ==
    q.kind = "callback" /\ q.view = m.view /\ q.type = m.type /\ q.about = m.about

(* removeCallbackDuplicate(): the queued message q is of no use after m.   *)
Obsoletes(m, q) == IsDuplicate(m, q) /\ m.type # "other" /\ m.about # "ModifiedStatus"

(* Mutant of RemoveCallbackDuplicate: only the last message is looked at.  *)
RemoveLastDuplicate(q, m) == IF q # <<>> /\ Obsoletes(m, Last(q)) THEN Front(q) ELSE q

RemoveCallbackDuplicate(q, m) ==
    LET old == {i \in DOMAIN q : Obsoletes(m, q[i])}
    IN  IF old = {} THEN q ELSE RemoveAt(q, CHOOSE i \in old : \A j \in old : i <= j)

----------------------------------------------------------------------------
(* What a user types, in a window, arrives from wsd.                       *)
PutText(v, w) ==
    /\ puts < MaxPuts
    /\ puts' = puts + 1
    /\ \/ \E m \in {Input("text", v, w, <<puts'>>), Input("remove", v, w, <<1, 0>>),
                    Input("remove", v, w, <<0, 1>>)} :
             /\ queue' = Combine(queue, m)
             /\ typed' = [typed EXCEPT ![v][w] = Apply(@, m)]
             /\ UNCHANGED told
       \/ LET m == Input("event", v, w, <<puts'>>)
          IN  /\ queue' = Append(queue, m)
              /\ typed' = [typed EXCEPT ![v][w] = Apply(@, m)]
              /\ told' = Append(told, m)
    /\ UNCHANGED <<text, state, seen, got>>

(* ViewCallback(): LibreOffice reports a state.                            *)
PutState(s) ==
    /\ puts < MaxPuts
    /\ puts' = puts + 1
    /\ LET m == Callback(s.view, s.type, s.about, <<puts'>>)
       IN  queue' = Append(RemoveCallbackDuplicate(queue, m), m)
    /\ state' = [state EXCEPT ![s] = puts']
    /\ UNCHANGED <<typed, text, seen, told, got>>

(* Messages that are kept as they are: other commands, ModifiedStatus and  *)
(* other callbacks.                                                        *)
PutOther(v) ==
    /\ puts < MaxPuts
    /\ puts' = puts + 1
    /\ \E m \in {Input("other", v, 0, <<puts'>>),
                 Callback(v, "state", "ModifiedStatus", <<puts'>>),
                 Callback(v, "other", "none", <<puts'>>)} :
          /\ queue' = Append(IF m.kind = "callback" THEN RemoveCallbackDuplicate(queue, m)
                             ELSE queue, m)
          /\ told' = Append(told, m)
    /\ UNCHANGED <<typed, text, state, seen, got>>

(* pop() in drainQueue(), with what LibreOffice or the session does.       *)
Pop ==
    /\ queue # <<>>
    /\ LET m == Head(queue)
       IN  /\ text' = IF IsTyping(m) THEN [text EXCEPT ![m.view][m.window] = Apply(@, m)] ELSE text
           /\ seen' = IF IsState(m) THEN [seen EXCEPT ![Subject(m)] = m.arg[1]] ELSE seen
           /\ got' = IF IsKept(m) THEN Append(got, m) ELSE got
    /\ queue' = Tail(queue)
    /\ UNCHANGED <<puts, typed, state, told>>

Next ==
    \/ \E v \in Views, w \in Windows : PutText(v, w)
    \/ \E s \in Subjects : PutState(s)
    \/ \E v \in Views : PutOther(v)
    \/ Pop

Spec == Init /\ [][Next]_vars

----------------------------------------------------------------------------
(* What m makes of the text b of window w of view v, of what was heard     *)
(* last about subject s, and of what has arrived.                          *)
Types(b, m, v, w) == IF IsTyping(m) /\ m.view = v /\ m.window = w THEN Apply(b, m) ELSE b
Hears(old, m, s) == IF IsState(m) /\ Subject(m) = s THEN m.arg[1] ELSE old
Gets(all, m) == IF IsKept(m) THEN Append(all, m) ELSE all

(* Merging input changes nothing: what is queued makes of each window what *)
(* its user typed, in the order in which they typed it.                    *)
TypingPreserved ==
    \A v \in Views, w \in Windows :
        typed[v][w] = After(LAMBDA b, m : Types(b, m, v, w), text[v][w], queue)

(* The last state that a session hears of is the last that LibreOffice     *)
(* reported: no callback is dropped for one about something else.          *)
NewestArrives ==
    \A s \in Subjects :
        state[s] = After(LAMBDA old, m : Hears(old, m, s), seen[s], queue)

(* No obsolete callback stays queued, although only the first is removed,  *)
(* so that the queue is bounded by what there is to report on.             *)
NoObsolete ==
    \A i, j \in DOMAIN queue :
        i < j /\ queue[j].kind = "callback" => ~Obsoletes(queue[j], queue[i])

(* All that may not be merged arrives, once and in order: events, other    *)
(* commands and every ModifiedStatus, on which saving depends.             *)
AllArrive == told = After(Gets, got, queue)
=============================================================================
