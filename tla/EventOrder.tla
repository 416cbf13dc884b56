----------------------------- MODULE EventOrder -----------------------------
(***************************************************************************)
(* The order of a watcher's events: reordering them, while others reorder   *)
(* or edit them (src/internal/usecase/watcher_event_usecase.go).            *)
(* Transactions read what is committed, and a row one of them has written   *)
(* is locked for the others until it ends.                                  *)
(***************************************************************************)
EXTENDS Naturals, FiniteSetsExt, SequencesExt

CONSTANTS
    Callers,    \* requests at the same time
    Events      \* the events of one watcher

VARIABLES
    position,   \* the committed position of every event
    request,    \* the requests in progress
    requested,      \* the order last asked for in full
    moved       \* a position was changed since by other means than such an order

orderVars == <<position, request, requested, moved>>

-----------------------------------------------------------------------------

Positions == 0..(Cardinality(Events) - 1)
Orders == UNION {SetToAllKPermutations(ids) : ids \in SUBSET Events}
Full(order) == Len(order) = Cardinality(Events)
Idle == [at |-> "idle", order |-> <<>>, done |-> 0, position |-> 0]

(* The type of every variable. *)
OrderTypeOK ==
    /\ position \in [Events -> Positions]
    /\ \A c \in Callers :
        /\ request[c].at \in {"idle", "reorder", "update", "list"}
        /\ request[c].order \in Orders
        /\ request[c].done \in 0..Len(request[c].order)
        /\ request[c].position \in Positions
    /\ requested \in Orders /\ moved \in BOOLEAN

Init ==
    /\ requested \in {order \in Orders : Full(order)}
    /\ position = [e \in Events |-> CHOOSE i \in Positions : requested[i + 1] = e]
    /\ request = [c \in Callers |-> Idle]
    /\ moved = FALSE

Goto(c, rec) == request' = [request EXCEPT ![c] = rec]

(* The rows a reorder has written and not yet committed. *)
Written(c) == IF request[c].at = "reorder" THEN ToSet(SubSeq(request[c].order, 1, request[c].done)) ELSE {}
Locked(c, e) == \E d \in Callers \ {c} : e \in Written(d)

-----------------------------------------------------------------------------
(* Every event named is the watcher's own; some may be left out. *)
Reorder(c, order) ==
    /\ request[c] = Idle /\ order # <<>>
    /\ Goto(c, [Idle EXCEPT !.at = "reorder", !.order = order])
    /\ UNCHANGED <<position, requested, moved>>

(* Mutant: the rows are written outside of the transaction. *)
UpdatePositionAtOnce(c) ==
    LET job == request[c] IN
    /\ job.at = "reorder" /\ job.done < Len(job.order)
    /\ position' = [position EXCEPT ![job.order[job.done + 1]] = job.done]
    /\ Goto(c, [job EXCEPT !.done = @ + 1])
    /\ UNCHANGED <<requested, moved>>

UpdatePosition(c) ==
    LET job == request[c] IN
    /\ job.at = "reorder" /\ job.done < Len(job.order)
    /\ ~Locked(c, job.order[job.done + 1])
    /\ Goto(c, [job EXCEPT !.done = @ + 1])
    /\ UNCHANGED <<position, requested, moved>>

(* The commit: what was written so far becomes what everybody reads. *)
Commit(c) ==
    LET order == request[c].order IN
    /\ request[c].at = "reorder" /\ request[c].done = Len(order)
    /\ position' = [e \in Events |->
        IF e \in Written(c) THEN CHOOSE i \in Positions : i < Len(order) /\ order[i + 1] = e ELSE position[e]]
    /\ IF Full(order) THEN requested' = order /\ moved' = FALSE ELSE moved' = TRUE /\ UNCHANGED requested
    /\ Goto(c, [Idle EXCEPT !.at = "list"])

(* The answer lists the events as they now are, ties in any order. *)
FindByWatcher == {order \in Orders : Full(order) /\
                    \A i, j \in DOMAIN order : i < j => position[order[i]] <= position[order[j]]}

List(c) ==
    /\ request[c].at = "list"
    /\ Goto(c, Idle)
    /\ UNCHANGED <<position, requested, moved>>

(* An error, a lost connection, or a deadlock of two orders broken up by the *)
(* database.                                                                 *)
Rollback(c) ==
    /\ request[c].at \in {"reorder", "update"}
    /\ Goto(c, Idle)
    /\ UNCHANGED <<position, requested, moved>>

-----------------------------------------------------------------------------
(* An edit of an event reads the row, and writes it back as a whole, with    *)
(* the position it read unless it was asked for another.                     *)
FindEvent(c, e, wanted) ==
    /\ request[c] = Idle
    /\ Goto(c, [at |-> "update", order |-> <<e>>, done |-> 0,
                position |-> IF wanted = {} THEN position[e] ELSE Min(wanted)])
    /\ UNCHANGED <<position, requested, moved>>

Update(c) ==
    LET e == Head(request[c].order) IN
    /\ request[c].at = "update"
    /\ ~Locked(c, e)
    /\ position' = [position EXCEPT ![e] = request[c].position]
    /\ moved' = (moved \/ position' # position)
    /\ Goto(c, Idle)
    /\ UNCHANGED requested

Next ==
    \E c \in Callers :
        \/ \E order \in Orders : Reorder(c, order)
        \/ UpdatePosition(c) \/ Commit(c) \/ List(c) \/ Rollback(c) \/ Update(c)
        \/ \E e \in Events, wanted \in {{}} \cup {{i} : i \in Positions} : FindEvent(c, e, wanted)

OrderSpec == Init /\ [][Next]_orderVars

-----------------------------------------------------------------------------
(* However reorders overlap, each other and with edits, the events stand in  *)
(* the order one request asked for in full, and never half in one and half   *)
(* in another, until a partial order or an edit moves some of them; and a    *)
(* list then has no choice (watcher_event_usecase.go 344-380).               *)
OneOrder ==
    ~moved =>
        /\ \A i \in DOMAIN requested : position[requested[i]] = i - 1
        /\ FindByWatcher = {requested}
=============================================================================
