------------------------------ MODULE Notifiers ------------------------------
(***************************************************************************)
(* The notifiers of one owner: made, edited, proved by a code, tested and   *)
(* deleted (src/internal/usecase/notifier_usecase.go,                       *)
(* src/internal/repository/notifier_repository.go).                         *)
(* Every request reads a whole row without a lock, and saves it whole, which *)
(* inserts it when it is gone.  PostgreSQL locks the rows a transaction has  *)
(* written until it commits, and shows others only what is committed; a      *)
(* transaction that writes one row takes a step to read it and one to write. *)
(* Which chat a message to the bot comes from, and which code is in it, is   *)
(* left out: anybody may send any code.                                      *)
(***************************************************************************)
EXTENDS Naturals, FiniteSets

CONSTANTS
    Clients,        \* slots for requests being served at the same time
    Channels,       \* notifier ids
    Draws           \* the codes that may be drawn: at random, so that they may be alike

VARIABLES
    notifier,   \* the notifiers rows
    work,       \* the requests being served
    drawn,      \* the notifier a code was drawn for: {} before
    expired,    \* the codes whose thirty minutes are over
    overtaken,  \* the codes a save went by after the notifier had stopped waiting for them
    spent,      \* the others that verified a notifier
    respent,    \* and did so twice
    clashed     \* two requests made a default at once, or a save raised one that was cleared

vars == <<notifier, work, drawn, expired, overtaken, spent, respent, clashed>>

-----------------------------------------------------------------------------

(* "unneeded": a channel that cannot prove ownership.                        *)
NoCode == "no code"
Unneeded == "unneeded"
Row == [status : {"pending", "verified", "disabled"}, default : BOOLEAN,
        code : Draws \cup {NoCode, Unneeded}]
NoRow == [status |-> "absent", default |-> FALSE, code |-> NoCode]
NoWork == [at |-> "idle", id |-> {}, row |-> NoRow, clears |-> {}]

(* "found": an owner's request has read the row; "bind": a message to the    *)
(* bot found it by its code; "commit": it is the new default and the others  *)
(* are cleared, but for the commit.                                          *)
Work == [at : {"idle", "found", "bind", "commit"}, id : SUBSET Channels,
         row : Row \cup {NoRow}, clears : SUBSET Channels]

(* The type of every variable. *)
TypeOK ==
    /\ notifier \in [Channels -> Row \cup {NoRow}]
    /\ work \in [Clients -> Work]
    /\ drawn \in [Draws -> SUBSET Channels]
    /\ expired \subseteq Draws /\ overtaken \subseteq Draws
    /\ spent \subseteq Draws /\ respent \subseteq Draws
    /\ clashed \in BOOLEAN

Init ==
    /\ notifier = [n \in Channels |-> NoRow]
    /\ work = [r \in Clients |-> NoWork]
    /\ drawn = [d \in Draws |-> {}]
    /\ expired = {} /\ overtaken = {} /\ spent = {} /\ respent = {}
    /\ clashed = FALSE

Goto(r, rec) == work' = [work EXCEPT ![r] = rec]
Writing(r) == work[r].at = "commit"
Free(n) == \A r \in Clients : Writing(r) => n \notin work[r].id \cup work[r].clears
Defaults == {n \in Channels : notifier[n].default}

(* Four random digits, for the next thirty minutes. *)
Draw(n, d) ==
    /\ drawn[d] = {}
    /\ drawn' = [drawn EXCEPT ![d] = {n}]

(* The row of n is saved over by one that had a code when it was read; the    *)
(* row of n has it no longer, or the save spends it.                          *)
Overtakes(r, n, spends) ==
    LET code == Draws \cap {work[r].row.code}
        now == IF spends THEN code ELSE {}
    IN
    /\ overtaken' = overtaken \cup (code \ {notifier[n].code})
    /\ spent' = (spent \cup now) \ overtaken'
    /\ respent' = respent \cup ((now \cap spent) \ overtaken')

-----------------------------------------------------------------------------

(* Mutant: the other defaults stay. *)
KeepDefaults(r, n, row) ==
    /\ row.default /\ Free(n)
    /\ Goto(r, [at |-> "commit", id |-> {n}, row |-> row, clears |-> {}])
    /\ Overtakes(r, n, FALSE)
    /\ clashed' = (clashed \/ \E q \in Clients : Writing(q))
    /\ UNCHANGED notifier

(* The row is saved, then ClearDefault clears the others it can see; both    *)
(* wait for locks.                                                           *)
ClearDefault(r, n, row) ==
    LET others == Defaults \ {n} IN
    /\ row.default /\ \A m \in others \cup {n} : Free(m)
    /\ Goto(r, [at |-> "commit", id |-> {n}, row |-> row, clears |-> others])
    /\ Overtakes(r, n, FALSE)
    /\ clashed' = (clashed \/ \E q \in Clients : Writing(q))
    /\ UNCHANGED notifier

Commit(r, n) ==
    /\ Writing(r) /\ work[r].id = {n}
    /\ notifier' = [m \in Channels |->
                        IF m = n THEN work[r].row
                        ELSE [notifier[m] EXCEPT !.default = @ /\ m \notin work[r].clears]]
    /\ Goto(r, NoWork)
    /\ UNCHANGED <<drawn, expired, overtaken, spent, respent, clashed>>

(* Mutant: the code stays with the notifier it has verified. *)
VerifiedStill(row) == [row EXCEPT !.status = "verified"]

Verified(row) == [row EXCEPT !.status = "verified", !.code = NoCode]

(* A save that does not look at the other notifiers. *)
Overwrite(r, n, row) ==
    /\ Free(n)
    /\ notifier' = [notifier EXCEPT ![n] = row]
    /\ clashed' = (clashed \/ (row.default /\ ~notifier[n].default))
    /\ Goto(r, NoWork)

SaveFound(r, n, row) == Overwrite(r, n, row) /\ Overtakes(r, n, FALSE)

(* The code of the row that was read verifies the notifier. *)
Spend(r, n) == Overwrite(r, n, Verified(work[r].row)) /\ Overtakes(r, n, TRUE)

Found(r, n) == work[r].at = "found" /\ work[r].id = {n}

-----------------------------------------------------------------------------

(* Create: with a code to send back, unless the channel needs no proof. *)
Create(r, n, code) ==
    LET row(default) == [status |-> IF code = Unneeded THEN "verified" ELSE "pending",
                         default |-> default, code |-> code]
    IN
    /\ work[r].at = "idle"
    /\ notifier[n] = NoRow     \* and a new id:
    /\ (\A q \in Clients : n \notin work[q].id) /\ (\A d \in Draws : drawn[d] # {n})
    /\ IF code = Unneeded THEN UNCHANGED drawn ELSE Draw(n, code)
    /\ ClearDefault(r, n, row(TRUE)) \/ SaveFound(r, n, row(FALSE))
    /\ UNCHANGED expired

(* find: the row, or 404. *)
Find(r, n) ==
    /\ work[r].at = "idle"
    /\ notifier[n] # NoRow
    /\ Goto(r, [NoWork EXCEPT !.at = "found", !.id = {n}, !.row = notifier[n]])
    /\ UNCHANGED <<notifier, drawn, expired, overtaken, spent, respent, clashed>>

(* Update: a default that was there, or is asked for, clears the others. *)
Update(r, n) ==
    /\ Found(r, n)
    /\ \E status \in {work[r].row.status, "verified", "disabled"} :
        LET row(default) == [work[r].row EXCEPT !.status = status, !.default = default] IN
        ClearDefault(r, n, row(TRUE)) \/ SaveFound(r, n, row(FALSE))
    /\ UNCHANGED <<drawn, expired>>

(* Verify, on a channel without proof. *)
VerifyUnneeded(r, n) ==
    /\ Found(r, n) /\ work[r].row.code = Unneeded
    /\ SaveFound(r, n, [work[r].row EXCEPT !.status = "verified"])
    /\ UNCHANGED <<drawn, expired>>

(* Verify without a code draws a new one. *)
Renew(r, n, d) ==
    /\ Found(r, n) /\ work[r].row.code # Unneeded
    /\ Draw(n, d)
    /\ SaveFound(r, n, [work[r].row EXCEPT !.status = "pending", !.code = d])
    /\ UNCHANGED expired

(* Verify with the code of the row that was read, whatever its status. *)
Verify(r, n) ==
    /\ Found(r, n) /\ work[r].row.code \in Draws \ expired
    /\ Spend(r, n)
    /\ UNCHANGED <<drawn, expired>>

(* Test sends for real, and then saves the row it had read with last_error. *)
Test(r, n) ==
    /\ Found(r, n)
    /\ SaveFound(r, n, work[r].row)
    /\ UNCHANGED <<drawn, expired>>

(* Delete, when no event uses the notifier: the schema restricts it. *)
Delete(r, n) ==
    /\ Found(r, n) /\ Free(n)
    /\ notifier' = [notifier EXCEPT ![n] = NoRow]
    /\ Goto(r, NoWork)
    /\ UNCHANGED <<drawn, expired, overtaken, spent, respent, clashed>>

(* A refusal, an error, or the process stops: the transaction is undone. *)
Rollback(r) ==
    /\ work[r].at # "idle"
    /\ Goto(r, NoWork)
    /\ UNCHANGED <<notifier, drawn, expired, overtaken, spent, respent, clashed>>

-----------------------------------------------------------------------------

(* FindPendingByCode knows a notifier by its code alone, and takes any.      *)
AwaitsCode(n) == notifier[n].status = "pending" /\ notifier[n].code \in Draws \ expired

(* HandleTelegramUpdate: the code of a message to the bot is one that a       *)
(* notifier waits for.                                                       *)
HandleTelegramUpdate(r, n) ==
    /\ work[r].at = "idle"
    /\ AwaitsCode(n)
    /\ Goto(r, [NoWork EXCEPT !.at = "bind", !.id = {n}, !.row = notifier[n]])
    /\ UNCHANGED <<notifier, drawn, expired, overtaken, spent, respent, clashed>>

(* And its row is saved with the chat, verified. *)
Bind(r, n) ==
    /\ work[r].at = "bind" /\ work[r].id = {n}
    /\ Spend(r, n)
    /\ UNCHANGED <<drawn, expired>>

(* The thirty minutes of a code are over. *)
Expire(d) ==
    /\ drawn[d] # {}
    /\ expired' = expired \cup {d}
    /\ UNCHANGED <<notifier, work, drawn, overtaken, spent, respent, clashed>>

Next ==
    \/ \E r \in Clients :
        \/ \E n \in Channels :
            \/ \E d \in Draws \cup {Unneeded} : Create(r, n, d)
            \/ \E d \in Draws : Renew(r, n, d)
            \/ HandleTelegramUpdate(r, n)
            \/ Find(r, n) \/ Update(r, n) \/ VerifyUnneeded(r, n) \/ Verify(r, n)
            \/ Test(r, n) \/ Delete(r, n) \/ Bind(r, n)
            \/ Commit(r, n)
        \/ Rollback(r)
    \/ \E d \in Draws : Expire(d)

Spec == Init /\ [][Next]_vars

-----------------------------------------------------------------------------
(* An owner has one default notifier at most, unless two requests made one  *)
(* at the same time or a save brought back a default it had read before it  *)
(* was cleared (notifier_usecase.go 106-110, 205-217, 366-379).              *)
OneDefault == Cardinality(Defaults) <= 1 \/ clashed

(* However many chats send a code, and the owner with them, it verifies its  *)
(* notifier once, unless a save of a row that was read with the code came    *)
(* after the notifier had stopped waiting for it, and so spent it again or    *)
(* brought it back (notifier_usecase.go 316-330, 394-411).                    *)
CodeSpentOnce == respent = {}
=============================================================================
