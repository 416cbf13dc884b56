------------------------------ MODULE ImapFetch ------------------------------
(***************************************************************************)
(* Reading one mailbox over IMAP: the connection, the cursor of UIDVALIDITY *)
(* and highest UID that SyncAccount keeps in mail_accounts.sync_state, and  *)
(* the two ways of asking for new mail                                      *)
(* (src/internal/gateway/mail/imap/imap.go).  The server, its folders and   *)
(* the mail that arrives and is deleted meanwhile are external.             *)
(***************************************************************************)
EXTENDS Naturals, FiniteSets, FiniteSetsExt

CONSTANTS
    Folders,        \* the folders watchers may ask for
    Limit,          \* newest messages taken by a first read (200 in the code)
    MaxUid,         \* bound: UIDs given out, in all folders together
    MaxValidity     \* bound: UIDVALIDITY values

VARIABLES
    server,     \* per folder: its UIDVALIDITY, the UIDs present, the unparsable ones, the last UID given out
    folder,     \* the folder the first active watcher names
    cursor,     \* sync_state: [validity, last]
    call,       \* the Fetch in progress
    handed,     \* messages <<folder, validity, uid>> that reached the filters
    waived,     \* messages the code means to leave out: older than a first read, or unparsable
    home,       \* the folder the cursor was made in
    mixed,      \* a cursor was used in another folder of the same UIDVALIDITY
    upset       \* the folder changed, or the save of a cursor failed, at some time

vars == <<server, folder, cursor, call, handed, waived, home, mixed, upset>>

NewCursor == [validity |-> 0, last |-> 0]
NoCall == [at |-> "idle", dry |-> FALSE, folder |-> folder, cursor |-> NewCursor, seen |-> {}, got |-> {}]

Cursor == [validity : 0..MaxValidity, last : 0..MaxUid]
Message == Folders \X (1..MaxValidity) \X (1..MaxUid)

(* The type of every variable. *)
TypeOK ==
    /\ server \in [Folders -> [validity : 1..MaxValidity, uids : SUBSET (1..MaxUid),
                               bad : SUBSET (1..MaxUid), top : 0..MaxUid]]
    /\ folder \in Folders /\ home \in Folders
    /\ cursor \in Cursor
    /\ call \in [at : {"idle", "select", "fetch", "save"}, dry : BOOLEAN, folder : Folders, cursor : Cursor,
                 seen : SUBSET (1..MaxUid), got : SUBSET (1..MaxUid)]
    /\ handed \subseteq Message /\ waived \subseteq Message
    /\ mixed \in BOOLEAN /\ upset \in BOOLEAN

Init ==
    /\ server \in [Folders -> [validity : 1..MaxValidity, uids : {{}}, bad : {{}}, top : {0}]]
    /\ folder \in Folders /\ home = folder
    /\ server[folder].validity = 1
    /\ cursor = NewCursor
    /\ call = NoCall
    /\ handed = {} /\ waived = {}
    /\ mixed = FALSE /\ upset = FALSE

ledger == <<handed, waived, home, mixed, upset>>
Within(messages, f) == {x \in messages : x[1] = f => x[2] = server'[f].validity /\ x[3] \in server'[f].uids}

-----------------------------------------------------------------------------
(* The server and the owner's other mail clients. *)

Arrive(f, garbled) ==
    LET uid == server[f].top + 1 IN
    /\ MapThenSumSet(LAMBDA g : server[g].top, Folders) < MaxUid
    /\ garbled => \A g \in Folders : server[g].bad = {}     \* bound: one at a time
    /\ server' = [server EXCEPT ![f].top = uid, ![f].uids = @ \cup {uid},
                                ![f].bad = IF garbled THEN @ \cup {uid} ELSE @]
    /\ UNCHANGED <<folder, cursor, call, ledger>>

Expunge(f, uid) ==
    /\ uid \in server[f].uids
    /\ server' = [server EXCEPT ![f].uids = @ \ {uid}]
    /\ handed' = Within(handed, f) /\ waived' = Within(waived, f)
    /\ UNCHANGED <<folder, cursor, call, home, mixed, upset>>

(* The server renumbers a folder: a new UIDVALIDITY, UIDs from 1 again. *)
Renumber(f) ==
    LET n == Cardinality(server[f].uids) IN
    /\ server[f].validity < MaxValidity
    /\ call.at # "fetch"        \* not while it is selected
    /\ server' = [server EXCEPT ![f] = [validity |-> @.validity + 1, uids |-> 1..n,
                                        bad |-> {}, top |-> n]]
    /\ handed' = Within(handed, f) /\ waived' = Within(waived, f)
    /\ UNCHANGED <<folder, cursor, call, home, mixed, upset>>

(* Watchers come and go, and another folder is the first one's. *)
Redirect(f) ==
    /\ f # folder /\ ~upset
    /\ folder' = f /\ upset' = TRUE
    /\ UNCHANGED <<server, cursor, call, handed, waived, home, mixed>>

-----------------------------------------------------------------------------
(* SyncAccount takes the folder of its first watcher and the stored cursor,  *)
(* and connects: TLS at once or by STARTTLS, then a token or a password.     *)
(* Every step that fails closes the connection and ends the call.            *)

GiveUp ==
    /\ call' = NoCall
    /\ UNCHANGED <<server, folder, cursor, ledger>>

Connect ==
    /\ call.at = "idle"
    /\ call' = [call EXCEPT !.at = "select", !.folder = folder, !.cursor = cursor]
    /\ UNCHANGED <<server, folder, cursor, ledger>>

(* A dry run of a watcher's filters asks for the newest of its own folder,   *)
(* without a cursor.                                                         *)
Test(f) ==
    /\ call.at = "idle"
    /\ call' = [call EXCEPT !.at = "select", !.dry = TRUE, !.folder = f]
    /\ UNCHANGED <<server, folder, cursor, ledger>>

-----------------------------------------------------------------------------
(* Fetch. *)

(* A cursor of another UIDVALIDITY is dropped: its UIDs mean nothing here. *)
Restarted(stored, validity) ==
    IF stored.validity # 0 /\ stored.validity # validity
    THEN [validity |-> validity, last |-> 0]
    ELSE [validity |-> validity, last |-> stored.last]

Select ==
    LET box == server[call.folder]
        c == Restarted(call.cursor, box.validity)
    IN
    /\ call.at = "select"
    /\ \/ /\ call' = [call EXCEPT !.cursor = c, !.seen = box.uids,
                                  !.at = IF box.uids = {} THEN "save" ELSE "fetch"]
          /\ mixed' = (mixed \/ (c.last > 0 /\ home # call.folder))
          /\ UNCHANGED <<server, folder, cursor, handed, waived, home, upset>>
       \/ GiveUp

(* The newest Limit of a set of UIDs. *)
Newest(uids) == {u \in uids : Cardinality({v \in uids : v > u}) < Limit}

(* "N:*" names the highest UID even when N is past it. *)
FromTo(box, n) == {u \in box.uids : u >= n \/ u = Max(box.uids)}

(* Mutant: whatever the range brings. *)
AllOfRange(box, c, seen) ==
    IF c.last = 0 THEN Newest(seen) \cap box.uids ELSE FromTo(box, c.last + 1)

(* What the server sends for the range, without what the cursor has passed. *)
Unread(box, c, seen) ==
    IF c.last = 0
    THEN Newest(seen) \cap box.uids
    ELSE {u \in FromTo(box, c.last + 1) : u > c.last}

FetchMessages ==
    LET box == server[call.folder]
        sent == Unread(box, call.cursor, call.seen)
        parsed == sent \ box.bad
        of(uids) == {<<call.folder, box.validity, u>> : u \in uids}
    IN
    /\ call.at = "fetch"
    /\ \/ /\ call' = [call EXCEPT !.at = "save", !.seen = {}, !.got = parsed,
                                  !.cursor.last = Max(parsed \cup {@})]
          /\ waived' = IF call.dry THEN waived
                       ELSE waived \cup of(sent \cap box.bad)
                            \cup (IF call.cursor.last = 0 THEN of(call.seen \ Newest(call.seen)) ELSE {})
          /\ UNCHANGED <<server, folder, cursor, handed, home, mixed, upset>>
       \/ GiveUp

(* SyncAccount runs the filters over the messages, then saves the cursor. *)
Finish ==
    /\ call.at = "save" /\ ~call.dry
    /\ handed' = handed \cup {<<call.folder, call.cursor.validity, u>> : u \in call.got}
    /\ \/ cursor' = call.cursor /\ home' = call.folder /\ upset' = upset
       \/ ~upset /\ upset' = TRUE /\ UNCHANGED <<cursor, home>>
    /\ call' = NoCall
    /\ UNCHANGED <<server, folder, waived, mixed>>

(* A dry run answers with what the filters say, and leaves nothing behind. *)
Answer ==
    /\ call.at = "save" /\ call.dry
    /\ call' = NoCall
    /\ UNCHANGED <<server, folder, cursor, ledger>>

Next ==
    \/ \E f \in Folders, garbled \in BOOLEAN : Arrive(f, garbled)
    \/ \E f \in Folders, u \in 1..MaxUid : Expunge(f, u)
    \/ \E f \in Folders : Renumber(f) \/ Redirect(f) \/ Test(f)
    \/ Connect \/ Select \/ FetchMessages \/ Finish \/ Answer

Spec == Init /\ [][Next]_vars

-----------------------------------------------------------------------------
(* As long as a cursor is only used in the folder it was made in, no       *)
(* message the cursor has passed is missing from the filters, but those    *)
(* that could not be parsed and those older than the newest Limit of a     *)
(* first read (imap.go 229-234, 279-292).                                   *)
NothingPassed ==
    LET box == server[home] IN
    ~mixed /\ cursor.validity = box.validity
        => \A u \in box.uids : u <= cursor.last => <<home, box.validity, u>> \in handed \cup waived

(* A message reaches the filters once as long as the folder stays and no   *)
(* cursor is lost: neither the highest UID, which "N:*" always answers     *)
(* with, nor the mail of a first read comes back (imap.go 296-302).        *)
HandedOnce ==
    ~upset /\ call.at = "save" /\ ~call.dry
        => \A u \in call.got : <<call.folder, call.cursor.validity, u>> \notin handed
=============================================================================
