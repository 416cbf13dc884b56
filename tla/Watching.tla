------------------------------- MODULE Watching -------------------------------
(***************************************************************************)
(* One watcher with its filters, edited over HTTP while the pipeline counts *)
(* matches and an admin pauses it                                           *)
(* (src/internal/usecase/watcher_usecase.go,                                *)
(* src/internal/repository/watcher_repository.go).                          *)
(* A request reads the whole row in a transaction and saves it whole:       *)
(* PostgreSQL's READ COMMITTED lets others commit in between, and GORM's    *)
(* Save inserts a row that is gone.                                         *)
(***************************************************************************)
EXTENDS Naturals, FiniteSets

CONSTANTS
    Requests,       \* slots for requests being served at the same time
    Forms,          \* the filters of one form that the owner may fill in
    MaxMatches      \* bound: matches stored

ASSUME MatchesAssumption == MaxMatches \in Nat

VARIABLES
    watcher,    \* the watchers row
    filters,    \* the forms whose watcher_filters rows are stored
    sent,       \* the form that was stored last: {} one that was left empty
    job,        \* the requests being served
    asked,      \* the status the owner or an admin asked for last
    matches,    \* matches stored since the watcher was created
    counting,   \* those of them that are about to be counted
    lost,       \* and those whose count failed, or died with its process
    undone,     \* a save wrote a column that had changed since it was read
    overlapped, \* the replacements on their way that met another on its way
    mingled,    \* the last one to be committed was one of those
    revived     \* a save brought back a deleted watcher

vars == <<watcher, filters, sent, job, asked, matches, counting, lost, undone, overlapped, mingled,
          revived>>

-----------------------------------------------------------------------------

Row == [status : {"active", "paused", "archived"}, archived : BOOLEAN, count : 0..MaxMatches,
        mode : {"all", "any"}]
NoRow == [status |-> "deleted"]
NoJob == [at |-> "idle", row |-> NoRow, form |-> {}, drops |-> {}]
Job == [at : {"idle", "found", "lock", "write"}, row : Row \cup {NoRow},
        form : SUBSET Forms, drops : SUBSET Forms]

(* The type of every variable. *)
TypeOK ==
    /\ watcher \in Row \cup {NoRow}
    /\ filters \subseteq Forms /\ sent \subseteq Forms
    /\ job \in [Requests -> Job]
    /\ asked \in {"active", "paused", "archived"}
    /\ matches \in 0..MaxMatches /\ counting \in Nat /\ lost \in Nat
    /\ overlapped \subseteq Requests
    /\ undone \in BOOLEAN /\ mingled \in BOOLEAN /\ revived \in BOOLEAN

Init ==
    /\ watcher = NoRow
    /\ filters = {} /\ sent = {}
    /\ job = [r \in Requests |-> NoJob]
    /\ asked = "active" /\ matches = 0 /\ counting = 0 /\ lost = 0
    /\ overlapped = {}
    /\ undone = FALSE /\ mingled = FALSE /\ revived = FALSE

tally == <<matches, counting, lost>>
ledger == <<sent, asked, tally, undone, mingled, revived>>
hand == <<job, overlapped>>
Goto(r, rec) == job' = [job EXCEPT ![r] = rec]

(* "lock": a replacement that saved the row and has yet to commit. *)
Locked == \E r \in Requests : job[r].at = "lock"

-----------------------------------------------------------------------------
(* What may be filled in: no filters is one of the forms, and matches all mail. *)
Filled == {{}} \cup {{f} : f \in Forms}

(* Create stores the watcher with its filters in one transaction. *)
Create(r, form, mode) ==
    /\ job[r].at = "idle"
    /\ watcher = NoRow /\ filters = {} /\ ~revived
    /\ counting = 0 /\ \A q \in Requests : job[q].row = NoRow     \* bound: one watcher at a time
    /\ watcher' = [status |-> "active", archived |-> FALSE, count |-> 0, mode |-> mode]
    /\ filters' = form /\ sent' = form
    /\ asked' = "active" /\ matches' = 0 /\ lost' = 0
    /\ undone' = FALSE /\ mingled' = FALSE
    /\ UNCHANGED <<hand, counting, revived>>

(* find: the caller's watcher, or 404. *)
Find(r) ==
    /\ job[r].at = "idle"
    /\ watcher # NoRow
    /\ Goto(r, [NoJob EXCEPT !.at = "found", !.row = watcher])
    /\ UNCHANGED <<watcher, filters, overlapped, ledger>>

-----------------------------------------------------------------------------
(* Whole-row saves. *)

(* The status, which the request means to be status, or the count has moved. *)
Overtaken(row, status) ==
    watcher = NoRow \/ watcher.count # row.count \/ watcher.status # status

(* Update: name, description, folder, mode or cooldown. *)
Update(r, mode) ==
    LET row == job[r].row IN
    /\ job[r].at = "found" /\ ~Locked
    /\ watcher' = [row EXCEPT !.mode = mode]
    /\ undone' = (undone \/ Overtaken(row, row.status))
    /\ revived' = (revived \/ watcher = NoRow)
    /\ Goto(r, NoJob)
    /\ UNCHANGED <<filters, sent, asked, tally, overlapped, mingled>>

(* Mutant: a restored watcher keeps its archived_at. *)
SetStatusOnly(r, status) ==
    LET row == job[r].row IN
    /\ job[r].at = "found" /\ ~Locked
    /\ watcher' = [row EXCEPT !.status = status, !.archived = (@ \/ status = "archived")]
    /\ asked' = status
    /\ undone' = (undone \/ Overtaken(row, watcher.status))
    /\ revived' = (revived \/ watcher = NoRow)
    /\ Goto(r, NoJob)
    /\ UNCHANGED <<filters, sent, tally, overlapped, mingled>>

(* SetStatus: _archive, _restore, _pause and _resume. *)
SetStatus(r, status) ==
    LET row == job[r].row IN
    /\ job[r].at = "found" /\ ~Locked
    /\ watcher' = [row EXCEPT !.status = status, !.archived = (status = "archived")]
    /\ asked' = status
    /\ undone' = (undone \/ Overtaken(row, watcher.status))
    /\ revived' = (revived \/ watcher = NoRow)
    /\ Goto(r, NoJob)
    /\ UNCHANGED <<filters, sent, tally, overlapped, mingled>>

-----------------------------------------------------------------------------
(* ReplaceFilters: the row is saved only when the mode changes, which holds  *)
(* it until the commit; the old filters are deleted as the DELETE sees them, *)
(* and the new ones stay invisible to other transactions until the commit.   *)

Replacing(r) == job[r].at \in {"lock", "write"}

DeleteFilters(r, mode, form) ==
    LET others == {q \in Requests \ {r} : Replacing(q)} IN
    /\ job[r].at = "found"
    /\ mode # job[r].row.mode => ~Locked
    /\ form \cap filters = {}                               \* no two forms are the same rows
    /\ \A q \in Requests : form \cap (job[q].form \cup job[q].drops) = {}
    /\ Goto(r, [job[r] EXCEPT !.at = IF mode = job[r].row.mode THEN "write" ELSE "lock",
                              !.row.mode = mode, !.form = form, !.drops = filters])
    /\ overlapped' = IF others = {} THEN overlapped ELSE overlapped \cup others \cup {r}
    /\ UNCHANGED <<watcher, filters, ledger>>

(* Mutant: the old filters are not deleted. *)
AddFilters(r) ==
    /\ Replacing(r) /\ watcher # NoRow
    /\ watcher' = IF job[r].at = "lock" THEN job[r].row ELSE watcher
    /\ filters' = filters \cup job[r].form /\ sent' = job[r].form
    /\ mingled' = (r \in overlapped) /\ overlapped' = overlapped \ {r}
    /\ Goto(r, NoJob)
    /\ UNCHANGED <<asked, tally, undone, revived>>

(* writeFilters and the commit; without the row the foreign key refuses the   *)
(* filters of a form, and an empty one changes nothing.                      *)
CommitFilters(r) ==
    LET saved == job[r].at = "lock" IN
    /\ Replacing(r)
    /\ IF saved \/ watcher # NoRow
       THEN /\ watcher' = IF saved THEN job[r].row ELSE watcher
            /\ filters' = (filters \ job[r].drops) \cup job[r].form /\ sent' = job[r].form
            /\ mingled' = (r \in overlapped)
            /\ undone' = (undone \/ (saved /\ Overtaken(job[r].row, job[r].row.status)))
            /\ revived' = (revived \/ watcher = NoRow)
       ELSE UNCHANGED <<watcher, filters, sent, undone, mingled, revived>>
    /\ Goto(r, NoJob) /\ overlapped' = overlapped \ {r}
    /\ UNCHANGED <<asked, tally>>

-----------------------------------------------------------------------------

(* Delete, which cascades to the filters. *)
Delete(r) ==
    /\ job[r].at = "idle"
    /\ watcher # NoRow /\ ~Locked
    /\ watcher' = NoRow /\ filters' = {}
    /\ UNCHANGED <<hand, ledger>>

(* The pipeline stores a match of the watcher, which it read when it was     *)
(* active; a match of a deleted watcher is refused.                          *)
CreateIfNew ==
    /\ watcher # NoRow /\ matches < MaxMatches
    /\ matches' = matches + 1 /\ counting' = counting + 1
    /\ UNCHANGED <<watcher, filters, sent, hand, asked, lost, undone, mingled, revived>>

(* And RecordMatch adds one in the database, whatever the status by then.    *)
RecordMatch ==
    /\ counting > 0 /\ watcher # NoRow /\ ~Locked
    /\ watcher' = [watcher EXCEPT !.count = @ + 1]
    /\ counting' = counting - 1
    /\ UNCHANGED <<filters, sent, hand, asked, matches, lost, undone, mingled, revived>>

(* Unless that fails, which is logged, the process stops, or the row is gone. *)
LoseCount ==
    /\ counting > 0
    /\ counting' = counting - 1 /\ lost' = lost + 1
    /\ UNCHANGED <<watcher, filters, sent, hand, asked, matches, undone, mingled, revived>>

(* PauseAllForUser, when the owner is suspended. *)
PauseAllForUser ==
    /\ watcher # NoRow /\ watcher.status = "active" /\ ~Locked
    /\ watcher' = [watcher EXCEPT !.status = "paused"]
    /\ asked' = "paused"
    /\ UNCHANGED <<filters, sent, hand, tally, undone, mingled, revived>>

(* An error, or the process stops: the transaction is rolled back. *)
Rollback(r) ==
    /\ job[r].at # "idle"
    /\ Goto(r, NoJob) /\ overlapped' = overlapped \ {r}
    /\ UNCHANGED <<watcher, filters, ledger>>

Next ==
    \/ \E r \in Requests :
        \/ (\E form \in Filled, mode \in {"all", "any"} : Create(r, form, mode))
        \/ Find(r)
        \/ (\E mode \in {"all", "any"} : Update(r, mode) \/ \E form \in Filled : DeleteFilters(r, mode, form))
        \/ (\E status \in {"active", "paused", "archived"} : SetStatus(r, status))
        \/ CommitFilters(r) \/ Delete(r) \/ Rollback(r)
    \/ CreateIfNew \/ RecordMatch \/ LoseCount \/ PauseAllForUser

Spec == Init /\ [][Next]_vars

-----------------------------------------------------------------------------
(* A stored watcher has the filters of the form that was stored last, or     *)
(* none if that was left empty, and whatever was stored before is gone:      *)
(* unless the replacement that stored it overlapped another, or a save       *)
(* brought the watcher back (watcher_usecase.go 96, 119-122, 354-395).        *)
FiltersAreOneForm == watcher # NoRow => filters = sent \/ mingled \/ revived

(* The watcher has the status asked for last, archived_at agrees with it,   *)
(* and match_count counts every match that is stored, but those about to be  *)
(* counted and those whose count was lost, unless a whole-row save overtook  *)
(* one of those changes (watcher_usecase.go 235-335, watcher_repository.go   *)
(* 61-66, 88-94, pipeline_usecase.go 318-328).                               *)
LastWordStands ==
    watcher # NoRow =>
        /\ watcher.archived = (watcher.status = "archived")
        /\ undone \/ (watcher.status = asked /\ watcher.count + counting + lost = matches)
=============================================================================
