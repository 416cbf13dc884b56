---------------------------- MODULE ServicesProofs ----------------------------
(***************************************************************************)
(* Theorems about Watching, and about the components that MCServices puts   *)
(* next to it, for any requests, forms, matches, roles and attempts.        *)
(***************************************************************************)
EXTENDS MCServices, FiniteSetTheorems, SequenceTheorems, WellFoundedInduction, TLAPS

-----------------------------------------------------------------------------
(* Watching: the inductive invariants. *)

\* A request that is being served has a row in hand.
Holds(rec) == IF rec.at = "idle" THEN rec.row = NoRow ELSE rec.row \in Row

(* The matches that RecordMatch has counted: no row tells of more. *)
recorded == matches - counting - lost

Bounded ==
    /\ 0 <= recorded
    /\ watcher # NoRow => watcher.count <= recorded
    /\ \A r \in Requests : job[r].at # "idle" => job[r].row.count <= recorded

Typed == TypeOK /\ Bounded /\ \A r \in Requests : Holds(job[r])

Dated(saved) == saved.archived = (saved.status = "archived")

(* A row in a request's hand was stored once, and is dated as that was. *)
LastWord ==
    /\ \A r \in Requests : job[r].at # "idle" => Dated(job[r].row)
    /\ watcher # NoRow =>
        /\ Dated(watcher)
        /\ undone \/ (watcher.status = asked /\ watcher.count = recorded)

(* A replacement that meets no other on its way drops what is stored then. *)
OneForm ==
    revived \/
    /\ \A r, q \in Requests : Replacing(r) /\ Replacing(q) /\ r # q => r \in overlapped
    /\ watcher # NoRow =>
        /\ filters = sent \/ mingled
        /\ \A r \in Requests : Replacing(r) => job[r].drops = filters \/ r \in overlapped

-----------------------------------------------------------------------------
(* What a step does to the requests. *)

Moves(r, rec) ==
    /\ job' \in [Requests -> Job] /\ rec \in Job /\ job'[r] = rec
    /\ \A q \in Requests : q # r => job'[q] = job[q]

LEMMA GotoMoves ==
  ASSUME TypeOK, NEW r \in Requests, NEW rec \in Job, Goto(r, rec)
  PROVE  Moves(r, rec)
BY DEF TypeOK, Goto, Moves

LEMMA NoJobType == NoJob \in Job /\ NoJob.at = "idle" /\ NoJob.row = NoRow
BY DEF NoJob, Job

\* A row is never taken for the absence of one.
LEMMA RowIsThere == NoRow \notin Row
BY DEF Row, NoRow

LEMMA WatcherRow == TypeOK /\ watcher # NoRow => watcher \in Row
BY DEF TypeOK

LEMMA RowCounts == ASSUME NEW a \in Row PROVE a.count \in 0..MaxMatches
BY DEF Row

LEMMA TallyType == TypeOK => matches \in Int /\ counting \in Int /\ lost \in Int /\ recorded \in Int
BY MatchesAssumption DEF TypeOK, recorded

\* A request that ends holds nothing.
LEMMA DoneMoves ==
  ASSUME TypeOK, NEW r \in Requests, Goto(r, NoJob)
  PROVE  Moves(r, NoJob)
BY GotoMoves, NoJobType

LEMMA FindMoves ==
  ASSUME Typed, NEW r \in Requests, Find(r)
  PROVE  \E rec \in Job : /\ Moves(r, rec) /\ rec.at = "found" /\ rec.row = watcher
                          /\ watcher \in Row
<1>1. watcher \in Row BY WatcherRow DEF Find, Typed
<1>2. /\ [NoJob EXCEPT !.at = "found", !.row = watcher] \in Job
      /\ [NoJob EXCEPT !.at = "found", !.row = watcher].at = "found"
      /\ [NoJob EXCEPT !.at = "found", !.row = watcher].row = watcher
  BY <1>1 DEF NoJob, Job
<1>3. PICK rec \in Job : Goto(r, rec) /\ rec.at = "found" /\ rec.row = watcher BY <1>2 DEF Find
<1>4. QED BY <1>1, <1>3, GotoMoves DEF Typed

LEMMA DeleteFiltersMoves ==
  ASSUME Typed, NEW r \in Requests, NEW kind \in {"all", "any"}, NEW form \in Filled, DeleteFilters(r, kind, form)
  PROVE  \E rec \in Job : /\ Moves(r, rec) /\ rec.at \in {"lock", "write"} /\ rec.drops = filters
                          /\ job[r].row \in Row /\ rec.row \in Row
                          /\ rec.row.status = job[r].row.status /\ rec.row.archived = job[r].row.archived
                          /\ rec.row.count = job[r].row.count
<1>1. job \in [Requests -> Job] /\ filters \subseteq Forms BY DEF Typed, TypeOK
<1>2. job[r].row \in Row BY DEF Typed, Holds, DeleteFilters
<1>3. [job[r].row EXCEPT !.mode = kind] \in Row BY <1>2 DEF Row
<1>4. PICK at \in {"lock", "write"} :
        Goto(r, [job[r] EXCEPT !.at = at, !.row = [@ EXCEPT !.mode = kind], !.form = form, !.drops = filters])
  BY DEF DeleteFilters
<1>5. PICK saved \in Row : /\ saved = [job[r].row EXCEPT !.mode = kind]
                        /\ saved.status = job[r].row.status /\ saved.archived = job[r].row.archived
                        /\ saved.count = job[r].row.count
  BY <1>2, <1>3 DEF Row
<1>6. form \subseteq Forms BY DEF Filled
<1>7. /\ [job[r] EXCEPT !.at = at, !.row = saved, !.form = form, !.drops = filters] \in Job
      /\ [job[r] EXCEPT !.at = at, !.row = saved, !.form = form, !.drops = filters].at = at
      /\ [job[r] EXCEPT !.at = at, !.row = saved, !.form = form, !.drops = filters].row = saved
      /\ [job[r] EXCEPT !.at = at, !.row = saved, !.form = form, !.drops = filters].drops = filters
  BY <1>1, <1>6 DEF Job
<1>8. Goto(r, [job[r] EXCEPT !.at = at, !.row = saved, !.form = form, !.drops = filters]) BY <1>4, <1>5
<1>9. PICK rec \in Job : /\ Goto(r, rec) /\ rec.at = at /\ rec.row = saved /\ rec.drops = filters
  BY <1>7, <1>8
<1>10. QED BY <1>2, <1>5, <1>9, GotoMoves DEF Typed

-----------------------------------------------------------------------------
(* Types. *)

LEMMA HoldsStep ==
  ASSUME Typed, NEW r \in Requests, NEW rec, Moves(r, rec), Holds(rec)
  PROVE  job' \in [Requests -> Job] /\ \A q \in Requests : Holds(job'[q])
BY DEF Typed, Moves

LEMMA NoJobHolds == Holds(NoJob)
BY NoJobType DEF Holds

\* No count that is recorded moves, and a row is saved or read that was stored.
LEMMA BoundedStep ==
  ASSUME Typed, UNCHANGED tally, NEW r \in Requests, NEW rec, Moves(r, rec),
         rec.at # "idle" => rec.row.count <= recorded,
         watcher' # NoRow => watcher'.count <= recorded
  PROVE  Bounded'
<1>1. recorded' = recorded BY DEF tally, recorded
<1>2. \A q \in Requests : job'[q].at # "idle" => job'[q].row.count <= recorded
  BY DEF Typed, Bounded, Moves
<1>3. QED BY <1>1, <1>2 DEF Typed, Bounded

\* No request moves, and the watcher's count stays within what is recorded.
LEMMA BoundedKeeps ==
  ASSUME Typed, UNCHANGED job, recorded' \in Int, recorded <= recorded',
         watcher' # NoRow => watcher'.count <= recorded'
  PROVE  Bounded'
<1>1. recorded \in Int BY TallyType DEF Typed
<1>2. \A q \in Requests : job[q].at # "idle" => job[q].row.count \in Int /\ job[q].row.count <= recorded
  BY RowCounts DEF Typed, Bounded, Holds
<1>3. QED BY <1>1, <1>2 DEF Typed, Bounded

LEMMA SavesTyped ==
  ASSUME Typed, NEW r \in Requests,
         \/ \E kind \in {"all", "any"} : Update(r, kind)
         \/ \E status \in {"active", "paused", "archived"} : SetStatus(r, status)
  PROVE  Typed'
<1>1. job[r].row \in Row /\ job[r].row.count <= recorded BY DEF Typed, Bounded, Holds, Update, SetStatus
<1>2. watcher' \in Row /\ watcher'.count = job[r].row.count
  <2>1. CASE \E kind \in {"all", "any"} : Update(r, kind) BY <1>1, <2>1 DEF Update, Row
  <2>2. CASE \E status \in {"active", "paused", "archived"} : SetStatus(r, status)
    <3>1. PICK status \in {"active", "paused", "archived"} :
            watcher' = [job[r].row EXCEPT !.status = status, !.archived = (status = "archived")]
      BY <2>2 DEF SetStatus
    <3>2. QED BY <1>1, <3>1 DEF Row
  <2>3. QED BY <2>1, <2>2
<1>3. Moves(r, NoJob) BY DoneMoves DEF Update, SetStatus, Typed
<1>4. job' \in [Requests -> Job] /\ \A q \in Requests : Holds(job'[q])
  BY <1>3, NoJobHolds, HoldsStep
<1>5. asked' \in {"active", "paused", "archived"} BY DEF Update, SetStatus, Typed, TypeOK
<1>6. undone' \in BOOLEAN /\ revived' \in BOOLEAN BY DEF Update, SetStatus, Overtaken, Typed, TypeOK
<1>7. UNCHANGED <<filters, sent, tally, overlapped, mingled>> BY DEF Update, SetStatus
<1>8. Bounded' BY <1>1, <1>2, <1>3, <1>7, NoJobType, BoundedStep
<1>9. QED BY <1>2, <1>4, <1>5, <1>6, <1>7, <1>8 DEF Typed, TypeOK, tally

LEMMA ReplacingTyped ==
  ASSUME Typed, NEW r \in Requests,
         \/ \E kind \in {"all", "any"}, form \in Filled : DeleteFilters(r, kind, form)
         \/ CommitFilters(r)
  PROVE  Typed'
<1>1. CASE \E kind \in {"all", "any"}, form \in Filled : DeleteFilters(r, kind, form)
  <2>1. PICK kind \in {"all", "any"}, form \in Filled : DeleteFilters(r, kind, form) BY <1>1
  <2>2. PICK rec \in Job : /\ Moves(r, rec) /\ rec.at \in {"lock", "write"}
                           /\ rec.row \in Row /\ rec.row.count = job[r].row.count
    BY <2>1, DeleteFiltersMoves
  <2>3. Holds(rec) BY <2>2 DEF Holds
  <2>4. UNCHANGED <<watcher, filters, ledger>> BY <2>1 DEF DeleteFilters
  <2>5. overlapped' \subseteq Requests BY <2>1 DEF DeleteFilters, Typed, TypeOK
  <2>6. job[r].row.count <= recorded BY <2>1 DEF DeleteFilters, Typed, Bounded
  <2>7. UNCHANGED tally BY <2>4 DEF ledger
  <2>8. Bounded' BY <2>2, <2>4, <2>6, <2>7, BoundedStep DEF Typed, Bounded
  <2>9. QED BY <2>2, <2>3, <2>4, <2>5, <2>8, HoldsStep DEF Typed, TypeOK, ledger, tally
<1>2. CASE CommitFilters(r)
  <2>1. /\ job[r].row \in Row /\ job[r].form \subseteq Forms /\ job[r].row.count <= recorded
    BY <1>2 DEF CommitFilters, Replacing, Typed, TypeOK, Bounded, Holds, Job
  <2>2. watcher' \in {watcher, job[r].row} BY <1>2 DEF CommitFilters
  <2>3. filters' \subseteq Forms /\ sent' \subseteq Forms BY <1>2, <2>1 DEF CommitFilters, Typed, TypeOK
  <2>4. Moves(r, NoJob) BY <1>2, DoneMoves DEF CommitFilters, Typed
  <2>5. job' \in [Requests -> Job] /\ \A q \in Requests : Holds(job'[q])
    BY <2>4, NoJobHolds, HoldsStep
  <2>6. undone' \in BOOLEAN /\ revived' \in BOOLEAN BY <1>2 DEF CommitFilters, Overtaken, Typed, TypeOK
  <2>7. mingled' \in BOOLEAN /\ overlapped' \subseteq Requests
    <3>1. overlapped' \subseteq Requests BY <1>2 DEF CommitFilters, Typed, TypeOK
    <3>2. mingled \in BOOLEAN BY DEF Typed, TypeOK
    <3>3. mingled' = (r \in overlapped) \/ mingled' = mingled BY <1>2 DEF CommitFilters
    <3>4. mingled' \in BOOLEAN
      <4>1. CASE mingled' = mingled BY <3>2, <4>1
      <4>2. CASE mingled' = (r \in overlapped) BY <4>2
      <4>3. QED BY <3>3, <4>1, <4>2
    <3>5. QED BY <3>1, <3>4
  <2>8. UNCHANGED <<asked, tally>> BY <1>2 DEF CommitFilters
  <2>9. Bounded' BY <2>1, <2>2, <2>4, <2>8, NoJobType, BoundedStep DEF Typed, Bounded
  <2>10. QED BY <2>1, <2>2, <2>3, <2>5, <2>6, <2>7, <2>8, <2>9 DEF Typed, TypeOK, tally
<1>3. QED BY <1>1, <1>2

LEMMA RequestsTyped ==
  ASSUME Typed, NEW r \in Requests,
         \/ \E form \in Filled, kind \in {"all", "any"} : Create(r, form, kind)
         \/ Find(r) \/ Delete(r) \/ Rollback(r)
  PROVE  Typed'
<1>1. ASSUME NEW form \in Filled, NEW kind \in {"all", "any"}, Create(r, form, kind)
      PROVE  Typed'
  <2>1. watcher' \in Row /\ watcher'.count = 0 BY <1>1, MatchesAssumption DEF Create, Row
  <2>2. /\ filters' \subseteq Forms /\ sent' = filters' /\ asked' = "active"
        /\ undone' = FALSE /\ mingled' = FALSE
    BY <1>1 DEF Create, Filled
  <2>3. UNCHANGED <<job, overlapped, counting, revived>> BY <1>1 DEF Create, hand
  <2>4. matches' = 0 /\ lost' = 0 /\ counting = 0 BY <1>1 DEF Create
  <2>5. recorded' = 0 BY <2>3, <2>4 DEF recorded
  <2>6. \A q \in Requests : job[q].at = "idle" BY <1>1, RowIsThere DEF Create, Typed, Holds
  <2>7. Bounded' BY <2>1, <2>3, <2>5, <2>6 DEF Bounded
  <2>8. matches' \in 0..MaxMatches /\ lost' \in Nat BY <2>4, MatchesAssumption
  <2>9. QED BY <2>1, <2>2, <2>3, <2>7, <2>8 DEF Typed, TypeOK
<1>2. ASSUME Find(r) PROVE Typed'
  <2>1. PICK rec \in Job : Moves(r, rec) /\ rec.at = "found" /\ rec.row = watcher /\ watcher \in Row
    BY <1>2, FindMoves
  <2>2. Holds(rec) BY <2>1 DEF Holds
  <2>3. watcher # NoRow /\ UNCHANGED <<watcher, filters, overlapped, ledger>> BY <1>2 DEF Find
  <2>4. UNCHANGED tally BY <2>3 DEF ledger
  <2>5. Bounded' BY <2>1, <2>3, <2>4, BoundedStep DEF Typed, Bounded
  <2>6. QED BY <2>1, <2>2, <2>3, <2>5, HoldsStep DEF Typed, TypeOK, ledger, tally
<1>3. ASSUME Delete(r) PROVE Typed'
  <2>1. watcher' = NoRow /\ filters' = {} /\ UNCHANGED <<hand, ledger>> BY <1>3 DEF Delete
  <2>2. Bounded' BY <2>1 DEF Typed, Bounded, hand, ledger, tally, recorded
  <2>3. QED BY <2>1, <2>2 DEF Typed, TypeOK, hand, ledger, tally
<1>4. ASSUME Rollback(r) PROVE Typed'
  <2>1. Moves(r, NoJob) BY <1>4, DoneMoves DEF Rollback, Typed
  <2>2. UNCHANGED <<watcher, filters, ledger>> /\ overlapped' \subseteq Requests
    BY <1>4 DEF Rollback, Typed, TypeOK
  <2>3. job' \in [Requests -> Job] /\ \A q \in Requests : Holds(job'[q])
    BY <2>1, NoJobHolds, HoldsStep
  <2>4. UNCHANGED tally BY <2>2 DEF ledger
  <2>5. Bounded' BY <2>1, <2>2, <2>4, NoJobType, BoundedStep DEF Typed, Bounded
  <2>6. QED BY <2>2, <2>3, <2>5 DEF Typed, TypeOK, ledger, tally
<1>5. QED BY <1>1, <1>2, <1>3, <1>4

\* What is counted was stored, and what is counted or lost was to be counted.
LEMMA CountsTyped ==
  ASSUME Typed, CreateIfNew \/ RecordMatch \/ LoseCount
  PROVE  Typed'
<1> USE MatchesAssumption
<1>1. /\ matches \in 0..MaxMatches /\ counting \in Nat /\ lost \in Nat
      /\ recorded \in Int /\ 0 <= recorded
  BY TallyType DEF Typed, TypeOK, Bounded
<1>2. UNCHANGED <<job, overlapped, filters, sent, asked, undone, mingled, revived>>
  BY DEF CreateIfNew, RecordMatch, LoseCount, hand
<1>3. CASE CreateIfNew
  <2>1. /\ matches' = matches + 1 /\ counting' = counting + 1 /\ matches < MaxMatches
        /\ UNCHANGED <<watcher, lost>>
    BY <1>3 DEF CreateIfNew
  <2>2. recorded' = recorded BY <1>1, <2>1 DEF recorded
  <2>3. Bounded' BY <1>1, <1>2, <2>1, <2>2, BoundedKeeps DEF Typed, Bounded
  <2>4. QED BY <1>1, <1>2, <2>1, <2>3 DEF Typed, TypeOK
<1>4. CASE RecordMatch
  <2>1. watcher \in Row BY <1>4, WatcherRow DEF RecordMatch, Typed
  <2>2. counting > 0 /\ counting' = counting - 1 /\ UNCHANGED <<matches, lost>> BY <1>4 DEF RecordMatch
  <2>3. recorded' = recorded + 1 BY <1>1, <2>2 DEF recorded
  <2>4. recorded + 1 <= MaxMatches BY <1>1, <2>2 DEF recorded
  <2>5. watcher.count \in Nat /\ watcher.count <= recorded
    BY <2>1, RowCounts, RowIsThere DEF Typed, Bounded
  <2>6. watcher' \in Row /\ watcher'.count = watcher.count + 1
    <3>1. watcher.count + 1 \in 0..MaxMatches BY <1>1, <2>4, <2>5
    <3>2. watcher' = [watcher EXCEPT !.count = @ + 1] BY <1>4 DEF RecordMatch
    <3>3. QED BY <2>1, <3>1, <3>2 DEF Row
  <2>7. Bounded' BY <1>1, <1>2, <2>3, <2>5, <2>6, BoundedKeeps
  <2>8. QED BY <1>1, <1>2, <2>2, <2>6, <2>7 DEF Typed, TypeOK
<1>5. CASE LoseCount
  <2>1. /\ counting > 0 /\ counting' = counting - 1 /\ lost' = lost + 1
        /\ UNCHANGED <<watcher, matches>>
    BY <1>5 DEF LoseCount
  <2>2. recorded' = recorded BY <1>1, <2>1 DEF recorded
  <2>3. Bounded' BY <1>1, <1>2, <2>1, <2>2, BoundedKeeps DEF Typed, Bounded
  <2>4. QED BY <1>1, <1>2, <2>1, <2>3 DEF Typed, TypeOK
<1>6. QED BY <1>3, <1>4, <1>5

LEMMA PauseTyped == Typed /\ PauseAllForUser => Typed'
<1> SUFFICES ASSUME Typed, PauseAllForUser PROVE Typed'
  OBVIOUS
<1>1. watcher \in Row BY WatcherRow DEF PauseAllForUser, Typed
<1>2. watcher' \in Row /\ watcher'.count = watcher.count BY <1>1 DEF PauseAllForUser, Row
<1>3. /\ asked' = "paused" /\ UNCHANGED <<filters, sent, job, overlapped, tally, undone, mingled, revived>>
  BY DEF PauseAllForUser, hand
<1>4. recorded' = recorded BY <1>3 DEF tally, recorded
<1>5. watcher.count <= recorded BY <1>1, RowIsThere DEF Typed, Bounded
<1>6. Bounded' BY <1>2, <1>3, <1>4, <1>5, TallyType, BoundedKeeps DEF Typed
<1>7. QED BY <1>2, <1>3, <1>6 DEF Typed, TypeOK, tally

LEMMA InitTyped == Init => Typed
<1> SUFFICES ASSUME Init PROVE Typed
  OBVIOUS
<1>1. job \in [Requests -> Job] /\ \A r \in Requests : job[r].at = "idle" /\ Holds(job[r])
  BY NoJobType, NoJobHolds DEF Init
<1>2. matches \in 0..MaxMatches BY MatchesAssumption DEF Init
<1>3. recorded = 0 BY DEF Init, recorded
<1>4. Bounded BY <1>1, <1>3 DEF Init, Bounded
<1>5. TypeOK BY <1>1, <1>2 DEF Init, TypeOK
<1>6. QED BY <1>1, <1>4, <1>5 DEF Typed

LEMMA NextTyped == Typed /\ [Next]_vars => Typed'
<1> SUFFICES ASSUME Typed, [Next]_vars PROVE Typed'
  OBVIOUS
<1>1. CASE UNCHANGED vars BY <1>1 DEF vars, Typed, TypeOK, Bounded, recorded
<1>2. CASE Next BY <1>2, SavesTyped, ReplacingTyped, RequestsTyped, CountsTyped, PauseTyped DEF Next
<1>3. QED BY <1>1, <1>2

(* Every variable has its type, a request that is being served has a whole   *)
(* row in hand to save, and no row tells of more matches than were counted   *)
(* (watcher_usecase.go 235-395, pipeline_usecase.go 318-328).                *)
THEOREM TypeCorrect == Spec => []Typed
BY InitTyped, NextTyped, PTL DEF Spec

-----------------------------------------------------------------------------
(* The word that was given last stands. *)

\* A row saved whole is dated, and what it overtakes is noted.
LEMMA LastWordSaves ==
  ASSUME Typed, LastWord, NEW r \in Requests,
         \/ \E kind \in {"all", "any"} : Update(r, kind)
         \/ \E status \in {"active", "paused", "archived"} : SetStatus(r, status)
         \/ CommitFilters(r)
  PROVE  LastWord'
<1>1. job[r].row \in Row /\ Dated(job[r].row)
  BY DEF Update, SetStatus, CommitFilters, Replacing, Typed, Holds, LastWord
<1>2. Moves(r, NoJob) BY DoneMoves DEF Update, SetStatus, CommitFilters, Typed
<1>3. \A q \in Requests : job'[q].at # "idle" => Dated(job'[q].row)
  BY <1>2, NoJobType DEF LastWord, Moves
<1>4. UNCHANGED recorded BY DEF Update, SetStatus, CommitFilters, tally, recorded
<1>5. CASE \E kind \in {"all", "any"} : Update(r, kind)
  <2>1. PICK kind \in {"all", "any"} : Update(r, kind) BY <1>5
  <2>2. /\ watcher'.status = job[r].row.status /\ watcher'.archived = job[r].row.archived
        /\ watcher'.count = job[r].row.count
    BY <1>1, <2>1 DEF Update, Row
  <2>3. UNCHANGED asked BY <2>1 DEF Update
  <2>4. undone' \/ (~undone /\ watcher # NoRow /\ watcher.count = job[r].row.count /\ watcher.status = job[r].row.status)
    BY <2>1 DEF Update, Overtaken
  <2>5. QED BY <1>1, <1>3, <1>4, <2>2, <2>3, <2>4 DEF LastWord, Dated
<1>6. CASE \E status \in {"active", "paused", "archived"} : SetStatus(r, status)
  <2>1. PICK status \in {"active", "paused", "archived"} : SetStatus(r, status) BY <1>6
  <2>2. /\ watcher'.status = status /\ watcher'.archived = (status = "archived")
        /\ watcher'.count = job[r].row.count
    BY <1>1, <2>1 DEF SetStatus, Row
  <2>3. asked' = status BY <2>1 DEF SetStatus
  <2>4. undone' \/ (~undone /\ watcher # NoRow /\ watcher.count = job[r].row.count)
    BY <2>1 DEF SetStatus, Overtaken
  <2>5. QED BY <1>3, <1>4, <2>2, <2>3, <2>4 DEF LastWord, Dated
<1>7. CASE CommitFilters(r)
  <2>1. UNCHANGED asked BY <1>7 DEF CommitFilters
  <2>2. CASE job[r].at = "lock"
    <3>1. watcher' = job[r].row BY <1>7, <2>2 DEF CommitFilters
    <3>2. undone' \/ (~undone /\ watcher # NoRow /\ watcher.count = job[r].row.count /\ watcher.status = job[r].row.status)
      BY <1>7, <2>2 DEF CommitFilters, Overtaken
    <3>3. QED BY <1>1, <1>3, <1>4, <2>1, <3>1, <3>2 DEF LastWord
  <2>3. CASE job[r].at # "lock"
    <3>1. watcher' = watcher /\ (undone => undone') BY <1>7, <2>3 DEF CommitFilters
    <3>2. QED BY <1>3, <1>4, <2>1, <3>1 DEF LastWord
  <2>4. QED BY <2>2, <2>3
<1>8. QED BY <1>5, <1>6, <1>7

LEMMA LastWordRequests ==
  ASSUME Typed, LastWord, NEW r \in Requests,
         \/ \E form \in Filled, kind \in {"all", "any"} : Create(r, form, kind) \/ DeleteFilters(r, kind, form)
         \/ Find(r) \/ Delete(r) \/ Rollback(r)
  PROVE  LastWord'
<1>1. ASSUME NEW form \in Filled, NEW kind \in {"all", "any"}, Create(r, form, kind)
      PROVE  LastWord'
  <2>1. watcher' = [status |-> "active", archived |-> FALSE, count |-> 0, mode |-> kind] BY <1>1 DEF Create
  <2>2. watcher'.status = "active" /\ watcher'.archived = FALSE /\ watcher'.count = 0 BY <2>1
  <2>3. asked' = "active" /\ UNCHANGED job BY <1>1 DEF Create, hand
  <2>4. recorded' = 0
    <3>1. matches' = 0 /\ lost' = 0 /\ counting' = 0 BY <1>1 DEF Create
    <3>2. QED BY <3>1 DEF recorded
  <2>5. QED BY <2>2, <2>3, <2>4 DEF LastWord, Dated
<1>2. ASSUME NEW form \in Filled, NEW kind \in {"all", "any"}, DeleteFilters(r, kind, form)
      PROVE  LastWord'
  <2>1. PICK rec \in Job : /\ Moves(r, rec) /\ rec.row.status = job[r].row.status
                           /\ rec.row.archived = job[r].row.archived
    BY <1>2, DeleteFiltersMoves
  <2>2. Dated(job[r].row) BY <1>2 DEF DeleteFilters, LastWord
  <2>3. UNCHANGED <<watcher, asked, recorded, undone>> BY <1>2 DEF DeleteFilters, ledger, tally, recorded
  <2>4. QED BY <2>1, <2>2, <2>3 DEF LastWord, Dated, Moves
<1>3. ASSUME Find(r) PROVE LastWord'
  <2>1. PICK rec \in Job : Moves(r, rec) /\ rec.row = watcher BY <1>3, FindMoves
  <2>2. watcher # NoRow /\ UNCHANGED <<watcher, asked, recorded, undone>>
    BY <1>3 DEF Find, ledger, tally, recorded
  <2>3. QED BY <2>1, <2>2 DEF LastWord, Moves
<1>4. ASSUME Delete(r) PROVE LastWord'
  BY <1>4 DEF Delete, hand, LastWord
<1>5. ASSUME Rollback(r) PROVE LastWord'
  <2>1. Moves(r, NoJob) /\ UNCHANGED <<watcher, asked, recorded, undone>>
    BY <1>5, DoneMoves DEF Rollback, ledger, tally, recorded, Typed
  <2>2. QED BY <2>1, NoJobType DEF LastWord, Moves
<1>6. QED BY <1>1, <1>2, <1>3, <1>4, <1>5

\* A match is counted once it is taken from those about to be, and a pause is asked for.
LEMMA LastWordRest ==
  ASSUME Typed, LastWord, CreateIfNew \/ RecordMatch \/ LoseCount \/ PauseAllForUser
  PROVE  LastWord'
<1>1. matches \in Int /\ counting \in Int /\ lost \in Int BY TallyType DEF Typed
<1>2. CASE CreateIfNew \/ LoseCount
  <2>1. UNCHANGED <<watcher, job, asked, undone>> BY <1>2 DEF CreateIfNew, LoseCount, hand
  <2>2. UNCHANGED recorded BY <1>1, <1>2 DEF CreateIfNew, LoseCount, recorded
  <2>3. QED BY <2>1, <2>2 DEF LastWord
<1>3. CASE RecordMatch
  <2>1. watcher \in Row BY <1>3, WatcherRow DEF RecordMatch, Typed
  <2>2. /\ watcher'.status = watcher.status /\ watcher'.archived = watcher.archived
        /\ watcher'.count = watcher.count + 1
    BY <1>3, <2>1 DEF RecordMatch, Row
  <2>3. watcher # NoRow /\ UNCHANGED <<job, asked, undone>> BY <1>3 DEF RecordMatch, hand
  <2>4. recorded' = recorded + 1 BY <1>1, <1>3 DEF RecordMatch, recorded
  <2>5. QED BY <2>2, <2>3, <2>4 DEF LastWord, Dated
<1>4. CASE PauseAllForUser
  <2>1. watcher \in Row BY <1>4, WatcherRow DEF PauseAllForUser, Typed
  <2>2. /\ watcher'.status = "paused" /\ watcher'.archived = watcher.archived
        /\ watcher'.count = watcher.count /\ watcher.status = "active"
    BY <1>4, <2>1 DEF PauseAllForUser, Row
  <2>3. watcher # NoRow /\ asked' = "paused" /\ UNCHANGED <<job, recorded, undone>>
    BY <1>4 DEF PauseAllForUser, hand, tally, recorded
  <2>4. QED BY <2>2, <2>3 DEF LastWord, Dated
<1>5. QED BY <1>2, <1>3, <1>4

LEMMA NextLastWord == Typed /\ LastWord /\ [Next]_vars => LastWord'
<1> SUFFICES ASSUME Typed, LastWord, [Next]_vars PROVE LastWord'
  OBVIOUS
<1>1. CASE UNCHANGED vars BY <1>1 DEF vars, LastWord, recorded
<1>2. CASE Next BY <1>2, LastWordSaves, LastWordRequests, LastWordRest DEF Next
<1>3. QED BY <1>1, <1>2

(* The watcher has the status asked for last, is dated accordingly, and its  *)
(* count is that of the matches stored, but for those about to be counted    *)
(* and those whose count was lost: unless a whole-row save overtook one of   *)
(* those changes, for any number of requests and matches                     *)
(* (watcher_usecase.go 235-335, pipeline_usecase.go 318-328).                *)
THEOREM LastWordIsKept == Spec => []LastWordStands
<1>1. Init => LastWord BY NoJobType DEF Init, LastWord
<1>2. Typed /\ LastWord => LastWordStands
  <2> SUFFICES ASSUME Typed, LastWord, watcher # NoRow PROVE LastWordStands
    BY DEF LastWordStands
  <2>1. /\ matches \in Int /\ counting \in Int /\ lost \in Int /\ watcher.count \in Int
        /\ recorded = matches - counting - lost
    BY TallyType, WatcherRow, RowCounts DEF Typed, recorded
  <2>2. Dated(watcher) /\ (undone \/ (watcher.status = asked /\ watcher.count = recorded)) BY DEF LastWord
  <2>3. watcher.count = recorded => watcher.count + counting + lost = matches BY <2>1
  <2>4. QED BY <2>2, <2>3 DEF LastWordStands, Dated
<1>3. QED BY <1>1, <1>2, InitTyped, NextTyped, NextLastWord, PTL DEF Spec

-----------------------------------------------------------------------------
(* The filters are those of the last form. *)

\* Nothing of the filters moves, and no replacement begins.
LEMMA OneFormKeeps ==
  ASSUME OneForm, NEW r \in Requests, NEW rec, Moves(r, rec), rec.at \notin {"lock", "write"},
         UNCHANGED <<filters, sent, mingled>>, overlapped \ {r} \subseteq overlapped',
         watcher # NoRow \/ watcher' = NoRow \/ revived', revived => revived'
  PROVE  OneForm'
<1>1. CASE revived' BY <1>1 DEF OneForm
<1>2. CASE ~revived'
  <2>1. ~revived /\ (watcher # NoRow \/ watcher' = NoRow) BY <1>2
  <2>2. \A q \in Requests : Replacing(q)' => q # r /\ Replacing(q) /\ job'[q] = job[q]
    BY DEF Moves, Replacing
  <2>3. \A p, q \in Requests : Replacing(p)' /\ Replacing(q)' /\ p # q => p \in overlapped'
    BY <2>1, <2>2 DEF OneForm
  <2>4. watcher' # NoRow => \A q \in Requests : Replacing(q)' => job'[q].drops = filters' \/ q \in overlapped'
    BY <2>1, <2>2 DEF OneForm
  <2>5. watcher' # NoRow => filters' = sent' \/ mingled' BY <2>1 DEF OneForm
  <2>6. QED BY <2>3, <2>4, <2>5 DEF OneForm
<1>3. QED BY <1>1, <1>2

LEMMA OneFormSaves ==
  ASSUME Typed, OneForm, NEW r \in Requests,
         \/ \E kind \in {"all", "any"} : Update(r, kind)
         \/ \E status \in {"active", "paused", "archived"} : SetStatus(r, status)
  PROVE  OneForm'
<1>1. Moves(r, NoJob) /\ NoJob.at = "idle" BY DoneMoves, NoJobType DEF Update, SetStatus, Typed
<1>2. /\ UNCHANGED <<filters, sent, mingled, overlapped>> /\ (revived => revived')
      /\ watcher = NoRow => revived'
  BY DEF Update, SetStatus
<1>3. QED BY <1>1, <1>2, OneFormKeeps

\* A replacement notes the others on their way, and they note it.
LEMMA OneFormBegins ==
  ASSUME Typed, OneForm, NEW r \in Requests, NEW kind \in {"all", "any"}, NEW form \in Filled,
         DeleteFilters(r, kind, form)
  PROVE  OneForm'
<1>1. PICK rec \in Job : Moves(r, rec) /\ rec.drops = filters BY DeleteFiltersMoves
<1>2. UNCHANGED <<watcher, filters, sent, mingled, revived>> BY DEF DeleteFilters, ledger
<1>3. ~Replacing(r) BY DEF DeleteFilters, Replacing
<1>4. \A q \in Requests : q # r /\ Replacing(q) => q \in overlapped' /\ r \in overlapped' BY DEF DeleteFilters
<1>5. overlapped \subseteq overlapped' BY DEF DeleteFilters
<1>6. \A q \in Requests : q # r => job'[q] = job[q] /\ (Replacing(q)' <=> Replacing(q))
  BY <1>1 DEF Moves, Replacing
<1>7. job'[r].drops = filters BY <1>1 DEF Moves
<1>8. CASE revived BY <1>2, <1>8 DEF OneForm
<1>9. CASE ~revived
  <2>1. \A p, q \in Requests : Replacing(p)' /\ Replacing(q)' /\ p # q => p \in overlapped'
    BY <1>4, <1>5, <1>6, <1>9 DEF OneForm
  <2>2. watcher # NoRow => \A q \in Requests : Replacing(q)' => job'[q].drops = filters \/ q \in overlapped'
    BY <1>5, <1>6, <1>7, <1>9 DEF OneForm
  <2>3. watcher # NoRow => filters = sent \/ mingled BY <1>9 DEF OneForm
  <2>4. QED BY <1>2, <2>1, <2>2, <2>3 DEF OneForm
<1>10. QED BY <1>8, <1>9

\* One that was alone drops what is stored, and leaves its form.
LEMMA OneFormEnds ==
  ASSUME Typed, OneForm, NEW r \in Requests, CommitFilters(r)
  PROVE  OneForm'
<1>1. Moves(r, NoJob) /\ NoJob.at = "idle" BY DoneMoves, NoJobType DEF CommitFilters, Typed
<1>2. Replacing(r) /\ overlapped' = overlapped \ {r} BY DEF CommitFilters
<1>3. CASE revived' BY <1>3 DEF OneForm
<1>4. CASE ~revived' /\ watcher = NoRow
  <2>1. UNCHANGED <<watcher, filters, sent, mingled, revived>> BY <1>4 DEF CommitFilters
  <2>2. QED BY <1>1, <1>2, <1>4, <2>1, OneFormKeeps
<1>5. CASE ~revived' /\ watcher # NoRow
  <2>1. /\ filters' = (filters \ job[r].drops) \cup job[r].form /\ sent' = job[r].form
        /\ mingled' = (r \in overlapped) /\ ~revived
    BY <1>5 DEF CommitFilters
  <2>2. \A q \in Requests : Replacing(q)' => q # r /\ Replacing(q) /\ job'[q] = job[q]
    BY <1>1 DEF Moves, Replacing
  <2>3. \A q \in Requests : Replacing(q)' => q \in overlapped' BY <1>2, <2>1, <2>2 DEF OneForm
  <2>4. mingled' \/ filters' = sent'
    <3>1. CASE r \in overlapped BY <2>1, <3>1
    <3>2. CASE r \notin overlapped
      <4>1. job[r].drops = filters BY <1>2, <1>5, <2>1, <3>2 DEF OneForm
      <4>2. QED BY <2>1, <4>1
    <3>3. QED BY <3>1, <3>2
  <2>5. QED BY <2>3, <2>4 DEF OneForm
<1>6. QED BY <1>3, <1>4, <1>5

LEMMA OneFormRest ==
  ASSUME Typed, OneForm,
         \/ \E r \in Requests :
              \/ \E form \in Filled, kind \in {"all", "any"} : Create(r, form, kind)
              \/ Find(r) \/ Delete(r) \/ Rollback(r)
         \/ CreateIfNew \/ RecordMatch \/ LoseCount \/ PauseAllForUser
  PROVE  OneForm'
<1>1. ASSUME NEW r \in Requests, NEW form \in Filled, NEW kind \in {"all", "any"}, Create(r, form, kind)
      PROVE  OneForm'
  <2>1. filters' = form /\ sent' = form /\ UNCHANGED job /\ \A q \in Requests : job[q].row = NoRow
    BY <1>1 DEF Create, hand
  <2>2. \A q \in Requests : job[q].at = "idle" BY <2>1, RowIsThere DEF Typed, Holds
  <2>3. \A q \in Requests : ~Replacing(q)' BY <2>1, <2>2 DEF Replacing
  <2>4. QED BY <2>1, <2>3 DEF OneForm
<1>2. ASSUME NEW r \in Requests, Find(r) PROVE OneForm'
  <2>1. PICK rec \in Job : Moves(r, rec) /\ rec.at = "found" BY <1>2, FindMoves
  <2>2. /\ watcher # NoRow
        /\ UNCHANGED <<watcher, filters, sent, overlapped, mingled, revived>>
    BY <1>2 DEF Find, ledger
  <2>3. QED BY <2>1, <2>2, OneFormKeeps
<1>3. ASSUME NEW r \in Requests, Delete(r) PROVE OneForm'
  BY <1>3 DEF Delete, hand, ledger, OneForm, Replacing
<1>4. ASSUME NEW r \in Requests, Rollback(r) PROVE OneForm'
  <2>1. Moves(r, NoJob) /\ NoJob.at = "idle" BY <1>4, DoneMoves, NoJobType DEF Rollback, Typed
  <2>2. /\ UNCHANGED <<watcher, filters, sent, mingled, revived>>
        /\ overlapped' = overlapped \ {r}
    BY <1>4 DEF Rollback, ledger
  <2>3. QED BY <2>1, <2>2, OneFormKeeps
<1>5. ASSUME CreateIfNew \/ RecordMatch \/ LoseCount \/ PauseAllForUser PROVE OneForm'
  <2>1. /\ watcher = NoRow => watcher' = NoRow
        /\ UNCHANGED <<filters, sent, job, overlapped, mingled, revived>>
    BY <1>5 DEF CreateIfNew, RecordMatch, LoseCount, PauseAllForUser, hand
  <2>2. QED BY <2>1 DEF OneForm, Replacing
<1>6. QED BY <1>1, <1>2, <1>3, <1>4, <1>5

LEMMA NextOneForm == Typed /\ OneForm /\ [Next]_vars => OneForm'
<1> SUFFICES ASSUME Typed, OneForm, [Next]_vars PROVE OneForm'
  OBVIOUS
<1>1. CASE UNCHANGED vars BY <1>1 DEF vars, OneForm, Replacing
<1>2. CASE Next BY <1>2, OneFormSaves, OneFormBegins, OneFormEnds, OneFormRest DEF Next
<1>3. QED BY <1>1, <1>2

(* A stored watcher has the filters of the form stored last, which may be    *)
(* none, and nothing of an earlier one: unless the replacement that stored   *)
(* it overlapped another or a save brought the watcher back, for any number  *)
(* of requests and forms (watcher_usecase.go 96, 119-122, 354-395).           *)
THEOREM FiltersStayOneForm == Spec => []FiltersAreOneForm
<1>1. Init => OneForm BY NoJobType DEF Init, OneForm, Replacing
<1>2. OneForm => FiltersAreOneForm BY DEF OneForm, FiltersAreOneForm
<1>3. QED BY <1>1, <1>2, InitTyped, NextTyped, NextOneForm, PTL DEF Spec

-----------------------------------------------------------------------------
(* MCServices: a component takes steps when it is the part that is explored,  *)
(* and rests otherwise.                                                       *)

servicesVars == <<part, vars, fetchVars, matchVars, loopVars, sendVars, sowVars, rowVars, orderVars>>

LEMMA EachService ==
  ASSUME [ServicesNext]_servicesVars
  PROVE  /\ UNCHANGED part
         /\ Looping!Next \/ UNCHANGED loopVars
         /\ Sowing!Next \/ UNCHANGED sowVars
         /\ part = "fetching" => Fetching!Next \/ UNCHANGED fetchVars
         /\ part = "sending" => Sending!Next \/ UNCHANGED sendVars
         /\ part = "resolving" => Resolving!Next \/ UNCHANGED rowVars
         /\ part = "ordering" => Ordering!Next \/ UNCHANGED orderVars
         /\ part = "matching" => Matching!Next \/ UNCHANGED matchVars
<1>1. CASE UNCHANGED servicesVars BY <1>1 DEF servicesVars
<1>2. CASE ServicesNext BY <1>2 DEF ServicesNext
<1>3. QED BY <1>1, <1>2

-----------------------------------------------------------------------------
(* LoopHealth, of the worker's two loops.                                    *)

Probed == INSTANCE LoopHealthProofs WITH Loops <- {Poller, Checker}

LEMMA SameLooping ==
  /\ Looping!Init <=> Probed!Init
  /\ Looping!Next <=> Probed!Next
  /\ Looping!StalledIsStuck <=> Probed!StalledIsStuck
BY DEF Looping!Init, Looping!Next, Looping!Clock, Looping!Begin, Looping!Finish, Looping!Tick,
       Looping!StalledIsStuck, Looping!Stalled, Looping!Budget,
       Probed!Init, Probed!Next, Probed!Clock, Probed!Begin, Probed!Finish, Probed!Tick,
       Probed!StalledIsStuck, Probed!Stalled, Probed!Budget

LEMMA LoopsTimed == Probed!Timed
BY ServicesAssumption DEF Probed!Timed, Interval

(* The probe of health.go reports a loop only while a round of its work takes  *)
(* longer than the budget less an interval, and always once it takes longer    *)
(* than the budget, for any floor.                                             *)
THEOREM StuckLoopsAreReported == ServicesSpec => []StalledIsStuck
<1>1. ServicesInit => Probed!LoopInv
  BY LoopsTimed, SameLooping, Probed!InitPunctual DEF ServicesInit
<1>2. Probed!LoopInv /\ [ServicesNext]_servicesVars => Probed!LoopInv'
  BY EachService, LoopsTimed, SameLooping, Probed!NextPunctual DEF loopVars, Probed!loopVars
<1>3. Probed!LoopInv => StalledIsStuck
  BY LoopsTimed, SameLooping, Probed!PunctualIsJudged DEF StalledIsStuck
<1>4. QED BY <1>1, <1>2, <1>3, PTL DEF ServicesSpec, servicesVars

-----------------------------------------------------------------------------
(* Delivering.                                                               *)

Told == INSTANCE DeliveringProofs WITH Targets <- Requests

LEMMA SameSending ==
  /\ Sending!Init <=> Told!Init
  /\ Sending!Next <=> Told!Next
  /\ Sending!SentOnce <=> Told!SentOnce
  /\ Sending!OutcomeIsTrue <=> Told!OutcomeIsTrue
BY DEF Sending!Init, Sending!Next, Sending!SentOnce, Sending!OutcomeIsTrue,
       Sending!CreateEvent, Sending!UpdateEvent, Sending!AttachNotifiers, Sending!ReplaceNotifiers,
       Sending!ChangeStatus, Sending!DeleteNotifier, Sending!Schedule, Sending!Begin, Sending!Attempt,
       Sending!SendNext, Sending!Settle, Sending!Crash, Sending!Retry, Sending!ExecErr, Sending!Rows,
       Sending!Send, Sending!SendWebhook, Sending!SendTelegram, Sending!SendSMS, Sending!SendEmail,
       Sending!Callable, Sending!Arrived, Sending!Answers, Sending!Idle, Sending!None,
       Sending!NoTarget, Sending!Target, Sending!Kinds,
       Told!Init, Told!Next, Told!SentOnce, Told!OutcomeIsTrue,
       Told!CreateEvent, Told!UpdateEvent, Told!AttachNotifiers, Told!ReplaceNotifiers,
       Told!ChangeStatus, Told!DeleteNotifier, Told!Schedule, Told!Begin, Told!Attempt,
       Told!SendNext, Told!Settle, Told!Crash, Told!Retry, Told!ExecErr, Told!Rows,
       Told!Send, Told!SendWebhook, Told!SendTelegram, Told!SendSMS, Told!SendEmail,
       Told!Callable, Told!Arrived, Told!Answers, Told!Idle, Told!None,
       Told!NoTarget, Told!Target, Told!Kinds

DeliveringInv == part = "sending" => Told!DeliveryInv

(* The attempts of notify_handler.go send nobody a message twice unless its    *)
(* sending was reported as failed, and the outcome that is recorded is what    *)
(* became of the messages, for any notifiers and number of attempts.           *)
THEOREM DeliveryIsAlwaysTrue == ServicesSpec => []DeliveryIsTrue
<1>0. MaxAttempts \in Nat \ {0} BY ServicesAssumption
<1>1. ServicesInit => DeliveringInv
  BY <1>0, SameSending, Told!InitDelivery DEF ServicesInit, DeliveringInv
<1>2. DeliveringInv /\ [ServicesNext]_servicesVars => DeliveringInv'
  BY <1>0, EachService, SameSending, Told!NextKeepsDelivery DEF DeliveringInv, sendVars, Told!deliveryVars
<1>3. DeliveringInv => DeliveryIsTrue
  BY <1>0, SameSending, Told!DeliveryMeans DEF DeliveringInv, DeliveryIsTrue
<1>4. QED BY <1>1, <1>2, <1>3, PTL DEF ServicesSpec, servicesVars

-----------------------------------------------------------------------------
(* ProviderRows.                                                             *)

(* A caller, and what it has read of the row. *)
Caller == [at : {"idle", "remember", "answered"}, answer : Resolving!Answers,
           outdated : BOOLEAN, error : BOOLEAN]
Holding(rec) == rec # Resolving!Idle =>
                    rec.answer = row \/ rec.outdated \/ (rec.error /\ rec.answer = {})

ProviderInv == part = "resolving" => Resolving!RowTypeOK /\ Resolving!AnswersAreTrue

LEMMA ResolvingKeeps ==
  ASSUME Resolving!RowTypeOK, Resolving!AnswersAreTrue, NEW r \in Requests,
         \/ Resolving!Lookup(r) \/ Resolving!FindBySlug(r) \/ Resolving!FindFails(r)
         \/ Resolving!Remember(r) \/ Resolving!Resolve(r)
  PROVE  Resolving!RowTypeOK' /\ Resolving!AnswersAreTrue'
<1> USE DEF Caller, Holding
<1>1. PICK rec \in Caller : resolver' = [resolver EXCEPT ![r] = rec] /\ row' = row /\ Holding(rec)
  <2>1. row \in Resolving!Answers /\ {} \in Resolving!Answers /\ resolver[r] \in Caller
        /\ edited \in BOOLEAN /\ blamed \in BOOLEAN
    BY DEF Resolving!RowTypeOK, Resolving!Answers
  <2>2. CASE Resolving!Lookup(r)
    <3>1. PICK x \in cached : resolver' = [resolver EXCEPT ![r] =
              [at |-> "answered", answer |-> x, outdated |-> edited, error |-> blamed]] /\ row' = row
      BY <2>2 DEF Resolving!Lookup, Resolving!Goto
    <3>2. x \in Resolving!Answers BY DEF Resolving!RowTypeOK
    <3>3. x = row \/ edited \/ (blamed /\ x = {}) BY DEF Resolving!AnswersAreTrue
    <3>4. PICK rec : rec = [at |-> "answered", answer |-> x, outdated |-> edited, error |-> blamed]
      OBVIOUS
    <3>5. rec \in Caller /\ Holding(rec) BY <2>1, <3>2, <3>3, <3>4
    <3>6. QED BY <3>1, <3>4, <3>5
  <2>3. CASE Resolving!FindBySlug(r)
    <3>1. PICK rec : rec = [at |-> "remember", answer |-> row, outdated |-> FALSE, error |-> FALSE]
      OBVIOUS
    <3>2. rec \in Caller /\ Holding(rec) BY <2>1, <3>1
    <3>3. QED BY <2>3, <3>1, <3>2 DEF Resolving!FindBySlug, Resolving!Goto
  <2>4. CASE Resolving!FindFails(r)
    <3>1. PICK rec : rec = [at |-> "remember", answer |-> {}, outdated |-> FALSE, error |-> TRUE]
      OBVIOUS
    <3>2. rec \in Caller /\ Holding(rec) BY <2>1, <3>1
    <3>3. QED BY <2>4, <3>1, <3>2 DEF Resolving!FindFails, Resolving!Goto
  <2>5. CASE Resolving!Remember(r)
    <3>1. PICK rec : rec = [resolver[r] EXCEPT !.at = "answered"] OBVIOUS
    <3>2. resolver[r].at = "remember" /\ resolver' = [resolver EXCEPT ![r] = rec] /\ row' = row
      BY <2>5, <3>1 DEF Resolving!Remember, Resolving!Goto
    <3>3. rec \in Caller /\ rec.answer = resolver[r].answer /\ rec.outdated = resolver[r].outdated
          /\ rec.error = resolver[r].error
      BY <2>1, <3>1
    <3>4. Holding(resolver[r]) BY DEF Resolving!AnswersAreTrue
    <3>5. resolver[r] # Resolving!Idle BY <3>2 DEF Resolving!Idle
    <3>6. QED BY <3>2, <3>3, <3>4, <3>5
  <2>6. CASE Resolving!Resolve(r)
    <3>1. Resolving!Idle \in Caller BY <2>1 DEF Resolving!Idle
    <3>2. QED BY <2>6, <3>1 DEF Resolving!Resolve, Resolving!Goto
  <2>7. QED BY <2>2, <2>3, <2>4, <2>5, <2>6
<1>2. /\ edited' \in BOOLEAN /\ blamed' \in BOOLEAN
      /\ cached' \in {{}} \cup {{x} : x \in Resolving!Answers}
      /\ \A x \in cached' : x = row' \/ edited' \/ (blamed' /\ x = {})
  <2>1. CASE UNCHANGED <<cached, edited, blamed>>
    BY <1>1, <2>1 DEF Resolving!RowTypeOK, Resolving!AnswersAreTrue
  <2>2. CASE Resolving!Remember(r) /\ cached' = {resolver[r].answer}
             /\ edited' = resolver[r].outdated /\ blamed' = resolver[r].error
    <3>1. resolver[r] \in Caller /\ Holding(resolver[r]) /\ resolver[r] # Resolving!Idle
      BY <2>2 DEF Resolving!RowTypeOK, Resolving!AnswersAreTrue, Resolving!Remember, Resolving!Idle
    <3>2. QED BY <1>1, <2>2, <3>1
  <2>3. QED BY <2>1, <2>2
    DEF Resolving!Lookup, Resolving!FindBySlug, Resolving!FindFails, Resolving!Remember, Resolving!Resolve
<1>3. Resolving!RowTypeOK' BY <1>1, <1>2 DEF Resolving!RowTypeOK
<1>4. ASSUME NEW q \in Requests
      PROVE  resolver'[q] # Resolving!Idle => \/ resolver'[q].answer = row' \/ resolver'[q].outdated
                                              \/ resolver'[q].error /\ resolver'[q].answer = {}
  <2>1. resolver'[q] = IF q = r THEN rec ELSE resolver[q] BY <1>1 DEF Resolving!RowTypeOK
  <2>2. QED BY <1>1, <2>1 DEF Resolving!AnswersAreTrue
<1>5. QED BY <1>2, <1>3, <1>4 DEF Resolving!AnswersAreTrue

(* An edit is noted by the cache and by everybody who has read the row. *)
LEMMA EditKeeps ==
  ASSUME Resolving!RowTypeOK, Resolving!AnswersAreTrue, NEW content \in Resolving!Answers,
         Resolving!Edit(content) \/ Resolving!Expire
  PROVE  Resolving!RowTypeOK' /\ Resolving!AnswersAreTrue'
<1>1. CASE Resolving!Expire
  <2>1. cached' = {} /\ edited' = FALSE /\ blamed' = FALSE /\ UNCHANGED <<row, resolver>>
    BY <1>1 DEF Resolving!Expire
  <2>2. Resolving!RowTypeOK' BY <2>1 DEF Resolving!RowTypeOK
  <2>3. QED BY <2>1, <2>2 DEF Resolving!AnswersAreTrue
<1>2. CASE Resolving!Edit(content)
  <2> USE DEF Caller
  <2>1. /\ row' = content /\ edited' = (cached # {}) /\ UNCHANGED <<cached, blamed>>
        /\ resolver' = [r \in Requests |-> [resolver[r] EXCEPT !.outdated = resolver[r] # Resolving!Idle]]
    BY <1>2 DEF Resolving!Edit
  <2>2. ASSUME NEW r \in Requests
        PROVE  resolver'[r] \in Caller /\ (resolver'[r] # Resolving!Idle => resolver'[r].outdated)
    <3> DEFINE read == resolver[r] # Resolving!Idle
    <3>1. resolver[r] \in Caller BY DEF Resolving!RowTypeOK
    <3>2. resolver'[r] = [resolver[r] EXCEPT !.outdated = read] BY <2>1
    <3>3. read \in BOOLEAN OBVIOUS
    <3>4. CASE resolver[r] = Resolving!Idle
      <4>1. read = FALSE /\ resolver[r].outdated = FALSE BY <3>4 DEF Resolving!Idle
      <4> HIDE DEF read
      <4>2. [resolver[r] EXCEPT !.outdated = resolver[r].outdated] = resolver[r] BY <3>1
      <4>3. QED BY <3>1, <3>2, <3>4, <4>1, <4>2
    <3>5. CASE resolver[r] # Resolving!Idle
      <4>1. read = TRUE BY <3>5
      <4> HIDE DEF read
      <4>2. QED BY <3>1, <3>2, <4>1
    <3>6. QED BY <3>4, <3>5
  <2>3. Resolving!RowTypeOK'
    <3>1. resolver' \in [Requests -> Caller] BY <2>1, <2>2
    <3>2. QED BY <2>1, <3>1 DEF Resolving!RowTypeOK
  <2>4. QED BY <2>1, <2>2, <2>3 DEF Resolving!AnswersAreTrue
<1>3. QED BY <1>1, <1>2

(* Row of mail_resolver.go: a caller gets the row as it is, or is told that    *)
(* there is none when there is none, but for an edit since it was read and for *)
(* an error of the database that was remembered, for any callers and rows.     *)
THEOREM AnswersAreAlwaysTrue == ServicesSpec => []AnswersAreTrue
<1>1. ServicesInit => ProviderInv
  <2>1. Resolving!Init => Resolving!RowTypeOK /\ Resolving!AnswersAreTrue
    <3>1. {} \in Resolving!Answers BY DEF Resolving!Answers
    <3>2. Resolving!Idle \in Caller BY <3>1 DEF Caller, Resolving!Idle
    <3>3. QED BY <3>2 DEF Caller, Resolving!Init, Resolving!RowTypeOK, Resolving!AnswersAreTrue
  <2>2. QED BY <2>1 DEF ServicesInit, ProviderInv
<1>2. ProviderInv /\ [ServicesNext]_servicesVars => ProviderInv'
  <2> SUFFICES ASSUME ProviderInv, [ServicesNext]_servicesVars, part = "resolving"
               PROVE  Resolving!RowTypeOK' /\ Resolving!AnswersAreTrue'
    BY EachService DEF ProviderInv
  <2>1. Resolving!RowTypeOK /\ Resolving!AnswersAreTrue BY DEF ProviderInv
  <2>2. CASE UNCHANGED rowVars
    BY <2>1, <2>2 DEF rowVars, Resolving!RowTypeOK, Resolving!AnswersAreTrue
  <2>3. CASE Resolving!Next
    <3>1. {} \in Resolving!Answers BY DEF Resolving!Answers
    <3>2. QED BY <2>1, <2>3, <3>1, ResolvingKeeps, EditKeeps DEF Resolving!Next
  <2>4. QED BY <2>2, <2>3, EachService
<1>3. ProviderInv => AnswersAreTrue BY DEF ProviderInv, AnswersAreTrue
<1>4. QED BY <1>1, <1>2, <1>3, PTL DEF ServicesSpec, servicesVars

-----------------------------------------------------------------------------
(* Seeding.                                                                  *)

(* users.json asks for roles that exist. *)
WantedRoles == Wanted \subseteq Roles

Process == [at : {"idle", "provider", "users", "insert", "held", "roles"},
            file : SUBSET Forms, found : SUBSET Forms, missing : SUBSET Roles, overtaken : BOOLEAN]

(* What a process has read still holds, unless it was overtaken. *)
Informed(s) ==
    LET rec == seeder[s] IN
    /\ rec.at = "provider" => (\E p \in Forms : rec.file = {p}) /\ (rec.overtaken \/ rec.found = provider)
    /\ rec.at = "held" => account = {}
    /\ rec.at = "roles" /\ ~rec.overtaken =>
            account # {} /\ \A a \in account : Wanted \subseteq a.roles \cup rec.missing

SowInv ==
    /\ Sowing!SeedTypeOK
    /\ account = {} => ~chosen /\ granted = {}
    /\ \A s \in Requests : Informed(s)
    /\ \A q, s \in Requests : seeder[q].at = "held" /\ seeder[s].at = "held" => q = s
    /\ Sowing!SeedsTakeHold /\ Sowing!SeedingIsGentle

LEMMA InitSows == Sowing!Init => SowInv
<1> SUFFICES ASSUME Sowing!Init PROVE SowInv
  OBVIOUS
<1>1. \A s \in Requests : seeder[s].at = "idle" BY DEF Sowing!Init, Sowing!Idle
<1>2. Sowing!SeedTypeOK BY DEF Sowing!Init, Sowing!Idle, Sowing!SeedTypeOK
<1>3. QED BY <1>1, <1>2 DEF Sowing!Init, SowInv, Informed, Sowing!SeedsTakeHold, Sowing!SeedingIsGentle

(* A process moves, and the tables stay as they are. *)
LEMMA ProcessKeeps ==
  ASSUME SowInv, NEW s \in Requests, NEW rec \in Process,
         seeder' = [seeder EXCEPT ![s] = rec],
         UNCHANGED <<provider, applied, meddled, account, chosen, granted, trusted>>,
         Informed(s)',
         rec.at = "held" => \A q \in Requests : seeder[q].at # "held"
  PROVE  SowInv'
<1>1. seeder \in [Requests -> Process] BY DEF SowInv, Sowing!SeedTypeOK, Process
<1>2. seeder' \in [Requests -> Process] /\ seeder'[s] = rec
      /\ \A q \in Requests : q # s => seeder'[q] = seeder[q]
  BY <1>1
<1>3. Sowing!SeedTypeOK' BY <1>2 DEF SowInv, Sowing!SeedTypeOK, Process
<1>4. \A q \in Requests : Informed(q)' BY <1>2 DEF SowInv, Informed
<1>5. \A p, q \in Requests : seeder'[p].at = "held" /\ seeder'[q].at = "held" => p = q
  BY <1>2 DEF SowInv
<1>6. QED BY <1>3, <1>4, <1>5 DEF SowInv, Sowing!SeedsTakeHold, Sowing!SeedingIsGentle

LEMMA NoProcess == Sowing!Idle \in Process /\ Sowing!Idle.at = "idle"
BY DEF Process, Sowing!Idle

LEMMA ReadProviderKeeps ==
  ASSUME SowInv, NEW s \in Requests, NEW p \in Forms, Sowing!ReadProvider(s, p)
  PROVE  SowInv'
<1>1. PICK rec : rec = [Sowing!Idle EXCEPT !.at = "provider", !.file = {p}, !.found = provider] OBVIOUS
<1>2. seeder' = [seeder EXCEPT ![s] = rec]
      /\ UNCHANGED <<provider, applied, meddled, account, chosen, granted, trusted>>
  BY <1>1 DEF Sowing!ReadProvider, Sowing!providerVars, Sowing!accountVars
<1>3. provider \in SUBSET Forms BY DEF SowInv, Sowing!SeedTypeOK
<1>4. rec \in Process /\ rec.at = "provider" /\ rec.file = {p} /\ rec.found = provider
  BY <1>1, <1>3 DEF Process, Sowing!Idle
<1>5. seeder'[s] = rec BY <1>2 DEF SowInv, Sowing!SeedTypeOK
<1>6. Informed(s)' BY <1>2, <1>4, <1>5 DEF Informed
<1>7. QED BY <1>2, <1>4, <1>6, ProcessKeeps

(* The row is as in the file of the process that wrote it, unless somebody    *)
(* wrote it between its reading and writing.                                  *)
LEMMA WriteProviderKeeps ==
  ASSUME SowInv, NEW s \in Requests, Sowing!WriteProvider(s)
  PROVE  SowInv'
<1> DEFINE rec == seeder[s]
<1>1. /\ rec.at = "provider" /\ provider' = Sowing!Seeded(rec) /\ applied' = rec.file
      /\ meddled' = rec.overtaken /\ UNCHANGED <<account, chosen, granted, trusted>>
      /\ seeder' = [q \in Requests |-> IF q = s THEN [rec EXCEPT !.at = "users", !.overtaken = FALSE]
                                       ELSE [seeder[q] EXCEPT !.overtaken = @ \/ seeder[q].at = "provider"]]
  BY DEF Sowing!WriteProvider, Sowing!accountVars
<1>2. seeder \in [Requests -> Process] BY DEF SowInv, Sowing!SeedTypeOK, Process
<1>3. Informed(s) BY DEF SowInv
<1>4. PICK p \in Forms : rec.file = {p} BY <1>1, <1>3 DEF Informed
<1>5. provider' \in {{}} \cup {{f} : f \in Forms} /\ applied' \in {{}} \cup {{f} : f \in Forms}
  BY <1>1, <1>4 DEF Sowing!Seeded, SowInv, Sowing!SeedTypeOK
<1>6. meddled' \/ provider' = applied' BY <1>1, <1>3 DEF Informed, Sowing!Seeded
<1>7. ASSUME NEW q \in Requests
      PROVE  /\ seeder'[q] \in Process
             /\ seeder'[q].missing = seeder[q].missing
             /\ (seeder'[q].at = seeder[q].at /\ q # s) \/ seeder'[q].at = "users"
             /\ seeder[q].at = "provider" /\ q # s => seeder'[q].overtaken /\ seeder'[q].file = seeder[q].file
             /\ seeder[q].overtaken /\ q # s => seeder'[q].overtaken
  <2>1. CASE q = s
    <3>1. seeder'[q] = [rec EXCEPT !.at = "users", !.overtaken = FALSE] BY <1>1, <2>1
    <3>2. rec \in Process BY <1>2
    <3>3. QED BY <2>1, <3>1, <3>2 DEF Process
  <2>2. CASE q # s
    <3> DEFINE yes == seeder[q].overtaken \/ seeder[q].at = "provider"
    <3>1. seeder'[q] = [seeder[q] EXCEPT !.overtaken = yes] BY <1>1, <2>2
    <3>2. seeder[q] \in Process /\ yes \in BOOLEAN BY <1>2 DEF Process
    <3>3. (seeder[q].overtaken => yes) /\ (seeder[q].at = "provider" => yes) OBVIOUS
    <3> HIDE DEF yes
    <3>4. seeder'[q].overtaken = yes /\ seeder'[q].at = seeder[q].at /\ seeder'[q].file = seeder[q].file
          /\ seeder'[q].missing = seeder[q].missing /\ seeder'[q] \in Process
      BY <3>1, <3>2 DEF Process
    <3>5. QED BY <2>2, <3>3, <3>4
  <2>3. QED BY <2>1, <2>2
<1>8. Sowing!SeedTypeOK'
  <2>1. seeder' \in [Requests -> Process] BY <1>1, <1>7
  <2>2. rec.overtaken \in BOOLEAN BY <1>2 DEF Process
  <2>3. QED BY <1>1, <1>5, <2>1, <2>2 DEF SowInv, Sowing!SeedTypeOK, Process
<1>9. \A q \in Requests : Informed(q)'
  <2> SUFFICES ASSUME NEW q \in Requests PROVE Informed(q)'
    OBVIOUS
  <2>1. Informed(q) BY DEF SowInv
  <2>2. QED BY <1>1, <1>7, <2>1 DEF Informed
<1>10. \A p1, q \in Requests : seeder'[p1].at = "held" /\ seeder'[q].at = "held" => p1 = q
  BY <1>7 DEF SowInv
<1>11. QED BY <1>1, <1>6, <1>8, <1>9, <1>10 DEF SowInv, Sowing!SeedsTakeHold, Sowing!SeedingIsGentle

(* The account that is found lacks what is remembered to be missing, no more. *)
LEMMA FindUserKeeps ==
  ASSUME WantedRoles, SowInv, NEW s \in Requests, Sowing!FindUser(s) \/ Sowing!InsertUser(s)
  PROVE  SowInv'
<1>1. PICK at \in {"insert", "held", "roles"} :
          /\ seeder' = [seeder EXCEPT ![s].at = at, ![s].missing = Sowing!Missing]
          /\ at = "roles" => account # {}
          /\ at = "held" => account = {} /\ \A q \in Requests : seeder[q].at # "held"
          /\ UNCHANGED <<provider, applied, meddled, account, chosen, granted, trusted>>
  BY DEF Sowing!FindUser, Sowing!InsertUser, Sowing!providerVars, Sowing!accountVars
<1>2. seeder \in [Requests -> Process] BY DEF SowInv, Sowing!SeedTypeOK, Process
<1>3. PICK rec : rec = [seeder[s] EXCEPT !.at = at, !.missing = Sowing!Missing] OBVIOUS
<1>4. seeder' = [seeder EXCEPT ![s] = rec] BY <1>1, <1>2, <1>3
<1>5. Sowing!Missing \subseteq Roles BY DEF WantedRoles, Sowing!Missing
<1>6. rec \in Process /\ rec.at = at /\ rec.missing = Sowing!Missing
  <2>1. seeder[s] \in Process BY <1>2
  <2>2. QED BY <1>3, <1>5, <2>1 DEF Process
<1>7. \A a \in account : Wanted \subseteq a.roles \cup Sowing!Missing BY DEF Sowing!Missing
<1>8. seeder'[s] = rec BY <1>2, <1>4
<1>9. Informed(s)' BY <1>1, <1>6, <1>7, <1>8 DEF Informed
<1>10. QED BY <1>1, <1>4, <1>6, <1>9, ProcessKeeps

LEMMA AbortKeeps ==
  ASSUME SowInv, NEW s \in Requests, Sowing!Abort(s)
  PROVE  SowInv'
<1>1. seeder' = [seeder EXCEPT ![s] = Sowing!Idle]
      /\ UNCHANGED <<provider, applied, meddled, account, chosen, granted, trusted>>
  BY DEF Sowing!Abort, Sowing!providerVars, Sowing!accountVars
<1>2. seeder'[s] = Sowing!Idle BY <1>1 DEF SowInv, Sowing!SeedTypeOK
<1>3. Informed(s)' BY <1>2, NoProcess DEF Informed
<1>4. PICK rec : rec = Sowing!Idle OBVIOUS
<1>5. QED BY <1>1, <1>3, <1>4, NoProcess, ProcessKeeps

(* What a commit leaves of the account: the roles of the file in a new one, *)
(* and more roles in one that was there.                                    *)
LEMMA CommitUserKeeps ==
  ASSUME WantedRoles, SowInv, NEW s \in Requests, Sowing!CommitUser(s)
  PROVE  SowInv'
<1> DEFINE rec == seeder[s]
<1>1. /\ rec.at \in {"held", "roles"} /\ UNCHANGED <<provider, applied, meddled, chosen, granted>>
      /\ account' = IF rec.at = "held" THEN {[password |-> "seed", roles |-> Wanted]}
                    ELSE {[a EXCEPT !.roles = @ \cup rec.missing] : a \in account}
      /\ trusted' = (trusted \/ ~rec.overtaken)
      /\ seeder' = [seeder EXCEPT ![s] = Sowing!Idle]
  BY DEF Sowing!CommitUser, Sowing!providerVars
<1>2. seeder \in [Requests -> Process] BY DEF SowInv, Sowing!SeedTypeOK, Process
<1>3. /\ seeder' \in [Requests -> Process] /\ seeder'[s].at = "idle"
      /\ \A q \in Requests : q # s => seeder'[q] = seeder[q]
  BY <1>1, <1>2, NoProcess
<1>4. rec \in Process /\ rec.missing \subseteq Roles /\ rec.overtaken \in BOOLEAN BY <1>2 DEF Process
<1>5. CASE rec.at = "held"
  <2>1. account = {} /\ account' = {[password |-> "seed", roles |-> Wanted]}
    BY <1>1, <1>5 DEF SowInv, Informed
  <2>2. PICK a : a = [password |-> "seed", roles |-> Wanted] OBVIOUS
  <2>3. a \in Sowing!Account /\ a.roles = Wanted BY <2>2 DEF Sowing!Account, WantedRoles
  <2>4. ~chosen /\ granted = {} BY <2>1 DEF SowInv
  <2>5. Sowing!SeedTypeOK'
    BY <1>1, <1>3, <1>4, <2>1, <2>2, <2>3 DEF SowInv, Sowing!SeedTypeOK, Process
  <2>6. ASSUME NEW q \in Requests PROVE Informed(q)'
    <3>1. Informed(q) /\ (q # s => seeder[q].at # "held") BY <1>5 DEF SowInv
    <3>2. QED BY <1>1, <1>3, <2>1, <3>1 DEF Informed
  <2>7. \A p, q \in Requests : seeder'[p].at = "held" /\ seeder'[q].at = "held" => p = q
    BY <1>3 DEF SowInv
  <2>8. Sowing!SeedsTakeHold' BY <1>1, <2>1, <2>2, <2>3 DEF SowInv, Sowing!SeedsTakeHold
  <2>9. Sowing!SeedingIsGentle' BY <1>1, <2>1, <2>2, <2>4 DEF Sowing!SeedingIsGentle
  <2>10. QED BY <1>1, <2>1, <2>5, <2>6, <2>7, <2>8, <2>9 DEF SowInv
<1>6. CASE rec.at = "roles"
  <2>1. account' = {[a EXCEPT !.roles = @ \cup rec.missing] : a \in account} BY <1>1, <1>6
  <2>2. ASSUME NEW a \in account
        PROVE  [a EXCEPT !.roles = @ \cup rec.missing] \in Sowing!Account
               /\ [a EXCEPT !.roles = @ \cup rec.missing].roles = a.roles \cup rec.missing
               /\ [a EXCEPT !.roles = @ \cup rec.missing].password = a.password
    <3>1. a \in Sowing!Account BY DEF SowInv, Sowing!SeedTypeOK
    <3>2. QED BY <1>4, <3>1 DEF Sowing!Account
  <2>3. \A b \in account' : \E a \in account : b.roles = a.roles \cup rec.missing /\ b.password = a.password
    BY <2>1, <2>2
  <2>4. \A a \in account : \E b \in account' : b.roles = a.roles \cup rec.missing
    BY <2>1, <2>2
  <2>5. account' \in {{}} \cup {{a} : a \in Sowing!Account}
    <3>1. CASE account = {} BY <2>1, <3>1
    <3>2. CASE account # {}
      <4>1. PICK a : account = {a} BY <3>2 DEF SowInv, Sowing!SeedTypeOK
      <4>2. account' = {[a EXCEPT !.roles = @ \cup rec.missing]} BY <2>1, <4>1
      <4>3. QED BY <2>2, <4>1, <4>2
    <3>3. QED BY <3>1, <3>2
  <2>6. Sowing!SeedTypeOK' BY <1>1, <1>3, <1>4, <2>5 DEF SowInv, Sowing!SeedTypeOK, Process
  <2>7. account' = {} <=> account = {} BY <2>3, <2>4
  <2>8. ASSUME NEW q \in Requests PROVE Informed(q)'
    <3>1. Informed(q) BY DEF SowInv
    <3>2. CASE q = s BY <1>3, <3>2 DEF Informed
    <3>3. CASE q # s BY <1>1, <1>3, <2>3, <2>7, <3>1, <3>3 DEF Informed
    <3>4. QED BY <3>2, <3>3
  <2>9. \A p, q \in Requests : seeder'[p].at = "held" /\ seeder'[q].at = "held" => p = q
    BY <1>3 DEF SowInv
  <2>10. Sowing!SeedsTakeHold'
    <3>1. CASE trusted
      BY <1>1, <2>4, <3>1 DEF SowInv, Sowing!SeedsTakeHold
    <3>2. CASE ~rec.overtaken
      <4>1. account # {} /\ \A a \in account : Wanted \subseteq a.roles \cup rec.missing
        BY <1>6, <3>2 DEF SowInv, Informed
      <4>2. \E b \in account' : Wanted \subseteq b.roles BY <2>4, <4>1
      <4>3. QED BY <1>1, <4>2 DEF SowInv, Sowing!SeedsTakeHold
    <3>3. CASE ~trusted /\ rec.overtaken
      <4>1. ~trusted' BY <1>1, <3>3
      <4>2. QED BY <1>1, <4>1 DEF SowInv, Sowing!SeedsTakeHold
    <3>4. QED BY <3>1, <3>2, <3>3
  <2>11. Sowing!SeedingIsGentle' BY <1>1, <2>3 DEF SowInv, Sowing!SeedingIsGentle
  <2>12. QED BY <1>1, <2>6, <2>7, <2>8, <2>9, <2>10, <2>11 DEF SowInv
<1>7. QED BY <1>1, <1>5, <1>6

LEMMA AccountKeeps ==
  ASSUME SowInv,
         \/ Sowing!ChangePassword
         \/ \E role \in Roles : Sowing!Register(role)
  PROVE  SowInv'
<1>1. CASE \E role \in Roles : Sowing!Register(role)
  <2>1. PICK role \in Roles : Sowing!Register(role) BY <1>1
  <2>2. /\ account = {} /\ \A s \in Requests : seeder[s].at # "held"
        /\ account' = {[password |-> "owner", roles |-> {role}]} /\ chosen' = TRUE /\ granted' = {role}
        /\ UNCHANGED <<provider, applied, meddled, seeder, trusted>>
    BY <2>1 DEF Sowing!Register, Sowing!providerVars
  <2>3. PICK a : a = [password |-> "owner", roles |-> {role}] OBVIOUS
  <2>4. a \in Sowing!Account /\ a.password = "owner" /\ a.roles = {role} BY <2>3 DEF Sowing!Account
  <2>5. Sowing!SeedTypeOK' BY <2>2, <2>3, <2>4 DEF SowInv, Sowing!SeedTypeOK
  <2>6. ~trusted BY <2>2 DEF SowInv, Sowing!SeedsTakeHold
  <2>7. \A q \in Requests : Informed(q)' BY <2>2 DEF SowInv, Informed
  <2>8. QED BY <2>2, <2>3, <2>4, <2>5, <2>6, <2>7
            DEF SowInv, Sowing!SeedsTakeHold, Sowing!SeedingIsGentle
<1>2. CASE Sowing!ChangePassword
  <2>1. /\ account # {} /\ account' = {[a EXCEPT !.password = "owner"] : a \in account}
        /\ chosen' = TRUE /\ UNCHANGED <<provider, applied, meddled, seeder, granted, trusted>>
    BY <1>2 DEF Sowing!ChangePassword, Sowing!providerVars
  <2>2. PICK a \in Sowing!Account : account = {a} BY <2>1 DEF SowInv, Sowing!SeedTypeOK
  <2>3. PICK b : b = [a EXCEPT !.password = "owner"] OBVIOUS
  <2>4. account' = {b} /\ b \in Sowing!Account /\ b.roles = a.roles /\ b.password = "owner"
    BY <2>1, <2>2, <2>3 DEF Sowing!Account
  <2>5. Sowing!SeedTypeOK' BY <2>1, <2>4 DEF SowInv, Sowing!SeedTypeOK
  <2>6. \A q \in Requests : Informed(q)' BY <2>1, <2>2, <2>4 DEF SowInv, Informed
  <2>7. QED BY <2>1, <2>2, <2>4, <2>5, <2>6 DEF SowInv, Sowing!SeedsTakeHold, Sowing!SeedingIsGentle
<1>3. QED BY <1>1, <1>2

(* An admin overtakes every process that is about to add roles. *)
LEMMA ReplaceRolesKeeps ==
  ASSUME SowInv, NEW roles \in SUBSET Roles, Sowing!ReplaceRoles(roles)
  PROVE  SowInv'
<1>1. /\ account # {} /\ account' = {[a EXCEPT !.roles = roles] : a \in account}
      /\ granted' = roles /\ trusted' = FALSE /\ UNCHANGED <<provider, applied, meddled, chosen>>
      /\ seeder' = [q \in Requests |-> [seeder[q] EXCEPT !.overtaken = @ \/ seeder[q].at = "roles"]]
  BY DEF Sowing!ReplaceRoles, Sowing!providerVars
<1>2. PICK a \in Sowing!Account : account = {a} BY <1>1 DEF SowInv, Sowing!SeedTypeOK
<1>3. PICK b : b = [a EXCEPT !.roles = roles] OBVIOUS
<1>4. account' = {b} /\ b \in Sowing!Account /\ b.roles = roles /\ b.password = a.password
  BY <1>1, <1>2, <1>3 DEF Sowing!Account
<1>5. ASSUME NEW q \in Requests
      PROVE  /\ seeder'[q] \in Process
             /\ seeder'[q].at = seeder[q].at /\ seeder'[q].file = seeder[q].file
             /\ seeder'[q].found = seeder[q].found
             /\ seeder[q].overtaken \/ seeder[q].at = "roles" => seeder'[q].overtaken
  <2> DEFINE yes == seeder[q].overtaken \/ seeder[q].at = "roles"
  <2>1. seeder'[q] = [seeder[q] EXCEPT !.overtaken = yes] BY <1>1
  <2>2. seeder[q] \in Process /\ yes \in BOOLEAN BY DEF SowInv, Sowing!SeedTypeOK, Process
  <2>3. seeder[q].overtaken \/ seeder[q].at = "roles" => yes OBVIOUS
  <2> HIDE DEF yes
  <2>4. seeder'[q].overtaken = yes /\ seeder'[q].at = seeder[q].at /\ seeder'[q].file = seeder[q].file
        /\ seeder'[q].found = seeder[q].found /\ seeder'[q] \in Process
    BY <2>1, <2>2 DEF Process
  <2>5. QED BY <2>3, <2>4
<1>6. Sowing!SeedTypeOK'
  <2>1. seeder' \in [Requests -> Process] BY <1>1, <1>5
  <2>2. QED BY <1>1, <1>4, <2>1 DEF SowInv, Sowing!SeedTypeOK, Process
<1>7. ASSUME NEW q \in Requests PROVE Informed(q)'
  <2>1. Informed(q) BY DEF SowInv
  <2>2. seeder[q].at # "held" BY <1>1, <2>1 DEF Informed
  <2>3. QED BY <1>1, <1>5, <2>1, <2>2 DEF Informed
<1>8. \A p, q \in Requests : seeder'[p].at = "held" /\ seeder'[q].at = "held" => p = q
  BY <1>5 DEF SowInv
<1>9. QED BY <1>1, <1>2, <1>4, <1>6, <1>7, <1>8
          DEF SowInv, Sowing!SeedsTakeHold, Sowing!SeedingIsGentle

LEMMA NextSows == WantedRoles /\ SowInv /\ (Sowing!Next \/ UNCHANGED sowVars) => SowInv'
<1> SUFFICES ASSUME WantedRoles, SowInv, Sowing!Next \/ UNCHANGED sowVars PROVE SowInv'
  OBVIOUS
<1>1. CASE UNCHANGED sowVars
  BY <1>1 DEF sowVars, SowInv, Sowing!SeedTypeOK, Informed, Sowing!SeedsTakeHold, Sowing!SeedingIsGentle
<1>2. CASE Sowing!Next
  BY <1>2, ReadProviderKeeps, WriteProviderKeeps, FindUserKeeps, CommitUserKeeps, AbortKeeps, AccountKeeps,
     ReplaceRolesKeeps
     DEF Sowing!Next
<1>3. QED BY <1>1, <1>2

(* mail_provider_seeder.go and user_seeder.go: seeding takes away no password   *)
(* the owner has set and no role an admin left, and what was seeded is there   *)
(* unless somebody else wrote meanwhile, for any processes, files and roles.   *)
THEOREM SeedsAlwaysKeepAndHold == ServicesSpec => []SeedsKeepAndHold
<1>0. WantedRoles BY ServicesAssumption DEF WantedRoles
<1>1. ServicesInit => SowInv BY InitSows DEF ServicesInit
<1>2. SowInv /\ [ServicesNext]_servicesVars => SowInv' BY <1>0, EachService, NextSows
<1>3. SowInv => SeedsKeepAndHold BY DEF SowInv, SeedsKeepAndHold
<1>4. QED BY <1>1, <1>2, <1>3, PTL DEF ServicesSpec, servicesVars

-----------------------------------------------------------------------------
(* Sets of naturals.                                                         *)

Below == {x \in Nat \X Nat : x[1] < x[2]}

LEMMA BelowIsWellFounded == IsWellFoundedOn(Below, Nat)
BY NatLessThanWellFounded, SMT DEF OpToRel, Below

LEMMA LeastOf ==
  ASSUME NEW S \in SUBSET Nat, S # {}
  PROVE  \E m \in S : \A k \in S : m <= k
<1>1. PICK m \in S : \A k \in S : ~(<<k, m>> \in Below) BY BelowIsWellFounded, WFMin
<1>2. ASSUME NEW k \in S PROVE m <= k
  <2>1. m \in Nat /\ k \in Nat OBVIOUS
  <2>2. ~(k < m) BY <1>1, <2>1 DEF Below
  <2>3. QED BY <2>1, <2>2
<1>3. QED BY <1>2

(* A set of naturals that is bounded has a greatest element. *)
LEMMA GreatestOf ==
  ASSUME NEW S \in SUBSET Nat, S # {}, NEW t \in Nat, \A x \in S : x <= t
  PROVE  Fetching!Max(S) \in S /\ \A x \in S : x <= Fetching!Max(S)
<1> DEFINE Bounds == {b \in Nat : \A x \in S : x <= b}
<1>1. PICK m \in Bounds : \A b \in Bounds : m <= b
  <2>1. Bounds \in SUBSET Nat /\ t \in Bounds OBVIOUS
  <2>2. QED BY <2>1, LeastOf
<1>2. m \in S
  <2>1. SUFFICES ASSUME m \notin S PROVE FALSE
    OBVIOUS
  <2>2. PICK x \in S : TRUE OBVIOUS
  <2>3. m \in Nat /\ x \in Nat /\ x < m BY <1>1, <2>1
  <2>4. m - 1 \in Nat /\ \A y \in S : y <= m - 1 BY <1>1, <2>1, <2>3
  <2>5. m <= m - 1 BY <1>1, <2>4
  <2>6. QED BY <2>3, <2>5
<1>3. \E y \in S : \A x \in S : y >= x BY <1>1, <1>2
<1>4. QED BY <1>3 DEF Fetching!Max

-----------------------------------------------------------------------------
(* ImapFetch.                                                                *)

Stamp == [validity : Nat, last : Nat]
Box == [validity : Nat \ {0}, uids : SUBSET Nat, bad : SUBSET Nat, top : Nat]
Fetch == [at : {"idle", "select", "fetch", "save"}, dry : BOOLEAN, folder : Folders, cursor : Stamp,
          seen : SUBSET Nat, got : SUBSET Nat]

(* The types, without the bounds of the instance that is explored. *)
FetchTyped ==
    /\ server \in [Folders -> Box]
    /\ folder \in Folders /\ home \in Folders
    /\ cursor \in Stamp /\ call \in Fetch
    /\ handed \subseteq Folders \X Nat \X Nat /\ waived \subseteq Folders \X Nat \X Nat
    /\ mixed \in BOOLEAN /\ upset \in BOOLEAN

(* A folder gives its UIDs out in ascending order. *)
Numbered == \A f \in Folders : \A u \in server[f].uids : 1 <= u /\ u <= server[f].top

Reading == call.at \in {"fetch", "save"}

(* The cursor is not ahead of its folder, nor a call of the folder it reads; *)
(* what arrived after the folder was selected is newer than all it had.      *)
NotAhead ==
    /\ cursor.validity = 0 => cursor.last = 0
    /\ cursor.validity <= server[home].validity
    /\ call.at = "idle" => ~call.dry
    /\ call.at # "save" => call.got = {}
    /\ call.at = "select" /\ ~call.dry => call.cursor = cursor
    /\ Reading => call.cursor.validity # 0 /\ call.cursor.validity <= server[call.folder].validity
    /\ call.at = "fetch" =>
        /\ call.cursor.validity = server[call.folder].validity
        /\ \A w \in call.seen : w <= server[call.folder].top
        /\ \A u \in server[call.folder].uids : u \in call.seen \/ \A w \in call.seen : w < u

(* A read goes on where the cursor stands, if its UIDs still mean the same. *)
GoesOn ==
    Reading /\ ~call.dry =>
        /\ \A u \in call.got : u <= call.cursor.last
        /\ call.cursor.validity = cursor.validity =>
            /\ cursor.last <= call.cursor.last
            /\ call.at = "fetch" => call.cursor.last = cursor.last
            /\ \A u \in call.got : cursor.last < u

(* Every UID a cursor has passed went to the filters, was left out, or is in *)
(* the hand of the read the cursor is from.                                  *)
Passed(f, stamp, held) ==
    stamp.validity = server[f].validity =>
        /\ stamp.last <= server[f].top
        /\ \A u \in server[f].uids : u <= stamp.last =>
                u \in held \/ <<f, server[f].validity, u>> \in handed \cup waived

PassedAll ==
    /\ Passed(home, cursor, {})
    /\ Reading /\ ~call.dry => Passed(call.folder, call.cursor, call.got)

(* The filters have seen nothing the cursor has not passed. *)
HandedBelow ==
    /\ home = folder
    /\ call.at # "idle" /\ ~call.dry => call.folder = folder
    /\ Reading /\ ~call.dry => cursor.validity <= call.cursor.validity
    /\ \A x \in handed : x[2] < cursor.validity \/ (x[2] = cursor.validity /\ x[3] <= cursor.last)

ReadInv ==
    /\ FetchTyped /\ Numbered /\ NotAhead /\ GoesOn
    /\ mixed \/ PassedAll
    /\ upset \/ HandedBelow

LEMMA InitReads == Fetching!Init => ReadInv
<1> SUFFICES ASSUME Fetching!Init PROVE ReadInv
  OBVIOUS
<1>1. /\ call.at = "idle" /\ call.dry = FALSE /\ call.got = {} /\ call.folder = folder /\ call \in Fetch
  BY DEF Fetching!Init, Fetching!NoCall, Fetching!NewCursor, Fetch, Stamp
<1>2. cursor.validity = 0 /\ cursor.last = 0 /\ cursor \in Stamp
  BY DEF Fetching!Init, Fetching!NewCursor, Stamp
<1>3. server \in [Folders -> Box] /\ \A f \in Folders : server[f].uids = {}
  BY DEF Fetching!Init, Box
<1>4. FetchTyped BY <1>1, <1>2, <1>3 DEF Fetching!Init, FetchTyped
<1>5. Numbered /\ NotAhead
  BY <1>1, <1>2, <1>3 DEF Fetching!Init, Numbered, NotAhead, Reading, Box
<1>6. server[home].validity \in Nat \ {0} BY <1>4 DEF FetchTyped, Box
<1>7. PassedAll /\ HandedBelow /\ GoesOn
  BY <1>1, <1>2, <1>6 DEF Fetching!Init, PassedAll, Passed, HandedBelow, GoesOn, Reading
<1>8. QED BY <1>4, <1>5, <1>7 DEF ReadInv

-----------------------------------------------------------------------------
(* What happens to a folder. *)

LEMMA ArriveKeeps ==
  ASSUME ReadInv, NEW f \in Folders, NEW garbled \in BOOLEAN, Fetching!Arrive(f, garbled)
  PROVE  ReadInv'
<1> DEFINE uid == server[f].top + 1
<1>1. /\ server' = [server EXCEPT ![f].top = uid, ![f].uids = @ \cup {uid},
                                  ![f].bad = IF garbled THEN @ \cup {uid} ELSE @]
      /\ UNCHANGED <<folder, cursor, call, handed, waived, home, mixed, upset>>
  BY DEF Fetching!Arrive, Fetching!ledger
<1>2. server \in [Folders -> Box] /\ server[f] \in Box /\ uid \in Nat
  BY DEF ReadInv, FetchTyped, Box
<1>3. /\ server' \in [Folders -> Box]
      /\ server'[f].validity = server[f].validity /\ server'[f].top = uid
      /\ server'[f].uids = server[f].uids \cup {uid}
      /\ \A g \in Folders : g # f => server'[g] = server[g]
  <2>1. PICK box : box = [server[f] EXCEPT !.top = uid, !.uids = @ \cup {uid},
                                        !.bad = IF garbled THEN @ \cup {uid} ELSE @]
    OBVIOUS
  <2>2. server' = [server EXCEPT ![f] = box] BY <1>1, <1>2, <2>1
  <2>3. /\ box \in Box /\ box.validity = server[f].validity /\ box.top = uid
        /\ box.uids = server[f].uids \cup {uid}
    BY <1>2, <2>1 DEF Box
  <2>4. QED BY <1>2, <2>2, <2>3
<1>4. ASSUME NEW g \in Folders
      PROVE  /\ server'[g].validity = server[g].validity
             /\ server[g].top \in Nat /\ server[g].top <= server'[g].top
             /\ server[g].uids \subseteq server'[g].uids
             /\ \A u \in server'[g].uids : u \in server[g].uids \/ server[g].top < u
             /\ \A u \in server'[g].uids : u \in Nat
  BY <1>2, <1>3 DEF Box
<1>5. FetchTyped' BY <1>1, <1>3 DEF ReadInv, FetchTyped
<1>6. Numbered'
  <2>1. \A u \in server'[f].uids : 1 <= u /\ u <= server'[f].top
    BY <1>2, <1>3 DEF ReadInv, Numbered, Box
  <2>2. QED BY <1>3, <2>1 DEF ReadInv, Numbered
<1>7. call.folder \in Folders /\ home \in Folders /\ call.seen \subseteq Nat
      /\ cursor.last \in Nat /\ call.cursor.last \in Nat
  BY DEF ReadInv, FetchTyped, Fetch, Stamp
<1>8. NotAhead'
  <2>1. ASSUME call.at = "fetch"
        PROVE  /\ \A w \in call.seen : w <= server'[call.folder].top
               /\ \A u \in server'[call.folder].uids : u \in call.seen \/ \A w \in call.seen : w < u
    <3>1. \A w \in call.seen : w \in Nat /\ w <= server[call.folder].top
      BY <1>7, <2>1 DEF ReadInv, NotAhead
    <3>2. \A w \in call.seen : w <= server'[call.folder].top BY <1>2, <1>3, <1>4, <1>7, <3>1 DEF Box
    <3>3. ASSUME NEW u \in server'[call.folder].uids, u \notin call.seen, NEW w \in call.seen PROVE w < u
      <4>1. CASE u \in server[call.folder].uids BY <2>1, <3>3, <4>1 DEF ReadInv, NotAhead
      <4>2. CASE server[call.folder].top < u BY <1>4, <1>7, <3>1, <4>2
      <4>3. QED BY <1>4, <1>7, <4>1, <4>2
    <3>4. QED BY <3>2, <3>3
  <2>2. QED BY <1>1, <1>4, <1>7, <2>1 DEF ReadInv, NotAhead, Reading
<1>9. GoesOn' BY <1>1 DEF ReadInv, GoesOn, Reading
<1>10. PassedAll => PassedAll'
  <2>1. ASSUME NEW g \in Folders, NEW stamp \in Stamp, NEW held, Passed(g, stamp, held)
        PROVE  Passed(g, stamp, held)'
    <3> SUFFICES ASSUME stamp.validity = server'[g].validity
                 PROVE  /\ stamp.last <= server'[g].top
                        /\ \A u \in server'[g].uids : u <= stamp.last =>
                                u \in held \/ <<g, server'[g].validity, u>> \in handed' \cup waived'
      BY DEF Passed
    <3>1. stamp.last \in Nat /\ stamp.last <= server[g].top BY <1>4, <2>1 DEF Passed, Stamp
    <3>2. server'[g].top \in Nat BY <1>3 DEF Box
    <3>3. stamp.last <= server'[g].top BY <1>4, <3>1, <3>2
    <3>4. ASSUME NEW u \in server'[g].uids, u <= stamp.last PROVE u \in server[g].uids
      BY <1>4, <3>1, <3>4
    <3>5. QED BY <1>1, <1>4, <2>1, <3>3, <3>4 DEF Passed
  <2>2. cursor \in Stamp /\ call.cursor \in Stamp BY DEF ReadInv, FetchTyped, Fetch
  <2>3. QED BY <1>1, <1>7, <2>1, <2>2 DEF PassedAll, Reading
<1>11. HandedBelow => HandedBelow' BY <1>1 DEF HandedBelow, Reading
<1>12. QED BY <1>1, <1>5, <1>6, <1>8, <1>9, <1>10, <1>11 DEF ReadInv

(* A message that is still in its folder is not forgotten. *)
LEMMA StillThere ==
  ASSUME FetchTyped, NEW f \in Folders, NEW g \in Folders, NEW u \in server'[g].uids,
         handed' = Fetching!Within(handed, f), waived' = Fetching!Within(waived, f),
         g # f \/ server'[f].validity = server[f].validity
  PROVE  <<g, server[g].validity, u>> \in handed \cup waived
            => <<g, server[g].validity, u>> \in handed' \cup waived'
<1> DEFINE x == <<g, server[g].validity, u>>
<1>1. x[1] = g /\ x[2] = server[g].validity /\ x[3] = u OBVIOUS
<1>2. x[1] = f => x[2] = server'[f].validity /\ x[3] \in server'[f].uids BY <1>1
<1> HIDE DEF x
<1>3. x \in handed => x \in handed' BY <1>2 DEF Fetching!Within
<1>4. x \in waived => x \in waived' BY <1>2 DEF Fetching!Within
<1>5. QED BY <1>3, <1>4 DEF x

LEMMA ExpungeKeeps ==
  ASSUME ReadInv, NEW f \in Folders, NEW uid, Fetching!Expunge(f, uid)
  PROVE  ReadInv'
<1>1. /\ server' = [server EXCEPT ![f].uids = @ \ {uid}]
      /\ handed' = Fetching!Within(handed, f) /\ waived' = Fetching!Within(waived, f)
      /\ UNCHANGED <<folder, cursor, call, home, mixed, upset>>
  BY DEF Fetching!Expunge
<1>2. server \in [Folders -> Box] /\ FetchTyped BY DEF ReadInv, FetchTyped
<1>3. /\ server' \in [Folders -> Box]
      /\ \A g \in Folders : /\ server'[g].validity = server[g].validity /\ server'[g].top = server[g].top
                            /\ server'[g].uids \subseteq server[g].uids
  <2>1. PICK box : box = [server[f] EXCEPT !.uids = @ \ {uid}] OBVIOUS
  <2>2. server' = [server EXCEPT ![f] = box] BY <1>1, <1>2, <2>1
  <2>3. /\ box \in Box /\ box.validity = server[f].validity /\ box.top = server[f].top
        /\ box.uids \subseteq server[f].uids
    <3>1. server[f] \in Box BY <1>2
    <3>2. QED BY <2>1, <3>1 DEF Box
  <2>4. QED BY <1>2, <2>2, <2>3
<1>4. handed' \subseteq handed /\ waived' \subseteq waived BY <1>1 DEF Fetching!Within
<1>5. call.folder \in Folders /\ home \in Folders BY <1>2 DEF FetchTyped, Fetch
<1>6. FetchTyped' BY <1>1, <1>3, <1>4 DEF ReadInv, FetchTyped
<1>7. Numbered' BY <1>3 DEF ReadInv, Numbered
<1>8. NotAhead' BY <1>1, <1>3, <1>5 DEF ReadInv, NotAhead, Reading
<1>9. GoesOn' BY <1>1 DEF ReadInv, GoesOn, Reading
<1>10. PassedAll => PassedAll'
  <2>1. ASSUME NEW g \in Folders, NEW stamp, NEW held, Passed(g, stamp, held)
        PROVE  Passed(g, stamp, held)'
    <3>1. \A u \in server'[g].uids : <<g, server[g].validity, u>> \in handed \cup waived
                                        => <<g, server[g].validity, u>> \in handed' \cup waived'
      BY <1>1, <1>2, <1>3, StillThere
    <3>2. QED BY <1>3, <2>1, <3>1 DEF Passed
  <2>2. QED BY <1>1, <1>5, <2>1 DEF PassedAll, Reading
<1>11. HandedBelow => HandedBelow' BY <1>1, <1>4 DEF HandedBelow, Reading
<1>12. QED BY <1>1, <1>6, <1>7, <1>8, <1>9, <1>10, <1>11 DEF ReadInv

LEMMA RenumberKeeps ==
  ASSUME ReadInv, NEW f \in Folders, Fetching!Renumber(f)
  PROVE  ReadInv'
<1> DEFINE n == Fetching!Cardinality(server[f].uids)
           box == [validity |-> server[f].validity + 1, uids |-> 1..n, bad |-> {}, top |-> n]
<1>1. /\ server' = [server EXCEPT ![f] = box] /\ call.at # "fetch"
      /\ handed' = Fetching!Within(handed, f) /\ waived' = Fetching!Within(waived, f)
      /\ UNCHANGED <<folder, cursor, call, home, mixed, upset>>
  BY DEF Fetching!Renumber
<1>2. server \in [Folders -> Box] /\ FetchTyped BY DEF ReadInv, FetchTyped
<1>3. n \in Nat
  <2>1. server[f].top \in Nat /\ server[f].uids \subseteq 1..server[f].top
    BY <1>2 DEF ReadInv, Numbered, Box
  <2>2. IsFiniteSet(1..server[f].top) BY <2>1, FS_Interval
  <2>3. IsFiniteSet(server[f].uids) BY <2>1, <2>2, FS_Subset
  <2>4. Cardinality(server[f].uids) \in Nat BY <2>3, FS_CardinalityType
  <2>5. n = Cardinality(server[f].uids) BY DEF Fetching!Cardinality, Cardinality
  <2>6. QED BY <2>4, <2>5
<1>4. server[f].validity \in Nat \ {0} BY <1>2 DEF Box
<1>5. PICK b : b = box OBVIOUS
<1>6. /\ b \in Box /\ b.validity = server[f].validity + 1 /\ b.top = n /\ b.uids = 1..n
  BY <1>3, <1>4, <1>5 DEF Box
<1>7. /\ server' \in [Folders -> Box] /\ server'[f] = b
      /\ \A g \in Folders : g # f => server'[g] = server[g]
  BY <1>1, <1>2, <1>5, <1>6
<1>8. handed' \subseteq handed /\ waived' \subseteq waived BY <1>1 DEF Fetching!Within
<1>9. call.folder \in Folders /\ home \in Folders /\ cursor.validity \in Nat /\ call.cursor.validity \in Nat
  BY <1>2 DEF FetchTyped, Fetch, Stamp
<1>10. FetchTyped' BY <1>1, <1>7, <1>8 DEF ReadInv, FetchTyped
<1>11. Numbered'
  <2>1. \A u \in server'[f].uids : 1 <= u /\ u <= server'[f].top BY <1>3, <1>6, <1>7
  <2>2. QED BY <1>7, <2>1 DEF ReadInv, Numbered
<1>12. \A g \in Folders : server[g].validity \in Nat /\ server[g].validity <= server'[g].validity
                          /\ server'[g].validity # 0
  <2>1. ASSUME NEW g \in Folders, g # f PROVE server[g].validity \in Nat \ {0} BY <1>2 DEF Box
  <2>2. server[f].validity <= server'[f].validity /\ server'[f].validity # 0 BY <1>4, <1>6, <1>7
  <2>3. QED BY <1>4, <1>7, <2>1, <2>2
<1>13. NotAhead'
  <2>1. cursor.validity <= server'[home].validity
    <3>1. cursor.validity <= server[home].validity BY DEF ReadInv, NotAhead
    <3>2. server'[home].validity \in Nat BY <1>7, <1>9 DEF Box
    <3>3. QED BY <1>9, <1>12, <3>1, <3>2
  <2>2. Reading => call.cursor.validity <= server'[call.folder].validity
    <3>1. Reading => call.cursor.validity <= server[call.folder].validity BY DEF ReadInv, NotAhead
    <3>2. server'[call.folder].validity \in Nat BY <1>7, <1>9 DEF Box
    <3>3. QED BY <1>9, <1>12, <3>1, <3>2
  <2>3. QED BY <1>1, <2>1, <2>2 DEF ReadInv, NotAhead, Reading
<1>14. GoesOn' BY <1>1 DEF ReadInv, GoesOn, Reading
<1>15. PassedAll => PassedAll'
  <2>1. ASSUME NEW g \in Folders, NEW stamp \in Stamp, NEW held, Passed(g, stamp, held),
               stamp.validity <= server[g].validity
        PROVE  Passed(g, stamp, held)'
    <3>1. CASE g = f
      <4>1. stamp.validity \in Nat BY DEF Stamp
      <4>2. stamp.validity # server'[g].validity BY <1>4, <1>6, <1>7, <2>1, <3>1, <4>1
      <4>3. QED BY <4>2 DEF Passed
    <3>2. CASE g # f
      <4>1. \A u \in server'[g].uids : <<g, server[g].validity, u>> \in handed \cup waived
                                          => <<g, server[g].validity, u>> \in handed' \cup waived'
        BY <1>1, <1>2, <3>2, StillThere
      <4>2. server'[g] = server[g] BY <1>7, <3>2
      <4>3. QED BY <2>1, <4>1, <4>2 DEF Passed
    <3>3. QED BY <3>1, <3>2
  <2>2. cursor \in Stamp /\ call.cursor \in Stamp BY <1>2 DEF FetchTyped, Fetch
  <2>3. cursor.validity <= server[home].validity
        /\ (Reading => call.cursor.validity <= server[call.folder].validity)
    BY DEF ReadInv, NotAhead
  <2>4. QED BY <1>1, <1>9, <2>1, <2>2, <2>3 DEF PassedAll, Reading
<1>16. HandedBelow => HandedBelow' BY <1>1, <1>8 DEF HandedBelow, Reading
<1>17. QED BY <1>1, <1>10, <1>11, <1>13, <1>14, <1>15, <1>16 DEF ReadInv

LEMMA RedirectKeeps ==
  ASSUME ReadInv, NEW f \in Folders, Fetching!Redirect(f)
  PROVE  ReadInv'
<1>1. folder' = f /\ upset' = TRUE /\ UNCHANGED <<server, cursor, call, handed, waived, home, mixed>>
  BY DEF Fetching!Redirect
<1>2. QED BY <1>1 DEF ReadInv, FetchTyped, Numbered, NotAhead, GoesOn, Reading, PassedAll, Passed

-----------------------------------------------------------------------------
(* What a call does. *)

(* A call that ends, or is about to select its folder, passes nothing. *)
LEMMA CallKeeps ==
  ASSUME ReadInv, UNCHANGED <<server, folder, cursor, handed, waived, home, mixed, upset>>,
         call' \in Fetch, call'.got = {},
         \/ call'.at = "idle" /\ ~call'.dry
         \/ call'.at = "select" /\ (~call'.dry => call'.cursor = cursor /\ call'.folder = folder)
  PROVE  ReadInv'
<1>1. call'.at \in {"idle", "select"} OBVIOUS
<1>2. FetchTyped' /\ Numbered' BY DEF ReadInv, FetchTyped, Numbered
<1>3. NotAhead' /\ GoesOn' BY <1>1 DEF ReadInv, NotAhead, GoesOn, Reading
<1>4. PassedAll => PassedAll' BY <1>1 DEF PassedAll, Passed, Reading
<1>5. HandedBelow => HandedBelow' BY <1>1 DEF HandedBelow, Reading
<1>6. QED BY <1>2, <1>3, <1>4, <1>5 DEF ReadInv

LEMMA NoFetch ==
  ASSUME FetchTyped, call' = Fetching!NoCall
  PROVE  call' \in Fetch /\ call'.got = {} /\ call'.at = "idle" /\ ~call'.dry
BY DEF FetchTyped, Fetching!NoCall, Fetching!NewCursor, Fetch, Stamp

LEMMA ConnectsKeep ==
  ASSUME ReadInv,
         \/ Fetching!Connect \/ Fetching!Answer \/ Fetching!GiveUp
         \/ \E f \in Folders : Fetching!Test(f)
  PROVE  ReadInv'
<1>1. UNCHANGED <<server, folder, cursor, handed, waived, home, mixed, upset>>
  BY DEF Fetching!Connect, Fetching!Answer, Fetching!GiveUp, Fetching!Test, Fetching!ledger
<1>2. FetchTyped /\ call \in Fetch /\ folder \in Folders /\ cursor \in Stamp BY DEF ReadInv, FetchTyped
<1>3. CASE Fetching!Answer \/ Fetching!GiveUp
  BY <1>1, <1>2, <1>3, NoFetch, CallKeeps DEF Fetching!Answer, Fetching!GiveUp
<1>4. CASE Fetching!Connect
  <2>1. call.at = "idle" /\ call' = [call EXCEPT !.at = "select", !.folder = folder, !.cursor = cursor]
    BY <1>4 DEF Fetching!Connect
  <2>2. call' \in Fetch /\ call'.at = "select" /\ call'.folder = folder /\ call'.cursor = cursor
        /\ call'.got = call.got
    BY <1>2, <2>1 DEF Fetch
  <2>3. call.got = {} BY <2>1 DEF ReadInv, NotAhead
  <2>4. QED BY <1>1, <2>2, <2>3, CallKeeps
<1>5. ASSUME NEW f \in Folders, Fetching!Test(f) PROVE ReadInv'
  <2>1. call.at = "idle" /\ call' = [call EXCEPT !.at = "select", !.dry = TRUE, !.folder = f]
    BY <1>5 DEF Fetching!Test
  <2>2. call' \in Fetch /\ call'.at = "select" /\ call'.dry /\ call'.got = call.got
    BY <1>2, <2>1 DEF Fetch
  <2>3. call.got = {} BY <2>1 DEF ReadInv, NotAhead
  <2>4. QED BY <1>1, <2>2, <2>3, CallKeeps
<1>6. QED BY <1>3, <1>4, <1>5

(* What a read takes up is the cursor, or a new one that has passed nothing. *)
LEMMA SelectKeeps ==
  ASSUME ReadInv, Fetching!Select
  PROVE  ReadInv'
<1> DEFINE f == call.folder
           c == Fetching!Restarted(call.cursor, server[f].validity)
<1>1. CASE Fetching!GiveUp BY <1>1, ConnectsKeep
<1>2. CASE ~Fetching!GiveUp
  <2>1. /\ call.at = "select"
        /\ call' = [call EXCEPT !.cursor = c, !.seen = server[f].uids,
                                !.at = IF server[f].uids = {} THEN "save" ELSE "fetch"]
        /\ mixed' = (mixed \/ (c.last > 0 /\ home # f))
        /\ UNCHANGED <<server, folder, cursor, handed, waived, home, upset>>
    BY <1>2 DEF Fetching!Select
  <2>2. /\ FetchTyped /\ call \in Fetch /\ f \in Folders /\ server[f] \in Box
        /\ cursor \in Stamp /\ call.cursor \in Stamp /\ server[home] \in Box /\ mixed \in BOOLEAN
    BY DEF ReadInv, FetchTyped, Fetch
  <2>3. /\ c \in Stamp /\ c.validity = server[f].validity
        /\ c.last = 0 \/ (c.last = call.cursor.last /\ call.cursor.validity \in {0, c.validity})
        /\ call.cursor.validity = c.validity => c.last = call.cursor.last
    BY <2>2 DEF Fetching!Restarted, Stamp, Box
  <2> HIDE DEF c
  <2>4. /\ call' \in Fetch /\ call'.dry = call.dry /\ call'.folder = f /\ call'.cursor = c
        /\ call'.seen = server[f].uids /\ call'.got = call.got /\ call'.at \in {"fetch", "save"}
    <3> DEFINE at == IF server[f].uids = {} THEN "save" ELSE "fetch"
    <3>1. at \in {"fetch", "save"} /\ server[f].uids \in SUBSET Nat BY <2>2 DEF Box
    <3> HIDE DEF at
    <3>2. call' = [call EXCEPT !.cursor = c, !.seen = server[f].uids, !.at = at] BY <2>1 DEF at
    <3>3. QED BY <2>2, <2>3, <3>1, <3>2 DEF Fetch
  <2>5. call.got = {} /\ (~call.dry => call.cursor = cursor) /\ (cursor.validity = 0 => cursor.last = 0)
        /\ cursor.validity <= server[home].validity
    BY <2>1 DEF ReadInv, NotAhead
  <2>6. FetchTyped' /\ Numbered' BY <2>1, <2>4, <2>2 DEF ReadInv, FetchTyped, Numbered
  <2>7. NotAhead'
    <3>1. c.validity # 0 /\ c.validity <= server[f].validity BY <2>2, <2>3 DEF Box
    <3>2. \A w \in server[f].uids : w <= server[f].top BY <2>2 DEF ReadInv, Numbered
    <3>3. QED BY <2>1, <2>3, <2>4, <2>5, <3>1, <3>2 DEF NotAhead, Reading
  <2>8. GoesOn'
    <3>1. ~call.dry /\ c.validity = cursor.validity => c.last = cursor.last BY <2>3, <2>5
    <3>2. cursor.last \in Nat /\ cursor.last <= cursor.last BY <2>2 DEF Stamp
    <3>3. QED BY <2>1, <2>4, <2>5, <3>1, <3>2 DEF GoesOn, Reading
  <2>9. mixed' \/ PassedAll'
    <3> SUFFICES ASSUME ~mixed' PROVE PassedAll'
      OBVIOUS
    <3>1. ~mixed /\ PassedAll /\ (c.last > 0 => home = f) BY <2>1, <2>2 DEF ReadInv
    <3>2. ASSUME ~call.dry PROVE Passed(f, c, {})
      <4>1. CASE c.last = 0
        <5>1. server[f].top \in Nat /\ \A u \in server[f].uids : ~(u <= 0) BY <2>2 DEF ReadInv, Numbered, Box
        <5>2. QED BY <4>1, <5>1 DEF Passed
      <4>2. CASE c.last # 0
        <5>1. c.last > 0 /\ home = f BY <2>3, <3>1, <4>2 DEF Stamp
        <5>2. c.last = cursor.last /\ cursor.validity = c.validity BY <2>3, <2>5, <3>2, <4>2
        <5>3. QED BY <3>1, <5>1, <5>2 DEF PassedAll, Passed
      <4>3. QED BY <4>1, <4>2
    <3>3. QED BY <2>1, <2>4, <2>5, <3>1, <3>2 DEF PassedAll, Passed, Reading
  <2>10. HandedBelow => HandedBelow'
    <3>1. ASSUME HandedBelow, ~call.dry PROVE cursor.validity <= c.validity /\ f = folder
      BY <2>1, <2>3, <2>5, <3>1 DEF HandedBelow
    <3>2. QED BY <2>1, <2>4, <3>1 DEF HandedBelow, Reading
  <2>11. QED BY <2>1, <2>6, <2>7, <2>8, <2>9, <2>10 DEF ReadInv
<1>3. QED BY <1>1, <1>2

(* The cursor a read makes is the greatest UID it brought, or stays. *)
LEMMA FetchKeeps ==
  ASSUME ReadInv, Fetching!FetchMessages
  PROVE  ReadInv'
<1> DEFINE f == call.folder
           box == server[f]
           last == call.cursor.last
           unread == Fetching!Unread(box, call.cursor, call.seen)
           parsed == unread \ box.bad
           new == Fetching!Max(parsed \cup {last})
           of(uids) == {<<f, box.validity, u>> : u \in uids}
<1>1. CASE Fetching!GiveUp BY <1>1, ConnectsKeep
<1>2. CASE ~Fetching!GiveUp
  <2>1. /\ call.at = "fetch"
        /\ call' = [call EXCEPT !.at = "save", !.seen = {}, !.got = parsed, !.cursor.last = new]
        /\ waived' = IF call.dry THEN waived
                     ELSE waived \cup of(unread \cap box.bad)
                          \cup (IF last = 0 THEN of(call.seen \ Fetching!Newest(call.seen)) ELSE {})
        /\ UNCHANGED <<server, folder, cursor, handed, home, mixed, upset>>
    BY <1>2 DEF Fetching!FetchMessages
  <2>2. /\ FetchTyped /\ call \in Fetch /\ f \in Folders /\ box \in Box
        /\ cursor \in Stamp /\ call.cursor \in Stamp /\ call.seen \subseteq Nat
        /\ last \in Nat /\ box.top \in Nat /\ box.uids \subseteq Nat /\ box.validity \in Nat \ {0}
    BY DEF ReadInv, FetchTyped, Fetch, Stamp, Box
  <2>3. \A u \in box.uids : 1 <= u /\ u <= box.top BY <2>2 DEF ReadInv, Numbered
  <2>4. unread \subseteq box.uids BY DEF Fetching!Unread, Fetching!FromTo
  <2>5. ASSUME NEW u \in unread PROVE last < u
    <3>1. CASE last = 0 BY <2>2, <2>3, <2>4, <2>5, <3>1
    <3>2. CASE last # 0 BY <2>2, <2>4, <2>5, <3>2 DEF Fetching!Unread
    <3>3. QED BY <3>1, <3>2
  <2>6. ASSUME NEW u \in box.uids, last < u
        PROVE  /\ last # 0 => u \in unread
               /\ last = 0 /\ u \in Fetching!Newest(call.seen) => u \in unread
    <3>1. u \in Nat /\ u >= last + 1 BY <2>2, <2>6
    <3>2. QED BY <2>2, <2>6, <3>1 DEF Fetching!Unread, Fetching!FromTo
  <2>7. last = 0 => unread \subseteq call.seen BY DEF Fetching!Unread, Fetching!Newest
  <2> HIDE DEF unread
  <2>8. /\ new \in parsed \cup {last} /\ new \in Nat
        /\ \A x \in parsed \cup {last} : x <= new
    <3> DEFINE S == parsed \cup {last}
    <3>1. S \in SUBSET Nat /\ S # {} BY <2>2, <2>4
    <3>2. box.top + last \in Nat /\ \A x \in S : x <= box.top + last BY <2>2, <2>3, <2>4
    <3> HIDE DEF S
    <3>3. Fetching!Max(S) \in S /\ \A x \in S : x <= Fetching!Max(S) BY <3>1, <3>2, GreatestOf
    <3>4. QED BY <3>1, <3>3 DEF S
  <2> HIDE DEF new
  <2>9. PICK stamp : stamp = [call.cursor EXCEPT !.last = new] OBVIOUS
  <2>10. stamp \in Stamp /\ stamp.validity = call.cursor.validity /\ stamp.last = new
    BY <2>2, <2>8, <2>9 DEF Stamp
  <2>11. parsed \subseteq unread /\ parsed \in SUBSET Nat BY <2>2, <2>4
  <2>12. /\ call' \in Fetch /\ call'.dry = call.dry /\ call'.folder = f /\ call'.cursor = stamp
         /\ call'.got = parsed /\ call'.at = "save"
    <3> HIDE DEF parsed
    <3>1. call' = [call EXCEPT !.at = "save", !.seen = {}, !.got = parsed, !.cursor = stamp]
      BY <2>1, <2>2, <2>9 DEF Fetch
    <3>2. QED BY <2>2, <2>10, <2>11, <3>1 DEF Fetch
  <2>13. /\ waived \subseteq waived' /\ waived' \subseteq Folders \X Nat \X Nat
         /\ ~call.dry => of(unread \cap box.bad) \subseteq waived'
         /\ ~call.dry /\ last = 0 => of(call.seen \ Fetching!Newest(call.seen)) \subseteq waived'
    <3>1. \A U \in SUBSET Nat : of(U) \subseteq Folders \X Nat \X Nat BY <2>2
    <3>2. unread \cap box.bad \in SUBSET Nat /\ call.seen \ Fetching!Newest(call.seen) \in SUBSET Nat
      BY <2>2, <2>4
    <3>3. waived \subseteq Folders \X Nat \X Nat BY <2>2 DEF FetchTyped
    <3> HIDE DEF of
    <3>4. QED BY <2>1, <3>1, <3>2, <3>3
  <2>14. /\ call.got = {} /\ call.cursor.validity = box.validity
         /\ \A u \in box.uids : u \in call.seen \/ \A w \in call.seen : w < u
    BY <2>1 DEF ReadInv, NotAhead
  <2>15. FetchTyped' BY <2>1, <2>2, <2>12, <2>13 DEF FetchTyped
  <2>16. Numbered' BY <2>1 DEF ReadInv, Numbered
  <2>17. NotAhead'
    <3>1. stamp.validity # 0 /\ stamp.validity <= server[f].validity BY <2>2, <2>10, <2>14
    <3>2. QED BY <2>1, <2>12, <3>1 DEF ReadInv, NotAhead, Reading
  <2>18. GoesOn'
    <3>1. call.dry \/ (call.cursor.validity = cursor.validity => cursor.last = last)
      BY <2>1 DEF ReadInv, GoesOn, Reading
    <3>2. last <= new /\ \A u \in parsed : u <= new /\ last < u BY <2>5, <2>8, <2>11
    <3>3. QED BY <2>1, <2>10, <2>12, <3>1, <3>2 DEF GoesOn, Reading
  <2>19. PassedAll => PassedAll'
    <3> SUFFICES ASSUME PassedAll PROVE PassedAll'
      OBVIOUS
    <3>1. Passed(home, cursor, {})' BY <2>1, <2>13 DEF PassedAll, Passed
    <3>2. ASSUME ~call.dry
          PROVE  /\ new <= box.top
                 /\ \A u \in box.uids : u <= new =>
                        u \in parsed \/ <<f, box.validity, u>> \in handed \cup waived'
      <4>1. Passed(f, call.cursor, {}) BY <2>1, <2>14, <3>2 DEF PassedAll, Reading
      <4>2. new <= box.top BY <2>2, <2>3, <2>4, <2>8, <2>11, <2>14, <4>1 DEF Passed
      <4>3. ASSUME NEW u \in box.uids, u <= new
            PROVE  u \in parsed \/ <<f, box.validity, u>> \in handed \cup waived'
        <5>1. u \in Nat BY <2>2
        <5>2. CASE u <= last BY <2>13, <2>14, <4>1, <5>2 DEF Passed
        <5>3. CASE u \in unread
          <6>1. u \in parsed \/ <<f, box.validity, u>> \in of(unread \cap box.bad) BY <5>3
          <6>2. QED BY <2>13, <3>2, <6>1
        <5>4. CASE last < u /\ u \notin unread
          <6>1. last = 0 /\ u \notin Fetching!Newest(call.seen) BY <2>6, <5>4
          <6>2. new # 0 /\ new \in call.seen BY <2>7, <2>8, <2>11, <4>3, <5>1, <5>4, <6>1
          <6>3. u \in call.seen BY <2>2, <2>8, <2>14, <4>3, <5>1, <6>2
          <6>4. <<f, box.validity, u>> \in of(call.seen \ Fetching!Newest(call.seen)) BY <6>1, <6>3
          <6>5. QED BY <2>13, <3>2, <6>1, <6>4
        <5>5. QED BY <2>2, <5>1, <5>2, <5>3, <5>4
      <4>4. QED BY <4>2, <4>3
    <3> HIDE DEF parsed
    <3>3. ~call.dry => Passed(call.folder, call.cursor, call.got)'
      BY <2>1, <2>10, <2>12, <3>2 DEF Passed
    <3>4. QED BY <2>1, <2>12, <3>1, <3>3 DEF PassedAll, Reading
  <2>20. HandedBelow => HandedBelow'
    BY <2>1, <2>10, <2>12 DEF HandedBelow, Reading
  <2>21. QED BY <2>1, <2>15, <2>16, <2>17, <2>18, <2>19, <2>20 DEF ReadInv
<1>3. QED BY <1>1, <1>2

LEMMA FinishKeeps ==
  ASSUME ReadInv, Fetching!Finish
  PROVE  ReadInv'
<1> DEFINE f == call.folder
           told == {<<f, call.cursor.validity, u>> : u \in call.got}
<1>1. /\ call.at = "save" /\ ~call.dry /\ Reading
      /\ handed' = handed \cup told
      /\ \/ cursor' = call.cursor /\ home' = f /\ upset' = upset
         \/ upset' = TRUE /\ UNCHANGED <<cursor, home>>
      /\ call' = Fetching!NoCall
      /\ UNCHANGED <<server, folder, waived, mixed>>
  BY DEF Fetching!Finish, Reading
<1>2. /\ FetchTyped /\ call \in Fetch /\ f \in Folders /\ cursor \in Stamp /\ call.cursor \in Stamp
      /\ call.got \subseteq Nat /\ handed \subseteq Folders \X Nat \X Nat
  BY DEF ReadInv, FetchTyped, Fetch
<1>3. call' \in Fetch /\ call'.got = {} /\ call'.at = "idle" /\ ~call'.dry BY <1>1, <1>2, NoFetch
<1>4. told \subseteq Folders \X Nat \X Nat BY <1>2 DEF Stamp
<1>5. FetchTyped' BY <1>1, <1>2, <1>3, <1>4 DEF FetchTyped
<1>6. Numbered' /\ GoesOn' BY <1>1, <1>3 DEF ReadInv, Numbered, GoesOn, Reading
<1>7. call.cursor.validity # 0 /\ call.cursor.validity <= server[f].validity
  BY <1>1 DEF ReadInv, NotAhead
<1>8. NotAhead' BY <1>1, <1>3, <1>7 DEF ReadInv, NotAhead, Reading
<1>9. PassedAll => PassedAll'
  <2> SUFFICES ASSUME PassedAll PROVE Passed(home, cursor, {})'
    BY <1>3 DEF PassedAll, Reading
  <2>1. CASE cursor' = call.cursor /\ home' = f
    <3>1. Passed(f, call.cursor, call.got) BY <1>1 DEF PassedAll
    <3>2. \A u \in call.got : <<f, call.cursor.validity, u>> \in handed' BY <1>1
    <3>3. QED BY <1>1, <2>1, <3>1, <3>2 DEF Passed
  <2>2. CASE UNCHANGED <<cursor, home>> BY <1>1, <2>2 DEF PassedAll, Passed
  <2>3. QED BY <1>1, <2>1, <2>2
<1>10. ASSUME HandedBelow, ~upset' PROVE HandedBelow'
  <2>1. cursor' = call.cursor /\ home' = f /\ f = folder /\ cursor.validity <= call.cursor.validity
    BY <1>1, <1>10 DEF HandedBelow
  <2>2. ASSUME NEW x \in handed
        PROVE  x[2] < call.cursor.validity \/ (x[2] = call.cursor.validity /\ x[3] <= call.cursor.last)
    <3>1. x[2] \in Nat /\ x[3] \in Nat BY <1>2
    <3>2. x[2] < cursor.validity \/ (x[2] = cursor.validity /\ x[3] <= cursor.last)
      BY <1>10 DEF HandedBelow
    <3>3. call.cursor.validity = cursor.validity => cursor.last <= call.cursor.last
      BY <1>1 DEF ReadInv, GoesOn
    <3>4. QED BY <1>2, <2>1, <3>1, <3>2, <3>3 DEF Stamp
  <2>3. ASSUME NEW x \in told PROVE x[2] = call.cursor.validity /\ x[3] <= call.cursor.last
    <3>1. \A u \in call.got : u <= call.cursor.last BY <1>1 DEF ReadInv, GoesOn
    <3>2. QED BY <3>1
  <2>4. QED BY <1>1, <1>3, <2>1, <2>2, <2>3 DEF HandedBelow, Reading
<1>11. QED BY <1>1, <1>5, <1>6, <1>8, <1>9, <1>10 DEF ReadInv

LEMMA NextReads == ReadInv /\ [Fetching!Next]_fetchVars => ReadInv'
<1> SUFFICES ASSUME ReadInv, [Fetching!Next]_fetchVars PROVE ReadInv'
  OBVIOUS
<1>1. CASE UNCHANGED fetchVars
  BY <1>1 DEF fetchVars, ReadInv, FetchTyped, Numbered, NotAhead, GoesOn, PassedAll, Passed, HandedBelow,
              Reading
<1>2. CASE Fetching!Next
  BY <1>2, ArriveKeeps, ExpungeKeeps, RenumberKeeps, RedirectKeeps, ConnectsKeep, SelectKeeps, FetchKeeps,
     FinishKeeps DEF Fetching!Next
<1>3. QED BY <1>1, <1>2

LEMMA ReadsOnce == ReadInv => Fetching!NothingPassed /\ Fetching!HandedOnce
<1> SUFFICES ASSUME ReadInv PROVE Fetching!NothingPassed /\ Fetching!HandedOnce
  OBVIOUS
<1>1. Fetching!NothingPassed BY DEF ReadInv, PassedAll, Passed, Fetching!NothingPassed
<1>2. Fetching!HandedOnce
  <2> SUFFICES ASSUME ~upset, call.at = "save", ~call.dry, NEW u \in call.got,
                      <<call.folder, call.cursor.validity, u>> \in handed
               PROVE  FALSE
    BY DEF Fetching!HandedOnce
  <2>1. /\ cursor \in Stamp /\ call.cursor \in Stamp /\ u \in Nat
    BY DEF ReadInv, FetchTyped, Fetch
  <2>2. /\ cursor.validity <= call.cursor.validity
        /\ \/ call.cursor.validity < cursor.validity
           \/ call.cursor.validity = cursor.validity /\ u <= cursor.last
    BY DEF ReadInv, HandedBelow, Reading
  <2>3. call.cursor.validity = cursor.validity => cursor.last < u BY DEF ReadInv, GoesOn, Reading
  <2>4. QED BY <2>1, <2>2, <2>3 DEF Stamp
<1>3. QED BY <1>1, <1>2

FetchingInv == part = "fetching" => ReadInv

(* Fetch of imap.go and the cursor SyncAccount saves: whatever arrives, is     *)
(* deleted or renumbered meanwhile, no message the cursor has passed is        *)
(* missing from the filters, and none reaches them twice, for any folders and  *)
(* any size of a first read.                                                   *)
THEOREM ReadAlwaysOnce == ServicesSpec => []ReadOnce
<1>1. ServicesInit => FetchingInv BY InitReads DEF ServicesInit, FetchingInv
<1>2. FetchingInv /\ [ServicesNext]_servicesVars => FetchingInv'
  <2> SUFFICES ASSUME FetchingInv, [ServicesNext]_servicesVars, part' = "fetching"
               PROVE  ReadInv'
    BY DEF FetchingInv
  <2>1. part = "fetching" /\ [Fetching!Next]_fetchVars BY EachService
  <2>2. QED BY <2>1, NextReads DEF FetchingInv
<1>3. FetchingInv => ReadOnce BY ReadsOnce DEF FetchingInv, ReadOnce
<1>4. QED BY <1>1, <1>2, <1>3, PTL DEF ServicesSpec, servicesVars

-----------------------------------------------------------------------------
(* EventOrder: what an order is.                                             *)

Distinct(order) == \A i, j \in 1..Len(order) : order[i] = order[j] => i = j

(* A request names some of the watcher's events, none of them twice, and if  *)
(* it names as many as there are it names them all.                          *)
LEMMA OrdersName ==
  ASSUME IsFiniteSet(Forms), NEW order \in Ordering!Orders
  PROVE  /\ order \in Seq(Forms) /\ Distinct(order)
         /\ Ordering!Full(order) => \A e \in Forms : \E i \in 1..Len(order) : order[i] = e
<1>1. PICK s \in SUBSET Forms : order \in Ordering!SetToSeqs(s)
  BY DEF Ordering!Orders, Ordering!SetToAllKPermutations
<1>2. IsFiniteSet(s) /\ Cardinality(s) \in Nat BY <1>1, FS_Subset, FS_CardinalityType
<1>3. PICK n \in Nat : n = Cardinality(s) BY <1>2
<1>4. /\ order \in [1..n -> s]
      /\ \A i, j \in 1..n : i # j => order[i] # order[j]
  <2>1. Ordering!Cardinality(s) = n BY <1>3 DEF Ordering!Cardinality, Cardinality
  <2>2. QED BY <1>1, <2>1 DEF Ordering!SetToSeqs
<1>5. order \in Seq(s) /\ order \in Seq(Forms) /\ Len(order) = n BY <1>1, <1>4
<1>6. Distinct(order) BY <1>4, <1>5 DEF Distinct
<1>7. ASSUME Ordering!Full(order), NEW e \in Forms PROVE \E i \in 1..n : order[i] = e
  <2>1. n = Cardinality(Forms)
    <3>1. Ordering!Cardinality(Forms) = Cardinality(Forms) BY DEF Ordering!Cardinality, Cardinality
    <3>2. QED BY <1>5, <1>7, <3>1 DEF Ordering!Full
  <2>2. s = Forms BY <1>3, <2>1, FS_Subset
  <2>3. IsFiniteSet(1..n) /\ Cardinality(1..n) = n
    <3>1. IsFiniteSet(1..n) /\ Cardinality(1..n) = (IF 1 > n THEN 0 ELSE n - 1 + 1) BY FS_Interval
    <3>2. QED BY <3>1
  <2>4. order \in Injection(1..n, Forms) BY <1>4, <2>2 DEF Injection, IsInjective
  <2>5. order \in Surjection(1..n, Forms) BY <2>1, <2>3, <2>4, FS_Injection
  <2>6. QED BY <2>5 DEF Surjection
<1>8. QED BY <1>5, <1>6, <1>7

(* Where an event stands in an order. *)
LEMMA StandsAt ==
  ASSUME NEW order \in Seq(Forms), Distinct(order), NEW i \in 1..Len(order), NEW n \in Nat, Len(order) <= n
  PROVE  /\ (CHOOSE k \in 0..(n - 1) : k < Len(order) /\ order[k + 1] = order[i]) = i - 1
         /\ Len(order) = n => (CHOOSE k \in 0..(n - 1) : order[k + 1] = order[i]) = i - 1
<1>1. i - 1 \in 0..(n - 1) /\ i - 1 < Len(order) /\ order[(i - 1) + 1] = order[i] OBVIOUS
<1>2. ASSUME NEW k \in 0..(n - 1), k < Len(order), order[k + 1] = order[i] PROVE k = i - 1
  <2>1. k + 1 \in 1..Len(order) BY <1>2
  <2>2. k + 1 = i BY <1>2, <2>1 DEF Distinct
  <2>3. QED BY <1>2, <2>2
<1>3. (CHOOSE k \in 0..(n - 1) : k < Len(order) /\ order[k + 1] = order[i]) = i - 1 BY <1>1, <1>2
<1>4. ASSUME Len(order) = n PROVE (CHOOSE k \in 0..(n - 1) : order[k + 1] = order[i]) = i - 1
  <2>1. \A k \in 0..(n - 1) : order[k + 1] = order[i] => k = i - 1 BY <1>2, <1>4
  <2>2. QED BY <1>1, <2>1
<1>5. QED BY <1>3, <1>4

(* Numbers that ascend through 0..n - 1 in n steps are 0, 1, 2 and so on. *)
LEMMA AscendingIsCounting ==
  ASSUME NEW n \in Nat, NEW p \in [1..n -> 0..(n - 1)],
         \A i, j \in 1..n : i < j => p[i] < p[j],
         NEW i \in 1..n
  PROVE  p[i] = i - 1
<1>1. ASSUME NEW k \in 1..n PROVE p[k] >= k - 1
  <2> DEFINE Low == {m \in 1..n : p[m] < m - 1}
  <2>1. SUFFICES ASSUME Low # {} PROVE FALSE
    <3>1. p[k] < k - 1 => Low # {} OBVIOUS
    <3>2. PICK v \in 0..(n - 1) : v = p[k] OBVIOUS
    <3> HIDE DEF Low
    <3>3. v < k - 1 => Low # {} BY <3>1, <3>2
    <3>4. v >= k - 1 => p[k] >= k - 1 BY <3>2
    <3>5. v < k - 1 \/ v >= k - 1 OBVIOUS
    <3>6. QED BY <3>3, <3>4, <3>5
  <2>2. PICK m \in Low : \A l \in Low : m <= l
    <3>1. Low \in SUBSET Nat OBVIOUS
    <3>2. QED BY <2>1, <3>1, LeastOf
  <2>3. m \in 1..n /\ m > 1
    <3>1. m \in 1..n /\ p[m] < m - 1 BY <2>2
    <3>2. p[m] \in Nat BY <3>1
    <3>3. QED BY <3>1, <3>2
  <2>4. m - 1 \in 1..n /\ m - 1 \notin Low
    <3>1. m - 1 \in 1..n /\ ~(m <= m - 1) BY <2>3
    <3> HIDE DEF Low
    <3>2. QED BY <2>2, <3>1
  <2>5. p[m - 1] >= (m - 1) - 1 /\ p[m - 1] < p[m] BY <2>2, <2>4
  <2>6. p[m] \in Nat /\ p[m - 1] \in Nat BY <2>2, <2>4
  <2>7. QED BY <2>2, <2>5, <2>6
<1>2. ASSUME NEW k \in 1..n PROVE p[k] <= k - 1
  <2> DEFINE High == {d \in 0..(n - 1) : p[n - d] > (n - d) - 1}
  <2>1. SUFFICES ASSUME High # {} PROVE FALSE
    <3>1. n - k \in 0..(n - 1) /\ n - (n - k) = k OBVIOUS
    <3>2. p[k] > k - 1 => High # {} BY <3>1
    <3>3. p[k] \in Nat /\ k \in Nat OBVIOUS
    <3> HIDE DEF High
    <3>4. QED BY <3>2, <3>3
  <2>2. PICK d \in High : \A l \in High : d <= l
    <3>1. High \in SUBSET Nat OBVIOUS
    <3>2. QED BY <2>1, <3>1, LeastOf
  <2>3. d \in 0..(n - 1) /\ d > 0
    <3>1. d \in 0..(n - 1) /\ p[n - d] > (n - d) - 1 BY <2>2
    <3>2. n - d \in 1..n /\ p[n - d] \in 0..(n - 1) BY <3>1
    <3>3. QED BY <3>1, <3>2
  <2>4. d - 1 \in 0..(n - 1) /\ d - 1 \notin High
    <3>1. d - 1 \in 0..(n - 1) /\ ~(d <= d - 1) BY <2>3
    <3> HIDE DEF High
    <3>2. QED BY <2>2, <3>1
  <2>5. n - d \in 1..n /\ n - (d - 1) \in 1..n /\ n - d < n - (d - 1) BY <2>2, <2>3
  <2>6. p[n - (d - 1)] <= (n - (d - 1)) - 1 /\ p[n - d] < p[n - (d - 1)]
    <3>1. p[n - (d - 1)] \in Nat BY <2>5
    <3>2. ~(p[n - (d - 1)] > (n - (d - 1)) - 1) BY <2>4
    <3>3. QED BY <2>5, <3>1, <3>2
  <2>7. p[n - d] \in Nat /\ p[n - (d - 1)] \in Nat BY <2>5
  <2>8. p[n - d] > (n - d) - 1 BY <2>2
  <2>9. QED BY <2>2, <2>6, <2>7, <2>8
<1>3. PICK v \in 0..(n - 1) : v = p[i] OBVIOUS
<1>4. v >= i - 1 /\ v <= i - 1 BY <1>1, <1>2, <1>3
<1>5. QED BY <1>3, <1>4

-----------------------------------------------------------------------------
(* EventOrder: the events stand as they were last asked to.                  *)

Asking == [at : {"idle", "reorder", "update", "list"}, order : Seq(Forms), done : Nat, position : Nat]

OrderInv ==
    /\ position \in [Forms -> Nat]
    /\ request \in [Requests -> Asking]
    /\ \A c \in Requests : request[c].at = "reorder" => request[c].order \in Ordering!Orders
    /\ requested \in Ordering!Orders /\ Ordering!Full(requested)
    /\ ~moved => \A i \in 1..Len(requested) : position[requested[i]] = i - 1

LEMMA PositionsAreNumbers ==
  ASSUME IsFiniteSet(Forms)
  PROVE  \E n \in Nat : /\ Ordering!Positions = 0..(n - 1)
                        /\ \A order \in Seq(Forms) : Ordering!Full(order) <=> Len(order) = n
                        /\ \A order \in Ordering!Orders : Len(order) <= n
<1>1. PICK n \in Nat : n = Cardinality(Forms) BY FS_CardinalityType
<1>2. Ordering!Cardinality(Forms) = n BY <1>1 DEF Ordering!Cardinality, Cardinality
<1>3. ASSUME NEW order \in Ordering!Orders PROVE Len(order) <= n
  <2>1. PICK s \in SUBSET Forms : order \in Ordering!SetToSeqs(s)
    BY DEF Ordering!Orders, Ordering!SetToAllKPermutations
  <2>2. IsFiniteSet(s) /\ Cardinality(s) \in Nat /\ Cardinality(s) <= n
    BY <1>1, <2>1, FS_Subset, FS_CardinalityType
  <2>3. Ordering!Cardinality(s) = Cardinality(s) BY DEF Ordering!Cardinality, Cardinality
  <2>4. order \in [1..Cardinality(s) -> s] BY <2>1, <2>3 DEF Ordering!SetToSeqs
  <2>5. PICK k \in Nat : k = Cardinality(s) BY <2>2
  <2>6. order \in Seq(s) /\ Len(order) = k BY <2>4, <2>5
  <2>7. QED BY <2>2, <2>5, <2>6
<1>4. QED BY <1>1, <1>2, <1>3 DEF Ordering!Positions, Ordering!Full

LEMMA IdleAsks == Ordering!Idle \in Asking /\ Ordering!Idle.at = "idle"
BY DEF Ordering!Idle, Asking

LEMMA InitOrders ==
  ASSUME IsFiniteSet(Forms), Ordering!Init
  PROVE  OrderInv
<1>1. PICK n \in Nat : /\ Ordering!Positions = 0..(n - 1)
                       /\ \A order \in Seq(Forms) : Ordering!Full(order) <=> Len(order) = n
  BY PositionsAreNumbers
<1>2. /\ requested \in Ordering!Orders /\ Ordering!Full(requested)
      /\ position = [e \in Forms |-> CHOOSE i \in Ordering!Positions : requested[i + 1] = e]
      /\ request = [c \in Requests |-> Ordering!Idle]
  BY DEF Ordering!Init
<1>3. /\ requested \in Seq(Forms) /\ Distinct(requested) /\ Len(requested) = n
      /\ \A e \in Forms : \E i \in 1..n : requested[i] = e
  BY <1>1, <1>2, OrdersName
<1>4. ASSUME NEW i \in 1..n PROVE position[requested[i]] = i - 1
  <2>1. requested[i] \in Forms BY <1>3
  <2>2. (CHOOSE k \in 0..(n - 1) : requested[k + 1] = requested[i]) = i - 1 BY <1>3, StandsAt
  <2>3. QED BY <1>1, <1>2, <2>1, <2>2
<1>5. position \in [Forms -> Nat]
  <2>1. \A e \in Forms : position[e] \in Nat BY <1>3, <1>4
  <2>2. QED BY <1>2, <2>1
<1>6. QED BY <1>2, <1>3, <1>4, <1>5, IdleAsks DEF OrderInv

(* A request that goes on without writing. *)
LEMMA GotoKeeps ==
  ASSUME OrderInv, NEW c \in Requests, NEW rec \in Asking, Ordering!Goto(c, rec),
         rec.at = "reorder" => rec.order \in Ordering!Orders,
         UNCHANGED <<position, requested, moved>>
  PROVE  OrderInv'
<1>1. request' = [request EXCEPT ![c] = rec] BY DEF Ordering!Goto
<1>2. \A d \in Requests : request'[d] = rec \/ request'[d] = request[d] BY <1>1 DEF OrderInv
<1>3. request' \in [Requests -> Asking] BY <1>1 DEF OrderInv
<1>4. QED BY <1>2, <1>3 DEF OrderInv

LEMMA OnesKeep ==
  ASSUME IsFiniteSet(Forms), OrderInv, NEW c \in Requests,
         \/ \E order \in Ordering!Orders : Ordering!Reorder(c, order)
         \/ Ordering!UpdatePosition(c) \/ Ordering!List(c) \/ Ordering!Rollback(c)
         \/ \E e \in Forms, wanted \in {{}} \cup {{i} : i \in Ordering!Positions} :
                Ordering!FindEvent(c, e, wanted)
  PROVE  OrderInv'
<1>1. ASSUME NEW order \in Ordering!Orders, Ordering!Reorder(c, order) PROVE OrderInv'
  <2>1. PICK rec : rec = [Ordering!Idle EXCEPT !.at = "reorder", !.order = order] OBVIOUS
  <2>2. order \in Seq(Forms) BY OrdersName
  <2>3. rec \in Asking /\ rec.order = order BY <2>1, <2>2 DEF Ordering!Idle, Asking
  <2>4. Ordering!Goto(c, rec) /\ UNCHANGED <<position, requested, moved>>
    BY <1>1, <2>1 DEF Ordering!Reorder
  <2>5. QED BY <2>3, <2>4, GotoKeeps
<1>2. CASE Ordering!UpdatePosition(c)
  <2>1. request[c] \in Asking BY DEF OrderInv
  <2>2. PICK rec : rec = [request[c] EXCEPT !.done = @ + 1] OBVIOUS
  <2>3. rec \in Asking /\ rec.at = request[c].at /\ rec.order = request[c].order
    BY <2>1, <2>2 DEF Asking
  <2>4. Ordering!Goto(c, rec) /\ UNCHANGED <<position, requested, moved>>
    BY <1>2, <2>2 DEF Ordering!UpdatePosition
  <2>5. rec.at = "reorder" => rec.order \in Ordering!Orders BY <2>3 DEF OrderInv
  <2>6. QED BY <2>3, <2>4, <2>5, GotoKeeps
<1>3. CASE Ordering!List(c) \/ Ordering!Rollback(c)
  <2>1. Ordering!Goto(c, Ordering!Idle) /\ UNCHANGED <<position, requested, moved>>
    BY <1>3 DEF Ordering!List, Ordering!Rollback
  <2>2. QED BY <2>1, IdleAsks, GotoKeeps
<1>4. ASSUME NEW e \in Forms, NEW wanted \in {{}} \cup {{i} : i \in Ordering!Positions},
             Ordering!FindEvent(c, e, wanted)
      PROVE  OrderInv'
  <2>1. PICK at : at = IF wanted = {} THEN position[e] ELSE Ordering!Min(wanted) OBVIOUS
  <2>2. at \in Nat
    <3>1. CASE wanted = {} BY <2>1, <3>1 DEF OrderInv
    <3>2. CASE wanted # {}
      <4>1. PICK i \in Ordering!Positions : wanted = {i} BY <3>2
      <4>2. i \in Nat BY PositionsAreNumbers
      <4>3. Ordering!Min(wanted) = i BY <4>1, <4>2 DEF Ordering!Min
      <4>4. QED BY <2>1, <3>2, <4>2, <4>3
    <3>3. QED BY <3>1, <3>2
  <2>3. PICK rec : rec = [at |-> "update", order |-> <<e>>, done |-> 0, position |-> at] OBVIOUS
  <2>4. rec \in Asking /\ rec.at # "reorder" BY <2>2, <2>3 DEF Asking
  <2>5. Ordering!Goto(c, rec) /\ UNCHANGED <<position, requested, moved>>
    BY <1>4, <2>1, <2>3 DEF Ordering!FindEvent
  <2>6. QED BY <2>4, <2>5, GotoKeeps
<1>5. QED BY <1>1, <1>2, <1>3, <1>4

(* What a request has written when it commits is its order, from 0 on. *)
LEMMA CommitKeeps ==
  ASSUME IsFiniteSet(Forms), OrderInv, NEW c \in Requests, Ordering!Commit(c)
  PROVE  OrderInv'
<1> DEFINE order == request[c].order
           At(e) == CHOOSE i \in Ordering!Positions : i < Len(order) /\ order[i + 1] = e
<1>1. /\ request[c].at = "reorder" /\ request[c].done = Len(order)
      /\ position' = [e \in Forms |-> IF e \in Ordering!Written(c) THEN At(e) ELSE position[e]]
      /\ IF Ordering!Full(order) THEN requested' = order /\ moved' = FALSE
                                 ELSE moved' = TRUE /\ UNCHANGED requested
      /\ Ordering!Goto(c, [Ordering!Idle EXCEPT !.at = "list"])
  BY DEF Ordering!Commit
<1>2. order \in Ordering!Orders BY <1>1 DEF OrderInv
<1>3. PICK n \in Nat : /\ Ordering!Positions = 0..(n - 1)
                       /\ \A o \in Seq(Forms) : Ordering!Full(o) <=> Len(o) = n
                       /\ \A o \in Ordering!Orders : Len(o) <= n
  BY PositionsAreNumbers
<1>4. /\ order \in Seq(Forms) /\ Distinct(order) /\ Len(order) <= n
      /\ Ordering!Full(order) => \A e \in Forms : \E i \in 1..Len(order) : order[i] = e
  BY <1>2, <1>3, OrdersName
<1>5. Ordering!Written(c) = {order[i] : i \in 1..Len(order)}
  <2>1. SubSeq(order, 1, Len(order)) = order BY <1>4, SubSeqFull
  <2>2. DOMAIN order = 1..Len(order) BY <1>4
  <2>3. QED BY <1>1, <2>1, <2>2 DEF Ordering!Written, Ordering!ToSet
<1>6. ASSUME NEW i \in 1..Len(order) PROVE order[i] \in Forms /\ position'[order[i]] = i - 1
  <2>1. order[i] \in Forms /\ order[i] \in Ordering!Written(c) BY <1>4, <1>5
  <2>2. At(order[i]) = i - 1 BY <1>3, <1>4, StandsAt
  <2>3. QED BY <1>1, <2>1, <2>2
<1>7. position' \in [Forms -> Nat]
  <2>1. ASSUME NEW e \in Forms PROVE position'[e] \in Nat
    <3>1. CASE e \in Ordering!Written(c) BY <1>5, <1>6, <3>1
    <3>2. CASE e \notin Ordering!Written(c) BY <1>1, <3>2 DEF OrderInv
    <3>3. QED BY <3>1, <3>2
  <2>2. QED BY <1>1, <2>1
<1>8. PICK rec : rec = [Ordering!Idle EXCEPT !.at = "list"] OBVIOUS
<1>9. rec \in Asking /\ rec.at = "list" BY <1>8, IdleAsks DEF Asking
<1>10. /\ request' \in [Requests -> Asking]
       /\ \A d \in Requests : request'[d].at = "reorder" => request'[d].order \in Ordering!Orders
  <2>1. request' = [request EXCEPT ![c] = rec] BY <1>1, <1>8 DEF Ordering!Goto
  <2>2. QED BY <1>9, <2>1 DEF OrderInv
<1>11. /\ requested' \in Ordering!Orders /\ Ordering!Full(requested')
       /\ ~moved' => requested' = order
  BY <1>1, <1>2 DEF OrderInv
<1>12. ~moved' => \A i \in 1..Len(requested') : position'[requested'[i]] = i - 1 BY <1>6, <1>11
<1> HIDE DEF order, At
<1>13. QED BY <1>7, <1>10, <1>11, <1>12 DEF OrderInv, Ordering!Orders, Ordering!Full

LEMMA UpdateKeeps ==
  ASSUME OrderInv, NEW c \in Requests, Ordering!Update(c)
  PROVE  OrderInv'
<1>1. /\ position' = [position EXCEPT ![Head(request[c].order)] = request[c].position]
      /\ moved' = (moved \/ position' # position)
      /\ Ordering!Goto(c, Ordering!Idle) /\ requested' = requested
  BY DEF Ordering!Update
<1>2. request[c] \in Asking /\ request[c].position \in Nat BY DEF OrderInv, Asking
<1>3. position' \in [Forms -> Nat] BY <1>1, <1>2 DEF OrderInv
<1>4. request' = [request EXCEPT ![c] = Ordering!Idle] BY <1>1 DEF Ordering!Goto
<1>5. request' \in [Requests -> Asking] BY <1>4, IdleAsks DEF OrderInv
<1>6. \A d \in Requests : request'[d] = Ordering!Idle \/ request'[d] = request[d] BY <1>4 DEF OrderInv
<1>7. ~moved' => ~moved /\ position' = position BY <1>1
<1>8. QED BY <1>1, <1>3, <1>5, <1>6, <1>7, IdleAsks DEF OrderInv

-----------------------------------------------------------------------------
(* A list has no choice: there is one way to sort by these positions. *)
LEMMA OneWayToList ==
  ASSUME IsFiniteSet(Forms), OrderInv, ~moved
  PROVE  Ordering!FindByWatcher = {requested}
<1>1. PICK n \in Nat : \A o \in Seq(Forms) : Ordering!Full(o) <=> Len(o) = n
  BY PositionsAreNumbers
<1>2. ASSUME NEW o \in Ordering!Orders, Ordering!Full(o)
      PROVE  o \in Seq(Forms) /\ Distinct(o) /\ Len(o) = n /\ DOMAIN o = 1..n
             /\ \A e \in Forms : \E i \in 1..n : o[i] = e
  BY <1>1, <1>2, OrdersName
<1>3. requested \in Ordering!Orders /\ Ordering!Full(requested)
      /\ \A i \in 1..n : position[requested[i]] = i - 1
  BY <1>2 DEF OrderInv
<1>4. requested \in Ordering!FindByWatcher
  <2>1. \A i, j \in 1..n : i < j => position[requested[i]] <= position[requested[j]] BY <1>3
  <2>2. QED BY <1>2, <1>3, <2>1 DEF Ordering!FindByWatcher
<1>5. ASSUME NEW o \in Ordering!FindByWatcher PROVE o = requested
  <2>1. /\ o \in Ordering!Orders /\ Ordering!Full(o)
        /\ \A i, j \in DOMAIN o : i < j => position[o[i]] <= position[o[j]]
    BY DEF Ordering!FindByWatcher
  <2> DEFINE p == [i \in 1..n |-> position[o[i]]]
  <2>2. ASSUME NEW i \in 1..n PROVE \E k \in 1..n : o[i] = requested[k] /\ position[o[i]] = k - 1
    <3>1. o[i] \in Forms BY <1>2, <2>1
    <3>2. PICK k \in 1..n : requested[k] = o[i] BY <1>2, <1>3, <3>1
    <3>3. QED BY <1>3, <3>2
  <2>3. \A i \in 1..n : p[i] \in 0..(n - 1) BY <2>2
  <2>4. p \in [1..n -> 0..(n - 1)] BY <2>3
  <2>5. ASSUME NEW i \in 1..n, NEW j \in 1..n, i < j PROVE p[i] < p[j]
    <3>1. PICK k \in 1..n : o[i] = requested[k] /\ position[o[i]] = k - 1 BY <2>2
    <3>2. PICK l \in 1..n : o[j] = requested[l] /\ position[o[j]] = l - 1 BY <2>2
    <3>3. o[i] # o[j] BY <1>2, <2>1, <2>5 DEF Distinct
    <3>4. k # l BY <3>1, <3>2, <3>3
    <3>5. position[o[i]] <= position[o[j]]
      <4>1. i \in DOMAIN o /\ j \in DOMAIN o BY <1>2, <2>1
      <4>2. QED BY <2>1, <2>5, <4>1
    <3>6. QED BY <3>1, <3>2, <3>4, <3>5
  <2> HIDE DEF p
  <2>6. \A i \in 1..n : p[i] = i - 1 BY <2>4, <2>5, AscendingIsCounting
  <2>7. ASSUME NEW i \in 1..n PROVE o[i] = requested[i]
    <3>1. PICK k \in 1..n : o[i] = requested[k] /\ position[o[i]] = k - 1 BY <2>2
    <3>2. k - 1 = i - 1 BY <2>6, <3>1 DEF p
    <3>3. QED BY <3>1, <3>2
  <2>8. o \in Seq(Forms) /\ requested \in Seq(Forms) /\ Len(o) = n /\ Len(requested) = n
    BY <1>2, <1>3, <2>1
  <2>9. QED BY <2>7, <2>8
<1>6. QED BY <1>4, <1>5

OrderingInv == part = "ordering" => OrderInv

(* Reorder and Update of watcher_event_usecase.go: unless an edit or a partial *)
(* order has moved some of them, the events stand in the order that one        *)
(* request asked for in full, and the list of them has no choice, for any      *)
(* number of requests and of events.                                           *)
THEOREM EventsAlwaysInOneOrder == ServicesSpec => []OneOrder
<1>0. IsFiniteSet(Forms) BY ServicesAssumption
<1>1. ServicesInit => OrderingInv BY <1>0, InitOrders DEF ServicesInit, OrderingInv
<1>2. OrderingInv /\ [ServicesNext]_servicesVars => OrderingInv'
  <2> SUFFICES ASSUME OrderingInv, [ServicesNext]_servicesVars, part' = "ordering"
               PROVE  OrderInv'
    BY DEF OrderingInv
  <2>1. OrderInv /\ (Ordering!Next \/ UNCHANGED orderVars) BY EachService DEF OrderingInv
  <2>2. CASE UNCHANGED orderVars
    BY <2>1, <2>2 DEF orderVars, OrderInv, Ordering!Orders, Ordering!Full
  <2>3. CASE Ordering!Next
    BY <1>0, <2>1, <2>3, OnesKeep, CommitKeeps, UpdateKeeps DEF Ordering!Next
  <2>4. QED BY <2>1, <2>2, <2>3
<1>3. OrderingInv => OneOrder
  <2> SUFFICES ASSUME OrderInv, ~moved
               PROVE  /\ \A i \in DOMAIN requested : position[requested[i]] = i - 1
                      /\ Ordering!FindByWatcher = {requested}
    BY DEF OrderingInv, OneOrder, Ordering!OneOrder
  <2>1. requested \in Seq(Forms) BY <1>0, OrdersName DEF OrderInv
  <2>2. DOMAIN requested = 1..Len(requested) BY <2>1
  <2>3. \A i \in 1..Len(requested) : position[requested[i]] = i - 1 BY DEF OrderInv
  <2>4. Ordering!FindByWatcher = {requested} BY <1>0, OneWayToList
  <2>5. QED BY <2>2, <2>3, <2>4
<1>4. QED BY <1>1, <1>2, <1>3, PTL DEF ServicesSpec, servicesVars

-----------------------------------------------------------------------------
(* FilterMatcher: texts in lower case.                                       *)

Text == Seq(Matching!Letters)

LEMMA LowerIsText ==
  ASSUME NEW s \in Text
  PROVE  /\ Matching!Lower(s) \in Text /\ Len(Matching!Lower(s)) = Len(s)
         /\ \A k \in 1..Len(s) : Matching!Lower(s)[k] = IF s[k] = "A" THEN "a" ELSE s[k]
<1>1. DOMAIN s = 1..Len(s) /\ Len(s) \in Nat /\ \A k \in 1..Len(s) : s[k] \in Matching!Letters BY DEF Text
<1>2. Matching!Lower(s) \in [1..Len(s) -> Matching!Letters] BY <1>1 DEF Matching!Lower, Matching!Letters
<1>3. Matching!Lower(s) \in Text /\ Len(Matching!Lower(s)) = Len(s) BY <1>1, <1>2 DEF Text
<1>4. QED BY <1>1, <1>3 DEF Matching!Lower

(* A part of a text reads the same before and after. *)
LEMMA LowerOfPart ==
  ASSUME NEW s \in Text, NEW i \in 1..(Len(s) + 1), NEW j \in 0..Len(s)
  PROVE  /\ SubSeq(s, i, j) \in Text
         /\ Matching!Lower(SubSeq(s, i, j)) = SubSeq(Matching!Lower(s), i, j)
<1> DEFINE t == Matching!Lower(s)
           n == IF i <= j THEN j - i + 1 ELSE 0
<1>1. /\ t \in Text /\ Len(t) = Len(s)
      /\ \A k \in 1..Len(s) : t[k] = IF s[k] = "A" THEN "a" ELSE s[k]
  BY LowerIsText
<1> HIDE DEF t
<1>2. \A k \in i..j : k \in 1..Len(s) /\ s[k] \in Matching!Letters /\ t[k] \in Matching!Letters BY <1>1 DEF Text
<1>3. /\ SubSeq(s, i, j) \in Text /\ Len(SubSeq(s, i, j)) = n
      /\ \A k \in 1..(j - i + 1) : SubSeq(s, i, j)[k] = s[i + k - 1]
  BY <1>2, SubSeqProperties DEF Text
<1>4. /\ SubSeq(t, i, j) \in Text /\ Len(SubSeq(t, i, j)) = n
      /\ \A k \in 1..(j - i + 1) : SubSeq(t, i, j)[k] = t[i + k - 1]
  BY <1>2, SubSeqProperties DEF Text
<1>5. n \in Nat /\ 1..n = 1..(j - i + 1) OBVIOUS
<1> HIDE DEF n
<1>6. PICK p \in Text : p = SubSeq(s, i, j) BY <1>3
<1>7. PICK q \in Text : q = SubSeq(t, i, j) BY <1>4
<1>8. /\ Matching!Lower(p) \in Text /\ Len(Matching!Lower(p)) = n
      /\ \A k \in 1..n : Matching!Lower(p)[k] = IF p[k] = "A" THEN "a" ELSE p[k]
  BY <1>3, <1>6, LowerIsText
<1>9. ASSUME NEW k \in 1..n PROVE Matching!Lower(p)[k] = q[k]
  <2>1. i + k - 1 \in 1..Len(s) BY <1>5
  <2>2. p[k] = s[i + k - 1] /\ q[k] = t[i + k - 1] BY <1>3, <1>4, <1>5, <1>6, <1>7
  <2>3. QED BY <1>1, <1>8, <2>1, <2>2
<1>10. Matching!Lower(p) = q BY <1>4, <1>5, <1>7, <1>8, <1>9 DEF Text
<1>11. QED BY <1>3, <1>6, <1>7, <1>10 DEF t

LEMMA LowerStarts ==
  ASSUME NEW s \in Text, NEW v \in Text, Matching!StartsWith(s, v)
  PROVE  Matching!StartsWith(Matching!Lower(s), Matching!Lower(v))
<1>1. Len(s) \in Nat /\ Len(v) \in Nat BY DEF Text
<1>2. Len(v) <= Len(s) /\ SubSeq(s, 1, Len(v)) = v BY DEF Matching!StartsWith
<1>3. 1 \in 1..(Len(s) + 1) /\ Len(v) \in 0..Len(s) BY <1>1, <1>2
<1>4. Matching!Lower(v) = SubSeq(Matching!Lower(s), 1, Len(v)) BY <1>2, <1>3, LowerOfPart
<1>5. Len(Matching!Lower(s)) = Len(s) /\ Len(Matching!Lower(v)) = Len(v) BY LowerIsText
<1>6. QED BY <1>2, <1>4, <1>5 DEF Matching!StartsWith

LEMMA LowerEnds ==
  ASSUME NEW s \in Text, NEW v \in Text, Matching!EndsWith(s, v)
  PROVE  Matching!EndsWith(Matching!Lower(s), Matching!Lower(v))
<1>1. Len(s) \in Nat /\ Len(v) \in Nat BY DEF Text
<1>2. Len(v) <= Len(s) /\ SubSeq(s, Len(s) - Len(v) + 1, Len(s)) = v BY DEF Matching!EndsWith
<1>3. Len(s) - Len(v) + 1 \in 1..(Len(s) + 1) /\ Len(s) \in 0..Len(s) BY <1>1, <1>2
<1>4. Matching!Lower(v) = SubSeq(Matching!Lower(s), Len(s) - Len(v) + 1, Len(s))
  BY <1>2, <1>3, LowerOfPart
<1>5. Len(Matching!Lower(s)) = Len(s) /\ Len(Matching!Lower(v)) = Len(v) BY LowerIsText
<1>6. QED BY <1>2, <1>4, <1>5 DEF Matching!EndsWith

LEMMA LowerIncludes ==
  ASSUME NEW s \in Text, NEW v \in Text, Matching!Includes(s, v)
  PROVE  Matching!Includes(Matching!Lower(s), Matching!Lower(v))
<1>1. PICK i \in 0..Len(s) : Matching!StartsWith(SubSeq(s, i + 1, Len(s)), v) BY DEF Matching!Includes
<1>2. Len(s) \in Nat BY DEF Text
<1>3. i + 1 \in 1..(Len(s) + 1) /\ Len(s) \in 0..Len(s) BY <1>2
<1>4. PICK p \in Text : p = SubSeq(s, i + 1, Len(s)) BY <1>3, LowerOfPart
<1>5. Matching!Lower(p) = SubSeq(Matching!Lower(s), i + 1, Len(s)) BY <1>3, <1>4, LowerOfPart
<1>6. Matching!StartsWith(Matching!Lower(p), Matching!Lower(v)) BY <1>1, <1>4, LowerStarts
<1>7. Len(Matching!Lower(s)) = Len(s) BY LowerIsText
<1>8. QED BY <1>1, <1>5, <1>6, <1>7 DEF Matching!Includes

(* What only asks for something asks for less when case does not count. *)
LEMMA LooserCompare ==
  ASSUME NEW operator \in Matching!Operators \ {"not_contains"}, NEW s \in Text, NEW v \in Text,
         NEW sensitive \in BOOLEAN, Matching!compareStrings(operator, s, v, sensitive)
  PROVE  Matching!compareStrings(operator, s, v, FALSE)
<1>1. CASE sensitive = FALSE BY <1>1
<1>2. CASE sensitive = TRUE
  <2> DEFINE S == Matching!Lower(s)
             V == Matching!Lower(v)
  <2>1. Matching!compareStrings(operator, s, v, TRUE) BY <1>2
  <2>2. CASE operator = "contains"
    <3>1. Matching!Includes(s, v) BY <2>1, <2>2 DEF Matching!compareStrings
    <3>2. Matching!Includes(S, V) BY <3>1, LowerIncludes
    <3>3. QED BY <2>2, <3>2 DEF Matching!compareStrings
  <2>3. CASE operator = "equals" BY <2>1, <2>3 DEF Matching!compareStrings
  <2>4. CASE operator = "starts_with"
    <3>1. Matching!StartsWith(s, v) BY <2>1, <2>4 DEF Matching!compareStrings
    <3>2. Matching!StartsWith(S, V) BY <3>1, LowerStarts
    <3>3. QED BY <2>4, <3>2 DEF Matching!compareStrings
  <2>5. CASE operator = "ends_with"
    <3>1. Matching!EndsWith(s, v) BY <2>1, <2>5 DEF Matching!compareStrings
    <3>2. Matching!EndsWith(S, V) BY <3>1, LowerEnds
    <3>3. QED BY <2>5, <3>2 DEF Matching!compareStrings
  <2>6. CASE operator = "exists"
    <3>1. s # <<>> BY <2>1, <2>6 DEF Matching!compareStrings
    <3>2. Len(s) # 0 BY <3>1 DEF Text
    <3>3. S # <<>> BY <3>2, LowerIsText
    <3>4. QED BY <2>6, <3>3 DEF Matching!compareStrings
  <2>7. QED BY <2>2, <2>3, <2>4, <2>5, <2>6 DEF Matching!Operators
<1>3. QED BY <1>1, <1>2

-----------------------------------------------------------------------------
(* FilterMatcher: what the messages have for a field.                        *)

LEMMA TextsAreText == Texts \subseteq Text /\ Wants \subseteq Text /\ <<>> \in Text
<1>1. Texts \subseteq Text /\ Wants \subseteq Text BY ServicesAssumption DEF Text
<1>2. QED BY <1>1 DEF Text

(* A set of places in a sequence has a first one. *)
LEMMA FirstOf ==
  ASSUME NEW I \in SUBSET Nat, I # {}
  PROVE  Matching!Min(I) \in I
<1>1. \E m \in I : \A k \in I : m <= k BY LeastOf
<1>2. QED BY <1>1 DEF Matching!Min

(* A body is empty or the text of some part. *)
LEMMA BodyIsText ==
  ASSUME NEW parts \in Matching!SeqOf(Matching!Parts, MaxParts)
  PROVE  Matching!readBody(parts).text \in Text
<1> DEFINE broken == Matching!SelectInSeq(parts, LAMBDA p : p.kind = "broken")
           read == SubSeq(parts, 1, IF broken = 0 THEN Len(parts) ELSE broken - 1)
           first(kind) == Matching!SelectInSeq(read, LAMBDA p : p.kind = kind /\ p.text # <<>>)
           text(kind) == IF broken # 0 \/ first(kind) = 0 THEN <<>> ELSE read[first(kind)].text
<1>1. PICK n \in 0..MaxParts : parts \in [1..n -> Matching!Parts] BY DEF Matching!SeqOf
<1>2. parts \in Seq(Matching!Parts) BY <1>1
<1>3. \A p \in Matching!Parts : p.text \in Text
  BY TextsAreText DEF Matching!Parts
<1>4. Matching!readBody(parts).text = IF text("plain") = <<>> THEN text("html") ELSE text("plain")
  BY DEF Matching!readBody
<1>5. broken = 0 => read = parts BY <1>2, SubSeqFull
<1> HIDE DEF broken, read
<1>6. ASSUME NEW kind PROVE text(kind) \in Text
  <2> DEFINE I == {i \in 1..Len(read) : read[i].kind = kind /\ read[i].text # <<>>}
  <2>1. first(kind) = IF I # {} THEN Matching!Min(I) ELSE 0 BY DEF Matching!SelectInSeq
  <2>2. I \in SUBSET Nat /\ I \subseteq 1..Len(read) OBVIOUS
  <2>3. I # {} => Matching!Min(I) \in 1..Len(read)
    <3> HIDE DEF I
    <3>1. QED BY <2>2, FirstOf
  <2> HIDE DEF first
  <2>4. CASE broken # 0 \/ first(kind) = 0
    <3>1. text(kind) = <<>> BY <2>4
    <3>2. QED BY <3>1, TextsAreText
  <2>5. CASE broken = 0 /\ first(kind) # 0
    <3> HIDE DEF I
    <3>1. first(kind) \in 1..Len(parts) /\ read = parts BY <1>5, <2>1, <2>3, <2>5
    <3>2. parts[first(kind)] \in Matching!Parts BY <1>2, <3>1
    <3>3. text(kind) = parts[first(kind)].text BY <2>5, <3>1
    <3>4. QED BY <1>3, <3>2, <3>3, TextsAreText
  <2>6. QED BY <2>4, <2>5
<1> HIDE DEF text
<1>7. QED BY <1>4, <1>6

LEMMA HeaderIsText ==
  ASSUME NEW lines \in Matching!SeqOf(Matching!Lines, MaxLines)
  PROVE  Matching!headerFields(lines) \subseteq Text
<1> DEFINE named == {i \in DOMAIN lines : i <= HeaderCap /\ lines[i] # {}}
<1>1. PICK n \in 0..MaxLines : lines \in [1..n -> Matching!Lines] BY DEF Matching!SeqOf
<1>2. Matching!headerFields(lines) = IF named = {} THEN {} ELSE lines[Matching!Max(named)]
  BY DEF Matching!headerFields
<1>3. named # {} => Matching!Max(named) \in 1..n
  <2>0. n \in Nat BY <1>1, ServicesAssumption
  <2>1. named \in SUBSET Nat /\ named \subseteq 1..n /\ \A i \in named : i <= n /\ i \in Nat
    BY <1>1, <2>0
  <2> HIDE DEF named
  <2>2. ASSUME named # {} PROVE \E m \in named : \A k \in named : m >= k
    <3>1. Fetching!Max(named) \in named /\ \A k \in named : k <= Fetching!Max(named)
      BY <2>0, <2>1, <2>2, GreatestOf
    <3>2. QED BY <2>1, <3>1
  <2>3. QED BY <2>1, <2>2 DEF Matching!Max
<1> HIDE DEF named
<1>4. \A i \in 1..n : lines[i] \subseteq Text BY <1>1, TextsAreText DEF Matching!Lines
<1>5. QED BY <1>2, <1>3, <1>4

(* The fields whose values are texts; a message has one subject. *)
ValuesTyped(values) ==
    /\ field \in {"subject", "body", "header", "to"} => values \subseteq Text
    /\ field = "subject" => \E s \in Text : values = {s}

LEMMA ValuesAreTyped ==
  ASSUME field \in {"has_attachment", "size", "subject", "body", "header", "to"},
         NEW values \in Matching!Values
  PROVE  ValuesTyped(values)
<1>1. CASE field = "subject"
  <2>1. PICK s \in Texts : values = {s} BY <1>1 DEF Matching!Values
  <2>2. QED BY <1>1, <2>1, TextsAreText DEF ValuesTyped
<1>2. CASE field = "body"
  <2>1. PICK parts \in Matching!SeqOf(Matching!Parts, MaxParts) : values = {Matching!readBody(parts).text}
    BY <1>2 DEF Matching!Values
  <2>2. QED BY <1>2, <2>1, BodyIsText DEF ValuesTyped
<1>3. CASE field = "header"
  <2>1. PICK lines \in Matching!SeqOf(Matching!Lines, MaxLines) : values = Matching!headerFields(lines)
    BY <1>3 DEF Matching!Values
  <2>2. QED BY <1>3, <2>1, HeaderIsText DEF ValuesTyped
<1>4. CASE field = "to"
  <2>1. values = {} \/ \E s, t \in Texts : values = {s, t} BY <1>4 DEF Matching!Values
  <2>2. QED BY <1>4, <2>1, TextsAreText DEF ValuesTyped
<1>5. CASE field \in {"has_attachment", "size"} BY <1>5 DEF ValuesTyped
<1>6. QED BY <1>1, <1>2, <1>3, <1>4, <1>5

-----------------------------------------------------------------------------
(* FilterMatcher: one filter, then all of them.                              *)

LEMMA LooserFilter ==
  ASSUME field \in {"has_attachment", "size", "subject", "body", "header", "to"},
         NEW filter \in Matching!Filter, NEW values, ValuesTyped(values),
         Matching!Positive(filter), Matching!matchFilter(filter, values)
  PROVE  Matching!matchFilter([filter EXCEPT !.caseSensitive = FALSE], values)
<1>1. PICK loose : loose = [filter EXCEPT !.caseSensitive = FALSE] OBVIOUS
<1>2. CASE field = "has_attachment"
  <2>1. loose.value = filter.value /\ loose.operator = filter.operator /\ filter.operator # "regex"
    BY <1>1, <1>2 DEF Matching!Filter, Matching!Positive
  <2>2. filter.value \in values BY <1>2, <2>1 DEF Matching!matchFilter
  <2>3. Matching!matchFilter(loose, values) BY <1>2, <2>1, <2>2 DEF Matching!matchFilter
  <2>4. QED BY <1>1, <2>3
<1>3. CASE field = "size"
  <2>1. loose.value = filter.value /\ loose.operator = filter.operator /\ filter.operator # "regex"
    BY <1>1, <1>3 DEF Matching!Filter, Matching!Positive
  <2>2. \E n \in values : Matching!compareNumbers(filter.operator, n, filter.value)
    BY <1>3, <2>1 DEF Matching!matchFilter
  <2>3. Matching!matchFilter(loose, values) BY <1>3, <2>1, <2>2 DEF Matching!matchFilter
  <2>4. QED BY <1>1, <2>3
<1>4. CASE field \in {"subject", "body", "header", "to"}
  <2>1. /\ loose.value = filter.value /\ loose.operator = filter.operator /\ loose.caseSensitive = FALSE
        /\ filter.caseSensitive \in BOOLEAN
        /\ filter.operator \in Matching!Operators \ {"not_contains"} /\ filter.operator # "regex"
        /\ filter.value \in Wants
    BY <1>1, <1>4 DEF Matching!Filter, Matching!Positive, Matching!Operators
  <2>2. filter.value \in Text BY <2>1, TextsAreText
  <2>3. values \subseteq Text BY <1>4 DEF ValuesTyped
  <2>4. CASE field = "header" /\ filter.operator = "exists"
    BY <1>1, <2>1, <2>4 DEF Matching!matchFilter
  <2>5. CASE ~(field = "header" /\ filter.operator = "exists")
    <3>1. PICK s \in values :
            Matching!compareStrings(filter.operator, s, filter.value, filter.caseSensitive)
      BY <1>4, <2>1, <2>5 DEF Matching!matchFilter
    <3>2. Matching!compareStrings(loose.operator, s, loose.value, loose.caseSensitive)
      BY <2>1, <2>2, <2>3, <3>1, LooserCompare
    <3>3. QED BY <1>1, <1>4, <2>1, <2>5, <3>2 DEF Matching!matchFilter
  <2>6. QED BY <2>4, <2>5
<1>5. QED BY <1>2, <1>3, <1>4

LEMMA MoreRecipients ==
  ASSUME field = "to", NEW filter, NEW values, NEW s, Matching!matchFilter(filter, values)
  PROVE  Matching!matchFilter(filter, values \cup {s})
BY DEF Matching!matchFilter

(* Of "contains" and "not contains", one is true of a subject. *)
LEMMA OneOfTwo ==
  ASSUME field = "subject", NEW filter \in Matching!Filter, NEW s \in Text, filter.operator = "contains"
  PROVE  Matching!matchFilter(filter, {s})
            # Matching!matchFilter([filter EXCEPT !.operator = "not_contains"], {s})
<1>1. PICK other : other = [filter EXCEPT !.operator = "not_contains"] OBVIOUS
<1>2. other.operator = "not_contains" /\ other.value = filter.value
      /\ other.caseSensitive = filter.caseSensitive
  BY <1>1 DEF Matching!Filter
<1> DEFINE Says(op) == Matching!compareStrings(op, s, filter.value, filter.caseSensitive)
<1>3. Says("not_contains") <=> ~Says("contains") BY DEF Matching!compareStrings
<1>4. Matching!matchFilter(filter, {s}) <=> Says("contains") BY DEF Matching!matchFilter
<1>5. Matching!matchFilter(other, {s}) <=> Says("not_contains") BY <1>2 DEF Matching!matchFilter
<1>6. Matching!matchFilter(filter, {s}) \in BOOLEAN /\ Matching!matchFilter(other, {s}) \in BOOLEAN
  BY <1>2 DEF Matching!matchFilter
<1> HIDE DEF Says
<1>7. QED BY <1>1, <1>3, <1>4, <1>5, <1>6

(* Filters that each keep their match keep it together. *)
LEMMA AllKeep ==
  ASSUME NEW fs, NEW gs, DOMAIN gs = DOMAIN fs, NEW values, NEW more,
         \A i \in DOMAIN fs : Matching!matchFilter(fs[i], values) => Matching!matchFilter(gs[i], more),
         fs = <<>> => gs = <<>>, Matching!EvaluateFilters(fs, values)
  PROVE  Matching!EvaluateFilters(gs, more)
BY DEF Matching!EvaluateFilters

MatchInv ==
    /\ field \in {"has_attachment", "size", "subject", "body", "header", "to"}
    /\ \A n \in DOMAIN message : ValuesTyped(message[n])
    /\ \A i \in DOMAIN rules : rules[i] \in Matching!Filter

LEMMA NextMatches == MatchInv /\ (Matching!Next \/ UNCHANGED matchVars) => MatchInv'
<1> SUFFICES ASSUME MatchInv, Matching!Next \/ UNCHANGED matchVars PROVE MatchInv'
  OBVIOUS
<1>1. CASE UNCHANGED matchVars BY <1>1 DEF matchVars, MatchInv, ValuesTyped, Matching!Filter
<1>2. ASSUME NEW values \in Matching!Values, Matching!Receive(values) PROVE MatchInv'
  <2>1. message' = <<values>> /\ UNCHANGED <<field, rules, mode>> BY <1>2 DEF Matching!Receive
  <2>2. ValuesTyped(values) BY <1>2, ValuesAreTyped DEF MatchInv
  <2>3. \A n \in DOMAIN message' : message'[n] = values BY <2>1
  <2>4. QED BY <2>1, <2>2, <2>3 DEF MatchInv, ValuesTyped, Matching!Filter
<1>3. ASSUME NEW n \in 1..MaxFilters, NEW fs \in [1..n -> Matching!Filter], Matching!writeFilters(fs)
      PROVE  MatchInv'
  <2>1. rules' = fs /\ UNCHANGED <<field, mode, message>> BY <1>3 DEF Matching!writeFilters
  <2>2. \A i \in DOMAIN fs : fs[i] \in Matching!Filter BY <1>3
  <2>3. Matching!Filter' = Matching!Filter BY <2>1 DEF Matching!Filter
  <2>4. QED BY <2>1, <2>2, <2>3 DEF MatchInv, ValuesTyped
<1>4. QED BY <1>1, <1>2, <1>3 DEF Matching!Next

LEMMA MatchesKeep == MatchInv => Matching!MatchingIsMonotone
<1> SUFFICES ASSUME MatchInv, NEW n \in DOMAIN message
             PROVE  LET values == message[n] IN
        /\ Matching!EvaluateFilters(rules, values) =>
            /\ (\A i \in DOMAIN rules : Matching!Positive(rules[i]))
                    => Matching!EvaluateFilters(Matching!Loose(rules), values)
            /\ field = "to" => \A s \in Texts : Matching!EvaluateFilters(rules, values \cup {s})
        /\ field = "subject" => \A i \in DOMAIN rules :
            rules[i].operator = "contains" =>
                Matching!matchFilter(rules[i], values)
                    # Matching!matchFilter([rules[i] EXCEPT !.operator = "not_contains"], values)
  BY DEF Matching!MatchingIsMonotone
<1> DEFINE values == message[n]
<1>1. ValuesTyped(values) /\ \A i \in DOMAIN rules : rules[i] \in Matching!Filter BY DEF MatchInv
<1> HIDE DEF values
<1>2. ASSUME Matching!EvaluateFilters(rules, values), \A i \in DOMAIN rules : Matching!Positive(rules[i])
      PROVE  Matching!EvaluateFilters(Matching!Loose(rules), values)
  <2>1. PICK gs : gs = Matching!Loose(rules) OBVIOUS
  <2>2. DOMAIN gs = DOMAIN rules
        /\ \A i \in DOMAIN rules : gs[i] = [rules[i] EXCEPT !.caseSensitive = FALSE]
    BY <2>1 DEF Matching!Loose
  <2>3. \A i \in DOMAIN rules : Matching!matchFilter(rules[i], values) => Matching!matchFilter(gs[i], values)
    BY <1>1, <1>2, <2>2, LooserFilter DEF MatchInv
  <2>4. rules = <<>> => gs = <<>> BY <2>1 DEF Matching!Loose
  <2>5. QED BY <1>2, <2>1, <2>2, <2>3, <2>4, AllKeep
<1>3. ASSUME Matching!EvaluateFilters(rules, values), field = "to", NEW s
      PROVE  Matching!EvaluateFilters(rules, values \cup {s})
  BY <1>3, MoreRecipients, AllKeep
<1>4. ASSUME field = "subject", NEW i \in DOMAIN rules, rules[i].operator = "contains"
      PROVE  Matching!matchFilter(rules[i], values)
                # Matching!matchFilter([rules[i] EXCEPT !.operator = "not_contains"], values)
  <2>1. PICK s \in Text : values = {s} BY <1>1, <1>4 DEF ValuesTyped
  <2>2. QED BY <1>1, <1>4, <2>1, OneOfTwo
<1>5. QED BY <1>2, <1>3, <1>4 DEF values

MatchingInv == part = "matching" => MatchInv

(* EvaluateFilters of matcher.go: a match is kept when case no longer counts,  *)
(* as long as the filters only ask for something, and when there are further   *)
(* recipients; and of "contains" and "not contains" one is true of a subject.  *)
THEOREM MatchingAlwaysMonotone == ServicesSpec => []MatchingIsMonotone
<1>1. ServicesInit => MatchingInv
  <2>1. Matching!Init => MatchInv BY DEF Matching!Init, MatchInv
  <2>2. QED BY <2>1 DEF ServicesInit, MatchingInv
<1>2. MatchingInv /\ [ServicesNext]_servicesVars => MatchingInv' BY EachService, NextMatches DEF MatchingInv
<1>3. MatchingInv => MatchingIsMonotone BY MatchesKeep DEF MatchingInv, MatchingIsMonotone
<1>4. QED BY <1>1, <1>2, <1>3, PTL DEF ServicesSpec, servicesVars
=============================================================================
