------------------------- MODULE MailAccountProofs -------------------------
(***************************************************************************)
(* Theorems about MailAccount for every set of accounts, watchers, workers *)
(* and requests and every bound.                                           *)
(***************************************************************************)
EXTENDS MailAccount, TLAPS

\* The rows and jobs the code builds from nothing have their types.
LEMMA ConstantTypes ==
  /\ NoRow \in Row
  /\ \A n \in Nat : NewRow(n) \in Row
  /\ NoJob \in Job
  /\ \A pc \in Phase, row \in Row : Holding(pc, row) \in Job
BY DEF NoRow, NewRow, Row, AccountStatus, NoJob, Job, Phase, Holding

LEMMA HoldingFields ==
  ASSUME NEW pc \in Phase, NEW row \in Row
  PROVE  /\ Holding(pc, row).pc = pc /\ Holding(pc, row).row = row
         /\ Holding(pc, row).work = {} /\ Holding(pc, row).hit = {}
         /\ Holding(pc, row).top = 0
BY DEF Holding, NoJob

LEMMA NoJobFields ==
  /\ NoJob.pc = "idle" /\ NoJob.row = NoRow /\ NoJob.work = {} /\ NoJob.hit = {}
  /\ NoJob.top = 0
BY DEF NoJob

\* A row stays a row under the updates the code makes.
LEMMA RowUpdates ==
  ASSUME NEW row \in Row
  PROVE  /\ \A s \in AccountStatus : [row EXCEPT !.status = s] \in Row
         /\ \A b \in BOOLEAN : [row EXCEPT !.due = b] \in Row
         /\ \A b \in BOOLEAN : [row EXCEPT !.fresh = b] \in Row
         /\ \A n \in Nat : [row EXCEPT !.cursor = n] \in Row
         /\ \A n \in Nat : Reentered(row, n) \in Row
         /\ [row EXCEPT !.status = "verified", !.fresh = TRUE] \in Row
BY DEF Row, AccountStatus, Reentered

\* Replacing what a process holds for one account.
LEMMA PutType ==
  ASSUME job \in [Proc -> [Account -> Job]], NEW p \in Proc, NEW a \in Account,
         NEW j \in Job
  PROVE  /\ Put(p, a, j) \in [Proc -> [Account -> Job]]
         /\ \A q \in Proc, b \in Account :
              Put(p, a, j)[q][b] = IF q = p /\ b = a THEN j ELSE job[q][b]
BY DEF Put

LEMMA SaveType ==
  ASSUME accounts \in [Account -> Row], NEW a \in Account, NEW row \in Row
  PROVE  /\ SaveRow(a, row) \in [Account -> Row]
         /\ \A b \in Account : SaveRow(a, row)[b] = IF b = a THEN row ELSE accounts[b]
BY DEF SaveRow

LEMMA OpenTypes ==
  ASSUME open \subseteq (Proc \cup {Nobody}) \X Account
  PROVE  /\ \A p \in Proc, a \in Account, pc \in Phase :
              \A runs \in Finished(p, a, pc) : runs \subseteq (Proc \cup {Nobody}) \X Account
         /\ \A runs : Orphaned(runs) \subseteq (Proc \cup {Nobody}) \X Account
<1>1. \A runs : Orphaned(runs) \subseteq (Proc \cup {Nobody}) \X Account
  BY DEF Orphaned
<1>2. \A p \in Proc, a \in Account, pc \in Phase :
        Closed(p, a, pc) \subseteq (Proc \cup {Nobody}) \X Account
  BY DEF Closed
<1>3. QED BY <1>1, <1>2 DEF Finished

\* The job a sync, a request or a failed write leaves is a job.
LEMMA JobUpdates ==
  ASSUME NEW j \in Job
  PROVE  /\ \A pc \in Phase : [j EXCEPT !.pc = pc] \in Job
         /\ [j EXCEPT !.pc = "evaluating", !.hit = {}] \in Job
         /\ \A x \in j.work : /\ Recorded(j, x) \in Job
                              /\ [j EXCEPT !.work = j.work \ {x}] \in Job
         /\ \A n \in Nat, work \in SUBSET Match :
              [j EXCEPT !.pc = "evaluating", !.top = n, !.work = work] \in Job
         /\ \A row \in Row : [j EXCEPT !.row = row] \in Job
<1>1. \A x \in j.work : Recorded(j, x) \in Job
  BY DEF Job, Recorded, Phase
<1>2. \A x \in j.work : [j EXCEPT !.work = j.work \ {x}] \in Job
  BY DEF Job
<1>3. QED BY <1>1, <1>2 DEF Job, Phase

\* Time passes for a copy of the row.
LEMMA AgedType ==
  ASSUME NEW j \in Job
  PROVE  /\ [j EXCEPT !.row.due = TRUE] \in Job
         /\ [j EXCEPT !.row.fresh = FALSE] \in Job
<1>1. j.row \in Row
  BY DEF Job
<1>2. [j.row EXCEPT !.due = TRUE] \in Row /\ [j.row EXCEPT !.fresh = FALSE] \in Row
  BY <1>1, RowUpdates
<1>3. /\ [j EXCEPT !.row.due = TRUE] = [j EXCEPT !.row = [j.row EXCEPT !.due = TRUE]]
      /\ [j EXCEPT !.row.fresh = FALSE] = [j EXCEPT !.row = [j.row EXCEPT !.fresh = FALSE]]
  OBVIOUS
<1>4. QED BY <1>2, <1>3, JobUpdates

LEMMA UnwrittenType ==
  ASSUME NEW j \in Job PROVE Unwritten(j) \in Job
<1>1. Holding("closing", NoRow) \in Job
  BY ConstantTypes DEF Phase
<1>2. [j EXCEPT !.work = {x \in j.work : \E y \in j.work : y[2] < x[2]}] \in Job
  BY DEF Job
<1>3. QED BY <1>1, <1>2, JobUpdates, ConstantTypes DEF Unwritten

\* A claim gives the process a job for each account it selects, and no other.
LEMMA HandOutType ==
  ASSUME TypeOK, NEW p \in Proc, NEW S \in SUBSET Account, NEW pc \in Phase
  PROVE  /\ HandOut(p, S, pc) \in [Proc -> [Account -> Job]]
         /\ \A q \in Proc, b \in Account :
              HandOut(p, S, pc)[q][b] =
                IF q # p THEN job[q][b]
                ELSE IF b \in S THEN Holding(pc, accounts[b]) ELSE NoJob
<1>1. \A a \in Account : Holding(pc, accounts[a]) \in Job /\ NoJob \in Job
  BY ConstantTypes DEF TypeOK
<1>2. QED BY <1>1 DEF TypeOK, HandOut

-----------------------------------------------------------------------------
LEMMA InitType == Init => TypeOK
BY ConstantTypes, AccountAssumption DEF Init, TypeOK

\* When time passes, a job keeps everything but a flag of its row.
LEMMA AgedJobs ==
  ASSUME TypeOK, NEW a \in Account, IntervalPasses(a) \/ Expire(a)
  PROVE  \A p \in Proc, b \in Account :
           \/ job'[p][b] = job[p][b]
           \/ job'[p][b] = [job[p][b] EXCEPT !.row.due = TRUE]
           \/ job'[p][b] = [job[p][b] EXCEPT !.row.fresh = FALSE]
<1>1. \A p \in Proc : job[p] \in [Account -> Job]
  BY DEF TypeOK
<1>2. CASE IntervalPasses(a)
  <2>1. \A p \in Proc, b \in Account : job'[p][b] =
          IF b # a \/ job[p][a] = NoJob THEN job[p][b]
          ELSE [job[p][a] EXCEPT !.row.due = TRUE]
    BY <1>1, <1>2 DEF IntervalPasses
  <2>2. QED BY <2>1
<1>3. CASE Expire(a)
  <2>1. \A p \in Proc, b \in Account : job'[p][b] =
          IF b # a \/ job[p][a] = NoJob THEN job[p][b]
          ELSE [job[p][a] EXCEPT !.row.fresh = FALSE]
    BY <1>1, <1>3 DEF Expire
  <2>2. QED BY <2>1
<1>4. QED BY <1>2, <1>3

LEMMA ProcParts == Poller \subseteq Proc /\ Checker \subseteq Proc /\ Request \subseteq Proc
BY DEF Proc

LEMMA SyncStepType ==
  ASSUME TypeOK, NEW p \in Proc, NEW a \in Account, SyncStep(p, a)
  PROVE  TypeOK'
<1> DEFINE j == job[p][a]
<1>1. j \in Job /\ j.row \in Row /\ accounts[a] \in Row
  BY DEF TypeOK, Job
<1>2. CASE OpenSync(p, a)
  <2>1. [j EXCEPT !.pc = "fetching"] \in Job
    BY <1>1, JobUpdates DEF Phase
  <2>2. job' \in [Proc -> [Account -> Job]]
    BY <1>2, <2>1, ConstantTypes, PutType DEF OpenSync, TypeOK
  <2>3. open' \subseteq (Proc \cup {Nobody}) \X Account
    BY <1>2 DEF OpenSync, TypeOK
  <2>4. QED BY <1>2, <2>2, <2>3 DEF OpenSync, TypeOK, history
<1>3. CASE Abandon(p, a)
  <2>1. job' \in [Proc -> [Account -> Job]]
    BY <1>3, ConstantTypes, PutType DEF Abandon, TypeOK
  <2>2. open' \subseteq (Proc \cup {Nobody}) \X Account
    BY <1>3, OpenTypes DEF Abandon, TypeOK, Phase
  <2>3. QED BY <1>3, <2>1, <2>2 DEF Abandon, ProviderFails, TypeOK, history
<1>4. CASE FetchFails(p, a)
  <2>1. [j EXCEPT !.pc = "failing", !.row.status = "error"] \in Job
    BY <1>1 DEF Job, Row, AccountStatus, Phase
  <2>2. job' \in [Proc -> [Account -> Job]]
    BY <1>4, <2>1, PutType DEF FetchFails, TypeOK
  <2>3. open' \subseteq (Proc \cup {Nobody}) \X Account
    BY <1>4, OpenTypes DEF FetchFails, TypeOK, Phase
  <2>4. QED BY <1>4, <2>2, <2>3 DEF FetchFails, ProviderFails, TypeOK, history
<1>5. CASE RecordFailure(p, a)
  <2>1. job' \in [Proc -> [Account -> Job]]
    BY <1>5, ConstantTypes, PutType DEF RecordFailure, TypeOK
  <2>2. accounts' \in [Account -> Row]
    BY <1>5, <1>1, SaveType DEF RecordFailure, TypeOK
  <2>3. QED BY <1>5, <2>1, <2>2 DEF RecordFailure, TypeOK, pipeline, history
<1>6. CASE Fetch(p, a)
  <2> DEFINE work == WatchersOf(a) \X (j.row.cursor + 1 .. arrived[a])
             fetched == [j EXCEPT !.pc = "evaluating", !.top = arrived[a], !.work = work]
  <2>1. j.row.cursor \in Nat /\ arrived[a] \in 0..MaxMessage /\ MaxMessage \in Nat
    BY <1>1, AccountAssumption DEF TypeOK, Row
  <2>2. work \subseteq Match
    BY <2>1 DEF WatchersOf, Match
  <2>3. fetched \in Job
    <3>1. arrived[a] \in Nat /\ work \in SUBSET Match
      BY <2>1, <2>2
    <3> HIDE DEF work
    <3>2. QED BY <1>1, <3>1, JobUpdates
  <2>4. job' \in [Proc -> [Account -> Job]]
    <3>1. job' = Put(p, a, fetched)
      BY <1>6 DEF Fetch
    <3>2. QED BY <2>3, <3>1, PutType DEF TypeOK
  <2>5. QED BY <1>6, <2>4 DEF Fetch, TypeOK, pipeline, history
<1>7. CASE Evaluate(p, a)
  <2>1. PICK x \in j.work :
          IF IsNew(p, x)
          THEN matched' = matched \cup {x} /\ job' = Put(p, a, Recorded(j, x))
          ELSE job' = Put(p, a, [j EXCEPT !.work = j.work \ {x}]) /\ matched' = matched
    BY <1>7 DEF Evaluate
  <2>2. x \in Match
    BY <1>1 DEF Job
  <2>3. Recorded(j, x) \in Job /\ [j EXCEPT !.work = j.work \ {x}] \in Job
    BY <1>1, JobUpdates
  <2>4. job' \in [Proc -> [Account -> Job]]
    <3>1. job' = Put(p, a, Recorded(j, x)) \/ job' = Put(p, a, [j EXCEPT !.work = j.work \ {x}])
      BY <2>1
    <3>2. QED BY <2>3, <3>1, PutType DEF TypeOK
  <2>5. QED BY <1>7, <2>1, <2>2, <2>4 DEF Evaluate, TypeOK, history
<1>8. CASE ScheduleEvents(p, a)
  <2>1. [j EXCEPT !.pc = "evaluating", !.hit = {}] \in Job
    BY <1>1, JobUpdates
  <2>2. job' \in [Proc -> [Account -> Job]]
    BY <1>8, <2>1, PutType DEF ScheduleEvents, TypeOK
  <2>3. QED BY <1>8, <2>2 DEF ScheduleEvents, TypeOK, history
<1>9. CASE StoreCursor(p, a)
  <2>1. Synced(a, j) \in Row
    BY <1>1, RowUpdates DEF Synced, Job
  <2>2. accounts' \in [Account -> Row]
    BY <1>9, <2>1, SaveType DEF StoreCursor, TypeOK
  <2>3. job' \in [Proc -> [Account -> Job]]
    BY <1>9, ConstantTypes, PutType DEF StoreCursor, TypeOK, Phase
  <2>4. QED BY <1>9, <2>2, <2>3 DEF StoreCursor, TypeOK, pipeline, history
<1>10. CASE Close(p, a)
  <2>1. job' \in [Proc -> [Account -> Job]]
    BY <1>10, ConstantTypes, PutType DEF Close, TypeOK
  <2>2. open' \subseteq (Proc \cup {Nobody}) \X Account
    BY <1>10, OpenTypes DEF Close, TypeOK, Phase
  <2>3. QED BY <1>10, <2>1, <2>2 DEF Close, TypeOK, history
<1>11. QED
  BY <1>2, <1>3, <1>4, <1>5, <1>6, <1>7, <1>8, <1>9, <1>10 DEF SyncStep

LEMMA CheckStepType ==
  ASSUME TypeOK, NEW p \in Proc, NEW a \in Account, CheckStep(p, a)
  PROVE  TypeOK'
<1>1. job[p][a] \in Job /\ job[p][a].row \in Row
  BY DEF TypeOK, Job
<1>2. /\ [job[p][a].row EXCEPT !.status = "verified", !.fresh = TRUE] \in Row
      /\ [job[p][a].row EXCEPT !.status = "error"] \in Row
  BY <1>1, RowUpdates DEF AccountStatus
<1>3. job[p][a].row.creds \in Nat
  BY <1>1 DEF Row
<1>4. Put(p, a, NoJob) \in [Proc -> [Account -> Job]]
  BY ConstantTypes, PutType DEF TypeOK
<1>5. CASE CheckPass(p, a)
  <2>1. accounts' \in [Account -> Row]
    BY <1>2, <1>5, SaveType DEF CheckPass, TypeOK
  <2>2. QED BY <1>3, <1>4, <1>5, <2>1 DEF CheckPass, TypeOK, pipeline
<1>6. CASE CheckFail(p, a)
  <2>1. accounts' \in [Account -> Row]
    BY <1>2, <1>6, SaveType DEF CheckFail, TypeOK
  <2>2. faults' \in Nat
    BY <1>6 DEF CheckFail, ProviderFails, TypeOK
  <2>3. job' \in [Proc -> [Account -> Job]]
    BY <1>4, <1>6 DEF CheckFail
  <2>4. UNCHANGED <<gone, pipeline, history>>
    BY <1>6 DEF CheckFail
  <2>5. QED BY <2>1, <2>2, <2>3, <2>4 DEF TypeOK, pipeline, history
<1>7. QED BY <1>5, <1>6 DEF CheckStep

LEMMA EditSaveType ==
  ASSUME TypeOK, NEW q \in Proc, NEW a \in Account, NEW row \in Row, EditSave(q, a, row),
         entered' \in [Account -> Nat]
  PROVE  TypeOK'
<1>1. job' \in [Proc -> [Account -> Job]]
  BY ConstantTypes, PutType DEF EditSave, TypeOK
<1>2. accounts' \in [Account -> Row]
  BY SaveType DEF EditSave, TypeOK
<1>3. QED BY <1>1, <1>2 DEF EditSave, TypeOK, pipeline

LEMMA RequestStepType ==
  ASSUME TypeOK, NEW q \in Request, NEW a \in Account, RequestStep(q, a)
  PROVE  TypeOK'
<1>1. q \in Proc
  BY ProcParts
<1>2. job[q][a] \in Job /\ job[q][a].row \in Row /\ accounts[a] \in Row
  BY <1>1 DEF TypeOK, Job
<1>3. \A s \in AccountStatus : [job[q][a].row EXCEPT !.status = s] \in Row
  BY <1>2, RowUpdates
<1>4. CASE EnterCredentials(q, a)
  <2>1. entered[a] + 1 \in Nat
    BY DEF TypeOK
  <2>2. Reentered(job[q][a].row, entered[a] + 1) \in Row
    BY <1>2, <2>1, RowUpdates
  <2>3. entered' \in [Account -> Nat]
    BY <1>4, <2>1 DEF EnterCredentials, TypeOK
  <2>4. QED BY <1>1, <1>4, <2>2, <2>3, EditSaveType DEF EnterCredentials
<1>5. CASE Disable(q, a)
  <2>1. [job[q][a].row EXCEPT !.status = "disabled"] \in Row
    BY <1>3 DEF AccountStatus
  <2>2. entered' \in [Account -> Nat]
    BY <1>5 DEF Disable, TypeOK
  <2>3. QED BY <1>1, <1>5, <2>1, <2>2, EditSaveType DEF Disable
<1>6. CASE Enable(q, a)
  <2>1. [job[q][a].row EXCEPT !.status = "verified"] \in Row
    BY <1>3 DEF AccountStatus
  <2>2. entered' \in [Account -> Nat]
    BY <1>6 DEF Enable, TypeOK
  <2>3. QED BY <1>1, <1>6, <2>1, <2>2, EditSaveType DEF Enable
<1>7. CASE Rename(q, a)
  <2>1. entered' \in [Account -> Nat]
    BY <1>7 DEF Rename, TypeOK
  <2>2. QED BY <1>1, <1>2, <1>7, <2>1, EditSaveType DEF Rename
<1>8. CASE SyncStart(q, a) \/ VerifyRead(q, a) \/ EditRead(q, a) \/ Refuse(q, a)
  <2>1. /\ Holding("claimed", accounts[a]) \in Job
        /\ Holding("checking", accounts[a]) \in Job
        /\ Holding("editing", accounts[a]) \in Job
    BY <1>2, ConstantTypes DEF Phase
  <2>2. job' \in [Proc -> [Account -> Job]]
    <3>1. \/ job' = Put(q, a, Holding("claimed", accounts[a]))
          \/ job' = Put(q, a, Holding("checking", accounts[a]))
          \/ job' = Put(q, a, Holding("editing", accounts[a]))
          \/ job' = Put(q, a, NoJob)
      BY <1>8 DEF SyncStart, VerifyRead, EditRead, Refuse
    <3>2. QED BY <1>1, <2>1, <3>1, ConstantTypes, PutType DEF TypeOK
  <2>3. UNCHANGED <<accounts, gone, pipeline, faults, history>>
    BY <1>8 DEF SyncStart, VerifyRead, EditRead, Refuse
  <2>4. QED BY <2>2, <2>3 DEF TypeOK, pipeline, history
<1>9. QED
  BY <1>4, <1>5, <1>6, <1>7, <1>8 DEF RequestStep

LEMMA NextType == TypeOK /\ [Next]_vars => TypeOK'
<1> SUFFICES ASSUME TypeOK, [Next]_vars PROVE TypeOK'
  OBVIOUS
<1>1. \A a \in Account : accounts[a] \in Row
  BY DEF TypeOK
<1>2. ASSUME NEW p \in Poller, PollClaim(p) PROVE TypeOK'
  <2>1. PICK S \in SUBSET DueNow :
          /\ job' = HandOut(p, S, "claimed")
          /\ accounts' = [a \in Account |->
                       IF a \in S THEN [accounts[a] EXCEPT !.due = FALSE] ELSE accounts[a]]
    BY <1>2 DEF PollClaim
  <2>2. S \in SUBSET Account /\ p \in Proc /\ "claimed" \in Phase
    BY ProcParts DEF DueNow, Phase
  <2>3. job' \in [Proc -> [Account -> Job]]
    BY <2>1, <2>2, HandOutType
  <2>4. \A a \in Account : [accounts[a] EXCEPT !.due = FALSE] \in Row
    BY <1>1, RowUpdates
  <2>5. accounts' \in [Account -> Row]
    BY <1>1, <2>1, <2>4
  <2>6. UNCHANGED <<gone, pipeline, faults, history>>
    BY <1>2 DEF PollClaim
  <2>7. QED BY <2>3, <2>5, <2>6 DEF TypeOK, pipeline, history
<1>3. ASSUME NEW c \in Checker, CheckClaim(c) PROVE TypeOK'
  <2>1. PICK S \in SUBSET Stale :
          /\ job' = HandOut(c, S, "checking")
          /\ accounts' = [a \in Account |->
                       IF a \in S THEN [accounts[a] EXCEPT !.fresh = TRUE] ELSE accounts[a]]
    BY <1>3 DEF CheckClaim
  <2>2. S \in SUBSET Account /\ c \in Proc /\ "checking" \in Phase
    BY ProcParts DEF Stale, Phase
  <2>3. job' \in [Proc -> [Account -> Job]]
    BY <2>1, <2>2, HandOutType
  <2>4. \A a \in Account : [accounts[a] EXCEPT !.fresh = TRUE] \in Row
    BY <1>1, RowUpdates
  <2>5. accounts' \in [Account -> Row]
    BY <1>1, <2>1, <2>4
  <2>6. UNCHANGED <<gone, pipeline, faults, history>>
    BY <1>3 DEF CheckClaim
  <2>7. QED BY <2>3, <2>5, <2>6 DEF TypeOK, pipeline, history
<1>4. ASSUME NEW p \in Proc, Crash(p) PROVE TypeOK'
  <2>1. job' \in [Proc -> [Account -> Job]]
    BY <1>4, ConstantTypes DEF Crash, TypeOK
  <2>2. open' \subseteq (Proc \cup {Nobody}) \X Account
    BY <1>4, OpenTypes DEF Crash, TypeOK
  <2>3. QED BY <1>4, <2>1, <2>2 DEF Crash, TypeOK, history
<1>5. ASSUME NEW p \in Proc, NEW a \in Account, DBError(p, a) PROVE TypeOK'
  <2>1. Unwritten(job[p][a]) \in Job
    BY UnwrittenType DEF TypeOK
  <2>2. job' \in [Proc -> [Account -> Job]]
    BY <1>5, <2>1, PutType DEF DBError, TypeOK
  <2>3. open' \subseteq (Proc \cup {Nobody}) \X Account
    BY <1>5, OpenTypes DEF DBError, TypeOK, Phase
  <2>4. QED BY <1>5, <2>2, <2>3 DEF DBError, TypeOK, history
<1>6. ASSUME NEW a \in Account, Create(a) PROVE TypeOK'
  <2>1. accounts' \in [Account -> Row]
    BY <1>6, ConstantTypes, SaveType DEF Create, TypeOK
  <2>2. QED BY <1>6, <2>1 DEF Create, TypeOK, pipeline
<1>7. ASSUME NEW a \in Account, Delete(a) PROVE TypeOK'
  BY <1>7, ConstantTypes DEF Delete, TypeOK, history
<1>8. ASSUME NEW a \in Account, Arrive(a) PROVE TypeOK'
  <2>1. arrived' \in [Account -> 0..MaxMessage]
    BY <1>8, AccountAssumption DEF Arrive, TypeOK
  <2>2. QED BY <1>8, <2>1 DEF Arrive, TypeOK, history
<1>9. ASSUME NEW a \in Account, IntervalPasses(a) PROVE TypeOK'
  <2>1. \A p \in Proc : [job[p][a] EXCEPT !.row.due = TRUE] \in Job
    BY AgedType DEF TypeOK
  <2>2. job' \in [Proc -> [Account -> Job]]
    BY <1>9, <2>1, ConstantTypes DEF IntervalPasses, TypeOK
  <2>3. accounts' \in [Account -> Row]
    BY <1>9 DEF IntervalPasses, TypeOK, Row
  <2>4. QED BY <1>9, <2>2, <2>3 DEF IntervalPasses, TypeOK, pipeline, history
<1>10. ASSUME NEW a \in Account, Expire(a) PROVE TypeOK'
  <2>1. \A p \in Proc : [job[p][a] EXCEPT !.row.fresh = FALSE] \in Job
    BY AgedType DEF TypeOK
  <2>2. job' \in [Proc -> [Account -> Job]]
    BY <1>10, <2>1, ConstantTypes DEF Expire, TypeOK
  <2>3. accounts' \in [Account -> Row]
    BY <1>10 DEF Expire, TypeOK, Row
  <2>4. QED BY <1>10, <2>2, <2>3 DEF Expire, TypeOK, pipeline, history
<1>11. CASE UNCHANGED vars
  BY <1>11 DEF TypeOK, vars
<1>12. QED
  BY <1>2, <1>3, <1>4, <1>5, <1>6, <1>7, <1>8, <1>9, <1>10, <1>11,
     SyncStepType, CheckStepType, RequestStepType DEF Next

\* Every reachable state is well typed.
THEOREM TypeCorrect == Spec => []TypeOK
<1>1. QED BY InitType, NextType, PTL DEF Spec
-----------------------------------------------------------------------------
(* ScheduledOnce.  A match that a sync still has in hand was recorded and   *)
(* its events were not scheduled, and no two syncs have the same in hand.   *)

OnceInv ==
  /\ ScheduledOnce
  /\ \A x \in Match : x \notin matched => scheduled[x] = 0
  /\ \A p \in Proc, a \in Account : \A x \in job[p][a].hit :
       x \in matched /\ scheduled[x] = 0
  /\ \A p, q \in Proc, a, b \in Account :
       job[p][a].hit \cap job[q][b].hit # {} => p = q /\ a = b

\* What every step does except the two that record a match and schedule it.
Calm == /\ UNCHANGED <<matched, scheduled>>
        /\ \A p \in Proc, a \in Account : job'[p][a].hit \subseteq job[p][a].hit

LEMMA CalmKeepsOnce == OnceInv /\ Calm => OnceInv'
BY DEF OnceInv, Calm, ScheduledOnce

\* Replacing one job by one with no more in hand is calm.
LEMMA CalmPut ==
  ASSUME TypeOK, NEW p \in Proc, NEW a \in Account, NEW j \in Job,
         j.hit \subseteq job[p][a].hit, job' = Put(p, a, j),
         UNCHANGED <<matched, scheduled>>
  PROVE  Calm
<1>1. \A q \in Proc, b \in Account :
        job'[q][b] = IF q = p /\ b = a THEN j ELSE job[q][b]
  BY PutType DEF TypeOK
<1>2. QED BY <1>1 DEF Calm

LEMMA CalmHandOut ==
  ASSUME TypeOK, NEW p \in Proc, NEW S \in SUBSET Account, NEW pc \in Phase,
         job' = HandOut(p, S, pc), UNCHANGED <<matched, scheduled>>
  PROVE  Calm
<1>1. \A q \in Proc, b \in Account :
        job'[q][b] = IF q # p THEN job[q][b]
                     ELSE IF b \in S THEN Holding(pc, accounts[b]) ELSE NoJob
  BY HandOutType
<1>2. \A b \in Account : Holding(pc, accounts[b]).hit = {} /\ NoJob.hit = {}
  BY HoldingFields, NoJobFields DEF TypeOK
<1>3. QED BY <1>1, <1>2 DEF Calm

LEMMA CalmSync ==
  ASSUME TypeOK, NEW p \in Proc, NEW a \in Account, SyncStep(p, a),
         ~Evaluate(p, a), ~ScheduleEvents(p, a)
  PROVE  Calm
<1> DEFINE j == job[p][a]
<1>1. j \in Job /\ j.row \in Row
  BY DEF TypeOK, Job
<1>2. CASE OpenSync(p, a)
  <2>1. [j EXCEPT !.pc = "fetching"] \in Job
    BY <1>1, JobUpdates DEF Phase
  <2>2. [j EXCEPT !.pc = "fetching"].hit = j.hit
    BY <1>1 DEF Job
  <2>3. \/ job' = Put(p, a, [j EXCEPT !.pc = "fetching"])
        \/ job' = Put(p, a, NoJob)
    BY <1>2 DEF OpenSync
  <2>4. UNCHANGED <<matched, scheduled>>
    BY <1>2 DEF OpenSync
  <2>5. QED BY <2>1, <2>2, <2>3, <2>4, CalmPut, ConstantTypes, NoJobFields
<1>3. CASE Abandon(p, a) \/ RecordFailure(p, a) \/ Close(p, a)
  <2>1. job' = Put(p, a, NoJob) /\ UNCHANGED <<matched, scheduled>>
    BY <1>3 DEF Abandon, RecordFailure, Close, pipeline
  <2>2. QED BY <2>1, CalmPut, ConstantTypes, NoJobFields
<1>4. CASE FetchFails(p, a)
  <2> DEFINE k == [j EXCEPT !.pc = "failing", !.row.status = "error"]
  <2>1. k \in Job
    BY <1>1 DEF Job, Row, AccountStatus, Phase
  <2>2. k.hit = j.hit
    BY <1>1 DEF Job
  <2>3. job' = Put(p, a, k) /\ UNCHANGED <<matched, scheduled>>
    BY <1>4 DEF FetchFails
  <2> HIDE DEF k
  <2>4. QED BY <2>1, <2>2, <2>3, CalmPut
<1>5. CASE Fetch(p, a)
  <2> DEFINE work == WatchersOf(a) \X (j.row.cursor + 1 .. arrived[a])
             k == [j EXCEPT !.pc = "evaluating", !.top = arrived[a], !.work = work]
  <2>1. j.row.cursor \in Nat /\ arrived[a] \in 0..MaxMessage /\ MaxMessage \in Nat
    BY <1>1, AccountAssumption DEF TypeOK, Row
  <2>2. work \in SUBSET Match /\ arrived[a] \in Nat
    BY <2>1 DEF WatchersOf, Match
  <2>3. job' = Put(p, a, k) /\ UNCHANGED <<matched, scheduled>>
    BY <1>5 DEF Fetch, pipeline
  <2> HIDE DEF work
  <2>4. k \in Job
    BY <1>1, <2>2, JobUpdates
  <2>5. k.hit = j.hit
    BY <1>1 DEF Job
  <2> HIDE DEF k
  <2>6. QED BY <2>3, <2>4, <2>5, CalmPut
<1>6. CASE StoreCursor(p, a)
  <2>1. job' = Put(p, a, Holding("closing", NoRow)) /\ UNCHANGED <<matched, scheduled>>
    BY <1>6 DEF StoreCursor, pipeline
  <2>2. Holding("closing", NoRow) \in Job /\ Holding("closing", NoRow).hit = {}
    BY ConstantTypes, HoldingFields DEF Phase
  <2>3. QED BY <2>1, <2>2, CalmPut
<1>7. QED
  BY <1>2, <1>3, <1>4, <1>5, <1>6 DEF SyncStep

LEMMA CalmRequest ==
  ASSUME TypeOK, NEW q \in Request, NEW a \in Account, RequestStep(q, a)
  PROVE  Calm
<1>1. q \in Proc /\ accounts[a] \in Row
  BY ProcParts DEF TypeOK
<1>2. /\ Holding("claimed", accounts[a]) \in Job /\ Holding("claimed", accounts[a]).hit = {}
      /\ Holding("checking", accounts[a]) \in Job /\ Holding("checking", accounts[a]).hit = {}
      /\ Holding("editing", accounts[a]) \in Job /\ Holding("editing", accounts[a]).hit = {}
  BY <1>1, ConstantTypes, HoldingFields DEF Phase
<1>3. UNCHANGED <<matched, scheduled>>
  BY DEF RequestStep, EnterCredentials, Disable, Enable, Rename, EditSave,
     SyncStart, VerifyRead, EditRead, Refuse, pipeline
<1>4. \/ job' = Put(q, a, Holding("claimed", accounts[a]))
      \/ job' = Put(q, a, Holding("checking", accounts[a]))
      \/ job' = Put(q, a, Holding("editing", accounts[a]))
      \/ job' = Put(q, a, NoJob)
  BY DEF RequestStep, EnterCredentials, Disable, Enable, Rename, EditSave,
     SyncStart, VerifyRead, EditRead, Refuse
<1>5. QED BY <1>1, <1>2, <1>3, <1>4, CalmPut, ConstantTypes, NoJobFields

LEMMA OnceNext == TypeOK /\ OnceInv /\ [Next]_vars => OnceInv'
<1> SUFFICES ASSUME TypeOK, OnceInv, [Next]_vars PROVE OnceInv'
  OBVIOUS
<1>1. ASSUME NEW p \in Proc, NEW a \in Account, Evaluate(p, a) PROVE OnceInv'
  <2> DEFINE j == job[p][a]
  <2>1. PICK x \in j.work :
          IF IsNew(p, x)
          THEN matched' = matched \cup {x} /\ job' = Put(p, a, Recorded(j, x))
          ELSE job' = Put(p, a, [j EXCEPT !.work = j.work \ {x}]) /\ matched' = matched
    BY <1>1 DEF Evaluate
  <2>2. j \in Job /\ x \in Match
    BY DEF TypeOK, Job
  <2>3. scheduled' = scheduled
    BY <1>1 DEF Evaluate
  <2>4. CASE ~IsNew(p, x)
    <3>1. [j EXCEPT !.work = j.work \ {x}] \in Job
      BY <2>2, JobUpdates
    <3>2. [j EXCEPT !.work = j.work \ {x}].hit = j.hit
      BY <2>2 DEF Job
    <3>3. Calm
      BY <2>1, <2>3, <2>4, <3>1, <3>2, CalmPut
    <3>4. QED BY <3>3, CalmKeepsOnce
  <2>5. CASE IsNew(p, x)
    <3>1. x \notin matched /\ scheduled[x] = 0
      BY <2>2, <2>5 DEF IsNew, OnceInv
    <3>2. Recorded(j, x) \in Job /\ Recorded(j, x).hit = {x}
      BY <2>2, JobUpdates DEF Recorded, Job
    <3>3. \A q \in Proc, b \in Account :
            job'[q][b] = IF q = p /\ b = a THEN Recorded(j, x) ELSE job[q][b]
      BY <2>1, <2>5, <3>2, PutType DEF TypeOK
    <3>4. \A q \in Proc, b \in Account : x \notin job[q][b].hit
      BY <3>1 DEF OnceInv
    <3>5. matched' = matched \cup {x}
      BY <2>1, <2>5
    <3>6. \A q \in Proc, b \in Account : \A y \in job'[q][b].hit :
            y \in matched' /\ scheduled'[y] = 0
      BY <2>3, <3>1, <3>2, <3>3, <3>5 DEF OnceInv
    <3>7. \A q, r \in Proc, b, c \in Account :
            job'[q][b].hit \cap job'[r][c].hit # {} => q = r /\ b = c
      BY <3>2, <3>3, <3>4 DEF OnceInv
    <3>8. QED BY <2>3, <3>5, <3>6, <3>7 DEF OnceInv, ScheduledOnce
  <2>6. QED BY <2>4, <2>5
<1>2. ASSUME NEW p \in Proc, NEW a \in Account, ScheduleEvents(p, a) PROVE OnceInv'
  <2> DEFINE j == job[p][a]
             k == [j EXCEPT !.pc = "evaluating", !.hit = {}]
  <2>1. j \in Job
    BY DEF TypeOK
  <2>2. k \in Job /\ k.hit = {}
    BY <2>1, JobUpdates DEF Job
  <2>3. \A q \in Proc, b \in Account :
          job'[q][b] = IF q = p /\ b = a THEN k ELSE job[q][b]
    <3>1. job' = Put(p, a, k)
      BY <1>2 DEF ScheduleEvents
    <3> HIDE DEF k
    <3>2. QED BY <2>2, <3>1, PutType DEF TypeOK
  <2> HIDE DEF k
  <2>4. matched' = matched /\ scheduled' = [x \in Match |->
          IF x \in j.hit THEN scheduled[x] + 1 ELSE scheduled[x]]
    BY <1>2 DEF ScheduleEvents
  <2>5. \A x \in j.hit : x \in matched /\ scheduled[x] = 0
    BY DEF OnceInv
  <2>6. \A x \in Match : scheduled'[x] <= 1 /\ (x \notin matched' => scheduled'[x] = 0)
    BY <2>4, <2>5 DEF OnceInv, ScheduledOnce
  <2>7. \A q \in Proc, b \in Account : \A x \in job'[q][b].hit :
          x \in job[q][b].hit /\ x \notin j.hit
    BY <2>2, <2>3 DEF OnceInv
  <2>8. \A q \in Proc, b \in Account : \A x \in job'[q][b].hit :
          x \in matched' /\ scheduled'[x] = 0
    <3>1. \A q \in Proc, b \in Account : job[q][b].hit \subseteq Match
      BY DEF TypeOK, Job
    <3>2. QED BY <2>4, <2>7, <3>1 DEF OnceInv
  <2>9. \A q, r \in Proc, b, c \in Account :
          job'[q][b].hit \cap job'[r][c].hit # {} => q = r /\ b = c
    BY <2>7 DEF OnceInv
  <2>10. QED BY <2>6, <2>8, <2>9 DEF OnceInv, ScheduledOnce
<1>3. ASSUME Calm PROVE OnceInv'
  BY <1>3, CalmKeepsOnce
<1>4. ASSUME NEW p \in Poller, PollClaim(p) PROVE OnceInv'
  <2>1. /\ \E S \in SUBSET DueNow : job' = HandOut(p, S, "claimed")
        /\ UNCHANGED <<matched, scheduled>>
    BY <1>4 DEF PollClaim, pipeline
  <2>2. DueNow \subseteq Account /\ p \in Proc /\ "claimed" \in Phase
    BY ProcParts DEF DueNow, Phase
  <2>3. QED BY <1>3, <2>1, <2>2, CalmHandOut
<1>5. ASSUME NEW c \in Checker, CheckClaim(c) PROVE OnceInv'
  <2>1. /\ \E S \in SUBSET Stale : job' = HandOut(c, S, "checking")
        /\ UNCHANGED <<matched, scheduled>>
    BY <1>5 DEF CheckClaim, pipeline
  <2>2. Stale \subseteq Account /\ c \in Proc /\ "checking" \in Phase
    BY ProcParts DEF Stale, Phase
  <2>3. QED BY <1>3, <2>1, <2>2, CalmHandOut
<1>6. ASSUME NEW p \in Proc, Crash(p) PROVE OnceInv'
  <2>1. \A q \in Proc, b \in Account :
          job'[q][b] = IF q = p THEN NoJob ELSE job[q][b]
    BY <1>6 DEF Crash, TypeOK
  <2>2. UNCHANGED <<matched, scheduled>>
    BY <1>6 DEF Crash
  <2>3. QED BY <1>3, <2>1, <2>2, NoJobFields DEF Calm
<1>7. ASSUME NEW p \in Proc, NEW a \in Account, DBError(p, a) PROVE OnceInv'
  <2>1. job[p][a] \in Job /\ Unwritten(job[p][a]) \in Job
    BY UnwrittenType DEF TypeOK
  <2>2. Unwritten(job[p][a]).hit \subseteq job[p][a].hit
    <3>1. Holding("closing", NoRow).hit = {} /\ NoJob.hit = {}
      BY ConstantTypes, HoldingFields, NoJobFields DEF Phase
    <3>2. \A w : [job[p][a] EXCEPT !.work = w].hit = job[p][a].hit
      BY <2>1 DEF Job
    <3>3. [job[p][a] EXCEPT !.pc = "evaluating", !.hit = {}].hit = {}
      BY <2>1 DEF Job
    <3>4. QED BY <3>1, <3>2, <3>3 DEF Unwritten
  <2>3. job' = Put(p, a, Unwritten(job[p][a])) /\ UNCHANGED <<matched, scheduled>>
    BY <1>7 DEF DBError
  <2>4. QED BY <1>3, <2>1, <2>2, <2>3, CalmPut
<1>8. ASSUME NEW p \in Proc, NEW a \in Account, CheckStep(p, a) PROVE OnceInv'
  <2>1. job' = Put(p, a, NoJob) /\ UNCHANGED <<matched, scheduled>>
    BY <1>8 DEF CheckStep, CheckPass, CheckFail, pipeline
  <2>2. QED BY <1>3, <2>1, CalmPut, ConstantTypes, NoJobFields
<1>9. ASSUME NEW a \in Account, Create(a) \/ Delete(a) \/ Arrive(a) PROVE OnceInv'
  <2>1. UNCHANGED <<job, matched, scheduled>>
    BY <1>9 DEF Create, Delete, Arrive, pipeline
  <2>2. QED BY <1>3, <2>1 DEF Calm
<1>10. ASSUME NEW a \in Account, IntervalPasses(a) \/ Expire(a) PROVE OnceInv'
  <2>1. UNCHANGED <<matched, scheduled>>
    BY <1>10 DEF IntervalPasses, Expire, pipeline
  <2>2. \A p \in Proc, b \in Account : job'[p][b].hit = job[p][b].hit
    <3>1. \A j \in Job : /\ [j EXCEPT !.row.due = TRUE].hit = j.hit
                         /\ [j EXCEPT !.row.fresh = FALSE].hit = j.hit
      BY DEF Job
    <3>2. \A p \in Proc, b \in Account : job[p][b] \in Job
      BY DEF TypeOK
    <3>3. QED BY <1>10, <3>1, <3>2, AgedJobs
  <2>3. QED BY <1>3, <2>1, <2>2 DEF Calm
<1>11. CASE UNCHANGED vars
  BY <1>3, <1>11 DEF vars, Calm
<1>12. QED
  BY <1>1, <1>2, <1>3, <1>4, <1>5, <1>6, <1>7, <1>8, <1>9, <1>10, <1>11,
     CalmSync, CalmRequest DEF Next

\* However often its message is fetched, by whomever and from whatever cursor,
\* the events of a match are scheduled at most once (evaluate, CreateIfNew).
THEOREM EventsAreScheduledOnce == Spec => []ScheduledOnce
<1>1. Init => OnceInv
  BY ConstantTypes, NoJobFields DEF Init, OnceInv, ScheduledOnce
<1>2. OnceInv => ScheduledOnce
  BY DEF OnceInv
<1>3. QED BY <1>1, <1>2, InitType, NextType, OnceNext, PTL DEF Spec
-----------------------------------------------------------------------------
(* NothingSkipped, where every statement of evaluate succeeds.  It is       *)
(* inductive as it stands: a cursor enters the table only from a copy, and  *)
(* a copy takes the cursor of a fetch only when nothing is left to record.  *)

Covered(a, n) == Recordable(a, n) \subseteq matched

\* What a step has to keep of the jobs.
JobsCovered ==
  \A p \in Proc, a \in Account :
    /\ Covered(a, job[p][a].row.cursor)
    /\ Recordable(a, job[p][a].top) \subseteq matched \cup job[p][a].work

TableCovered == \A a \in Account : Covered(a, accounts[a].cursor)

LEMMA SkippedParts == NothingSkipped <=> TableCovered /\ JobsCovered
BY DEF NothingSkipped, TableCovered, JobsCovered, Covered

LEMMA NoneRecordable == \A a \in Account : Recordable(a, 0) = {}
BY DEF Recordable

LEMMA SaveCovered ==
  ASSUME TypeOK, TableCovered, NEW a \in Account, NEW row \in Row,
         accounts' = SaveRow(a, row), matched \subseteq matched',
         Covered(a, row.cursor)
  PROVE  TableCovered'
<1>1. \A b \in Account : accounts'[b] = IF b = a THEN row ELSE accounts[b]
  BY SaveType DEF TypeOK
<1>2. QED BY <1>1 DEF TableCovered, Covered, Recordable, WatchersOf

LEMMA PutCovered ==
  ASSUME TypeOK, JobsCovered, NEW p \in Proc, NEW a \in Account, NEW j \in Job,
         job' = Put(p, a, j), matched \subseteq matched', Covered(a, j.row.cursor),
         Recordable(a, j.top) \subseteq matched' \cup j.work
  PROVE  JobsCovered'
<1>1. \A q \in Proc, b \in Account :
        job'[q][b] = IF q = p /\ b = a THEN j ELSE job[q][b]
  BY PutType DEF TypeOK
<1>2. \A q \in Proc, b \in Account : Covered(b, job'[q][b].row.cursor)
  BY <1>1 DEF JobsCovered
<1>3. \A q \in Proc, b \in Account :
        Recordable(b, job'[q][b].top) \subseteq matched' \cup job'[q][b].work
  BY <1>1 DEF JobsCovered
<1>4. QED BY <1>2, <1>3 DEF JobsCovered, Covered, Recordable, WatchersOf

LEMMA HoldingCovered ==
  /\ \A a \in Account, pc \in Phase, row \in Row : Covered(a, row.cursor) =>
       /\ Covered(a, Holding(pc, row).row.cursor)
       /\ Recordable(a, Holding(pc, row).top) = {}
  /\ \A a \in Account : /\ Covered(a, NoRow.cursor)
                        /\ Covered(a, NoJob.row.cursor)
                        /\ Recordable(a, NoJob.top) = {}
<1>1. \A a \in Account : Covered(a, NoRow.cursor)
  BY NoneRecordable DEF NoRow, Covered
<1>2. QED BY <1>1, HoldingFields, NoJobFields, NoneRecordable

LEMMA CoveredHandOut ==
  ASSUME TypeOK, TableCovered, JobsCovered, NEW p \in Proc, NEW S \in SUBSET Account,
         NEW pc \in Phase, job' = HandOut(p, S, pc), matched' = matched
  PROVE  JobsCovered'
<1>1. \A q \in Proc, b \in Account :
        job'[q][b] = IF q # p THEN job[q][b]
                     ELSE IF b \in S THEN Holding(pc, accounts[b]) ELSE NoJob
  <2>1. job \in [Proc -> [Account -> Job]]
    BY DEF TypeOK
  <2>2. QED BY <2>1 DEF HandOut
<1>2. \A b \in Account : accounts[b] \in Row /\ Covered(b, accounts[b].cursor)
  BY DEF TypeOK, TableCovered
<1>3. \A q \in Proc, b \in Account : Covered(b, job'[q][b].row.cursor)
  BY <1>1, <1>2, HoldingCovered DEF JobsCovered
<1>4. \A q \in Proc, b \in Account :
        Recordable(b, job'[q][b].top) \subseteq matched \cup job'[q][b].work
  BY <1>1, <1>2, HoldingCovered DEF JobsCovered
<1>5. QED BY <1>3, <1>4 DEF JobsCovered, Covered, Recordable, WatchersOf

LEMMA CoveredSync ==
  ASSUME TypeOK, TableCovered, JobsCovered, NEW p \in Proc, NEW a \in Account,
         SyncStep(p, a)
  PROVE  TableCovered' /\ JobsCovered'
<1> DEFINE j == job[p][a]
<1>1. j \in Job /\ j.row \in Row /\ j.row.cursor \in Nat
  BY DEF TypeOK, Job, Row
<1>2. Covered(a, j.row.cursor) /\ Recordable(a, j.top) \subseteq matched \cup j.work
  BY DEF JobsCovered
<1>3. ASSUME UNCHANGED <<accounts, matched>> PROVE TableCovered'
  BY <1>3 DEF TableCovered, Covered, Recordable, WatchersOf
<1>4. ASSUME job' = Put(p, a, NoJob), matched' = matched PROVE JobsCovered'
  BY <1>4, PutCovered, HoldingCovered, ConstantTypes
<1>5. CASE OpenSync(p, a)
  <2>1. [j EXCEPT !.pc = "fetching"] \in Job
    BY <1>1, JobUpdates DEF Phase
  <2>2. /\ [j EXCEPT !.pc = "fetching"].row = j.row
        /\ [j EXCEPT !.pc = "fetching"].top = j.top
        /\ [j EXCEPT !.pc = "fetching"].work = j.work
    BY <1>1 DEF Job
  <2>3. \/ job' = Put(p, a, [j EXCEPT !.pc = "fetching"])
        \/ job' = Put(p, a, NoJob)
    BY <1>5 DEF OpenSync
  <2>4. UNCHANGED <<accounts, matched>>
    BY <1>5 DEF OpenSync
  <2>5. JobsCovered'
    BY <1>2, <1>4, <2>1, <2>2, <2>3, <2>4, PutCovered
  <2>6. QED BY <1>3, <2>4, <2>5
<1>6. CASE Abandon(p, a) \/ Close(p, a)
  BY <1>3, <1>4, <1>6 DEF Abandon, Close
<1>7. CASE RecordFailure(p, a)
  <2>1. accounts' = SaveRow(a, j.row) /\ matched' = matched /\ job' = Put(p, a, NoJob)
    BY <1>7 DEF RecordFailure, pipeline
  <2>2. TableCovered'
    BY <1>1, <1>2, <2>1, SaveCovered
  <2>3. QED BY <1>4, <2>1, <2>2
<1>8. CASE FetchFails(p, a)
  <2> DEFINE k == [j EXCEPT !.pc = "failing", !.row.status = "error"]
  <2>1. k \in Job
    BY <1>1 DEF Job, Row, AccountStatus, Phase
  <2>2. k.row.cursor = j.row.cursor /\ k.top = j.top /\ k.work = j.work
    BY <1>1 DEF Job, Row
  <2>3. job' = Put(p, a, k) /\ UNCHANGED <<accounts, matched>>
    BY <1>8 DEF FetchFails
  <2> HIDE DEF k
  <2>4. JobsCovered'
    BY <1>2, <2>1, <2>2, <2>3, PutCovered
  <2>5. QED BY <1>3, <2>3, <2>4
<1>9. CASE Fetch(p, a)
  <2> DEFINE work == WatchersOf(a) \X (j.row.cursor + 1 .. arrived[a])
             k == [j EXCEPT !.pc = "evaluating", !.top = arrived[a], !.work = work]
  <2>1. arrived[a] \in 0..MaxMessage /\ MaxMessage \in Nat
    BY AccountAssumption DEF TypeOK
  <2>2. work \in SUBSET Match /\ arrived[a] \in Nat
    BY <1>1, <2>1 DEF WatchersOf, Match
  <2>3. Recordable(a, arrived[a]) \subseteq matched \cup work
    BY <1>1, <1>2, <2>2 DEF Covered, Recordable
  <2>4. job' = Put(p, a, k) /\ UNCHANGED <<accounts, matched>>
    BY <1>9 DEF Fetch, pipeline
  <2> HIDE DEF work
  <2>5. k \in Job
    BY <1>1, <2>2, JobUpdates
  <2>6. k.row = j.row /\ k.top = arrived[a] /\ k.work = work
    BY <1>1 DEF Job
  <2> HIDE DEF k
  <2>7. JobsCovered'
    BY <1>2, <2>3, <2>4, <2>5, <2>6, PutCovered
  <2>8. QED BY <1>3, <2>4, <2>7
<1>10. CASE Evaluate(p, a)
  <2>1. PICK x \in j.work :
          IF IsNew(p, x)
          THEN matched' = matched \cup {x} /\ job' = Put(p, a, Recorded(j, x))
          ELSE job' = Put(p, a, [j EXCEPT !.work = j.work \ {x}]) /\ matched' = matched
    BY <1>10 DEF Evaluate
  <2>2. accounts' = accounts
    BY <1>10 DEF Evaluate
  <2>3. matched' = matched \cup {x}
    BY <2>1 DEF IsNew
  <2>4. TableCovered'
    BY <2>2, <2>3 DEF TableCovered, Covered, Recordable, WatchersOf
  <2>5. /\ Recorded(j, x) \in Job /\ Recorded(j, x).row = j.row
        /\ Recorded(j, x).top = j.top /\ Recorded(j, x).work = j.work \ {x}
    BY <1>1, JobUpdates DEF Recorded, Job
  <2> DEFINE k == [j EXCEPT !.work = j.work \ {x}]
  <2>6. k \in Job /\ k.row = j.row /\ k.top = j.top /\ k.work = j.work \ {x}
    BY <1>1, JobUpdates DEF Job
  <2>7. job' = Put(p, a, Recorded(j, x)) \/ job' = Put(p, a, k)
    BY <2>1
  <2> HIDE DEF k
  <2>8. Recordable(a, j.top) \subseteq matched' \cup (j.work \ {x})
    BY <1>2, <2>3
  <2>9. JobsCovered'
    BY <1>2, <2>3, <2>5, <2>6, <2>7, <2>8, PutCovered
  <2>10. QED BY <2>4, <2>9
<1>11. CASE ScheduleEvents(p, a)
  <2> DEFINE k == [j EXCEPT !.pc = "evaluating", !.hit = {}]
  <2>1. k \in Job
    BY <1>1, JobUpdates
  <2>2. k.row = j.row /\ k.top = j.top /\ k.work = j.work
    BY <1>1 DEF Job
  <2>3. job' = Put(p, a, k) /\ UNCHANGED <<accounts, matched>>
    BY <1>11 DEF ScheduleEvents
  <2> HIDE DEF k
  <2>4. JobsCovered'
    BY <1>2, <2>1, <2>2, <2>3, PutCovered
  <2>5. QED BY <1>3, <2>3, <2>4
<1>12. CASE StoreCursor(p, a)
  <2>1. /\ j.work = {} /\ matched' = matched /\ accounts' = SaveRow(a, Synced(a, j))
        /\ job' = Put(p, a, Holding("closing", NoRow))
    BY <1>12 DEF StoreCursor, pipeline
  <2>2. Synced(a, j) \in Row /\ Synced(a, j).cursor = j.top
    BY <1>1, RowUpdates DEF Synced, Job, Row
  <2>3. TableCovered'
    BY <1>2, <2>1, <2>2, SaveCovered DEF Covered
  <2>4. "closing" \in Phase /\ NoRow \in Row
    BY ConstantTypes DEF Phase
  <2>5. JobsCovered'
    BY <2>1, <2>4, PutCovered, HoldingCovered, ConstantTypes
  <2>6. QED BY <2>3, <2>5
<1>13. QED
  BY <1>5, <1>6, <1>7, <1>8, <1>9, <1>10, <1>11, <1>12 DEF SyncStep

LEMMA CoveredCheck ==
  ASSUME TypeOK, TableCovered, JobsCovered, NEW p \in Proc, NEW a \in Account,
         CheckStep(p, a)
  PROVE  TableCovered' /\ JobsCovered'
<1>1. job[p][a].row \in Row /\ Covered(a, job[p][a].row.cursor)
  BY DEF TypeOK, Job, JobsCovered
<1>2. matched' = matched /\ job' = Put(p, a, NoJob)
  BY DEF CheckStep, CheckPass, CheckFail, pipeline
<1>3. JobsCovered'
  BY <1>2, PutCovered, HoldingCovered, ConstantTypes
<1>4. PICK row : /\ accounts' = SaveRow(a, row)
                 /\ \/ row = [job[p][a].row EXCEPT !.status = "verified", !.fresh = TRUE]
                    \/ row = [job[p][a].row EXCEPT !.status = "error"]
  BY DEF CheckStep, CheckPass, CheckFail
<1>5. row \in Row /\ row.cursor = job[p][a].row.cursor
  BY <1>1, <1>4 DEF Row, AccountStatus
<1>6. QED BY <1>1, <1>2, <1>3, <1>4, <1>5, SaveCovered

LEMMA CoveredRequest ==
  ASSUME TypeOK, TableCovered, JobsCovered, NEW q \in Request, NEW a \in Account,
         RequestStep(q, a)
  PROVE  TableCovered' /\ JobsCovered'
<1>1. /\ q \in Proc /\ accounts[a] \in Row /\ Covered(a, accounts[a].cursor)
      /\ job[q][a].row \in Row /\ Covered(a, job[q][a].row.cursor)
  BY ProcParts DEF TypeOK, Job, JobsCovered, TableCovered
<1>2. matched' = matched
  BY DEF RequestStep, EnterCredentials, Disable, Enable, Rename, EditSave,
     SyncStart, VerifyRead, EditRead, Refuse, pipeline
<1>3. \/ job' = Put(q, a, Holding("claimed", accounts[a]))
      \/ job' = Put(q, a, Holding("checking", accounts[a]))
      \/ job' = Put(q, a, Holding("editing", accounts[a]))
      \/ job' = Put(q, a, NoJob)
  BY DEF RequestStep, EnterCredentials, Disable, Enable, Rename, EditSave,
     SyncStart, VerifyRead, EditRead, Refuse
<1>4. "claimed" \in Phase /\ "checking" \in Phase /\ "editing" \in Phase
  BY DEF Phase
<1>5. JobsCovered'
  BY <1>1, <1>2, <1>3, <1>4, PutCovered, HoldingCovered, ConstantTypes
<1>6. CASE accounts' = accounts
  BY <1>2, <1>5, <1>6 DEF TableCovered, Covered, Recordable, WatchersOf
<1>7. CASE accounts' # accounts
  <2>1. PICK row : /\ accounts' = SaveRow(a, row)
                   /\ \/ row = Reentered(job[q][a].row, entered[a] + 1)
                      \/ row = [job[q][a].row EXCEPT !.status = "disabled"]
                      \/ row = [job[q][a].row EXCEPT !.status = "verified"]
                      \/ row = job[q][a].row
    BY <1>7 DEF RequestStep, EnterCredentials, Disable, Enable, Rename, EditSave,
       SyncStart, VerifyRead, EditRead, Refuse
  <2>2. entered[a] + 1 \in Nat
    BY DEF TypeOK
  <2>3. row \in Row
    BY <1>1, <2>1, <2>2, RowUpdates DEF AccountStatus
  <2>4. row.cursor = job[q][a].row.cursor
    BY <1>1, <2>1 DEF Reentered, Row
  <2>5. QED BY <1>1, <1>2, <1>5, <2>1, <2>3, <2>4, SaveCovered
<1>8. QED BY <1>6, <1>7

LEMMA CoveredNext ==
  ASSUME "dberror" \notin Allowed, TypeOK, TableCovered, JobsCovered, [Next]_vars
  PROVE  TableCovered' /\ JobsCovered'
<1>1. \A a \in Account : accounts[a] \in Row
  BY DEF TypeOK
<1>2. ASSUME UNCHANGED <<job, matched>> PROVE JobsCovered'
  BY <1>2 DEF JobsCovered, Covered, Recordable, WatchersOf
<1>3. ASSUME matched' = matched,
             \A a \in Account : accounts'[a].cursor \in {accounts[a].cursor, 0}
      PROVE  TableCovered'
  BY <1>3, NoneRecordable DEF TableCovered, Covered, Recordable, WatchersOf
<1>4. ASSUME NEW p \in Poller, PollClaim(p) PROVE TableCovered' /\ JobsCovered'
  <2>1. PICK S \in SUBSET DueNow :
          /\ job' = HandOut(p, S, "claimed")
          /\ accounts' = [a \in Account |->
                       IF a \in S THEN [accounts[a] EXCEPT !.due = FALSE] ELSE accounts[a]]
    BY <1>4 DEF PollClaim
  <2>2. S \in SUBSET Account /\ p \in Proc /\ "claimed" \in Phase /\ matched' = matched
    BY <1>4, ProcParts DEF DueNow, Phase, PollClaim, pipeline
  <2>3. \A a \in Account : accounts'[a].cursor = accounts[a].cursor
    BY <1>1, <2>1 DEF Row
  <2>4. QED BY <1>3, <2>1, <2>2, <2>3, CoveredHandOut
<1>5. ASSUME NEW c \in Checker, CheckClaim(c) PROVE TableCovered' /\ JobsCovered'
  <2>1. PICK S \in SUBSET Stale :
          /\ job' = HandOut(c, S, "checking")
          /\ accounts' = [a \in Account |->
                       IF a \in S THEN [accounts[a] EXCEPT !.fresh = TRUE] ELSE accounts[a]]
    BY <1>5 DEF CheckClaim
  <2>2. S \in SUBSET Account /\ c \in Proc /\ "checking" \in Phase /\ matched' = matched
    BY <1>5, ProcParts DEF Stale, Phase, CheckClaim, pipeline
  <2>3. \A a \in Account : accounts'[a].cursor = accounts[a].cursor
    BY <1>1, <2>1 DEF Row
  <2>4. QED BY <1>3, <2>1, <2>2, <2>3, CoveredHandOut
<1>6. ASSUME NEW p \in Proc, Crash(p) PROVE TableCovered' /\ JobsCovered'
  <2>1. \A q \in Proc, b \in Account :
          job'[q][b] = IF q = p THEN NoJob ELSE job[q][b]
    BY <1>6 DEF Crash, TypeOK
  <2>2. UNCHANGED <<accounts, matched>>
    BY <1>6 DEF Crash
  <2>3. \A q \in Proc, b \in Account : Covered(b, job'[q][b].row.cursor)
    BY <2>1, HoldingCovered DEF JobsCovered
  <2>4. \A q \in Proc, b \in Account :
          Recordable(b, job'[q][b].top) \subseteq matched \cup job'[q][b].work
    BY <2>1, HoldingCovered DEF JobsCovered
  <2>5. JobsCovered'
    BY <2>2, <2>3, <2>4 DEF JobsCovered, Covered, Recordable, WatchersOf
  <2>6. QED BY <1>3, <2>2, <2>5
<1>7. ASSUME NEW a \in Account, Create(a) PROVE TableCovered' /\ JobsCovered'
  <2>1. accounts' = SaveRow(a, NewRow(1)) /\ UNCHANGED <<job, matched>>
    BY <1>7 DEF Create, pipeline
  <2>2. NewRow(1) \in Row /\ NewRow(1).cursor = 0
    BY ConstantTypes DEF NewRow
  <2>3. Covered(a, 0)
    BY NoneRecordable DEF Covered
  <2>4. QED BY <1>2, <2>1, <2>2, <2>3, SaveCovered
<1>8. ASSUME NEW a \in Account, Delete(a) PROVE TableCovered' /\ JobsCovered'
  <2>1. accounts' = [accounts EXCEPT ![a] = NoRow] /\ UNCHANGED <<job, matched>>
    BY <1>8 DEF Delete
  <2>2. \A b \in Account : accounts'[b].cursor \in {accounts[b].cursor, 0}
    BY <2>1 DEF NoRow, TypeOK
  <2>3. QED BY <1>2, <1>3, <2>1, <2>2
<1>9. ASSUME NEW a \in Account, Arrive(a) PROVE TableCovered' /\ JobsCovered'
  BY <1>2, <1>3, <1>9 DEF Arrive
<1>10. ASSUME NEW a \in Account, IntervalPasses(a) \/ Expire(a)
       PROVE  TableCovered' /\ JobsCovered'
  <2>1. matched' = matched
    BY <1>10 DEF IntervalPasses, Expire, pipeline
  <2>2. \A b \in Account : accounts'[b].cursor = accounts[b].cursor
    <3>1. \/ accounts' = [accounts EXCEPT ![a].due = TRUE]
          \/ accounts' = [accounts EXCEPT ![a].fresh = FALSE]
      BY <1>10 DEF IntervalPasses, Expire
    <3>2. CASE accounts' = [accounts EXCEPT ![a].due = TRUE]
      BY <1>1, <3>2 DEF TypeOK, Row
    <3>3. CASE accounts' = [accounts EXCEPT ![a].fresh = FALSE]
      BY <1>1, <3>3 DEF TypeOK, Row
    <3>4. QED BY <3>1, <3>2, <3>3
  <2>3. \A p \in Proc, b \in Account : /\ job'[p][b].row.cursor = job[p][b].row.cursor
                                       /\ job'[p][b].top = job[p][b].top
                                       /\ job'[p][b].work = job[p][b].work
    <3>1. \A j \in Job : /\ [j EXCEPT !.row.due = TRUE].row.cursor = j.row.cursor
                         /\ [j EXCEPT !.row.fresh = FALSE].row.cursor = j.row.cursor
      BY DEF Job, Row
    <3>2. \A j \in Job : /\ [j EXCEPT !.row.due = TRUE].top = j.top
                         /\ [j EXCEPT !.row.fresh = FALSE].top = j.top
                         /\ [j EXCEPT !.row.due = TRUE].work = j.work
                         /\ [j EXCEPT !.row.fresh = FALSE].work = j.work
      BY DEF Job
    <3>3. \A p \in Proc, b \in Account : job[p][b] \in Job
      BY DEF TypeOK
    <3>4. QED BY <1>10, <3>1, <3>2, <3>3, AgedJobs
  <2>4. JobsCovered'
    BY <2>1, <2>3 DEF JobsCovered, Covered, Recordable, WatchersOf
  <2>5. QED BY <1>3, <2>1, <2>2, <2>4
<1>11. CASE UNCHANGED vars
  BY <1>2, <1>3, <1>11 DEF vars
<1>12. \A p \in Proc, a \in Account : ~DBError(p, a)
  BY DEF DBError
<1>13. QED
  BY <1>4, <1>5, <1>6, <1>7, <1>8, <1>9, <1>10, <1>11, <1>12,
     CoveredSync, CoveredCheck, CoveredRequest DEF Next

\* Where no statement of evaluate fails, no cursor passes a message whose
\* matches were not recorded, however stale the copies that are saved
\* (SyncAccount, evaluate).
THEOREM CursorSkipsNothing ==
  ASSUME "dberror" \notin Allowed
  PROVE  Spec => []NothingSkipped
<1>1. Init => TableCovered /\ JobsCovered
  BY HoldingCovered DEF Init, TableCovered, JobsCovered
<1>2. TypeOK /\ TableCovered /\ JobsCovered /\ [Next]_vars => TableCovered' /\ JobsCovered'
  BY CoveredNext
<1>3. QED BY <1>1, <1>2, InitType, NextType, SkippedParts, PTL DEF Spec
-----------------------------------------------------------------------------
(* VerifiedWasChecked, where no request sets the status itself.  Inductive  *)
(* as it stands: status and credentials are saved together, from one copy.  *)

Accepted(a, row) == row.status = "verified" => <<a, row.creds>> \in checked

TableAccepted == \A a \in Account : Accepted(a, accounts[a])

JobsAccepted == \A p \in Proc, a \in Account : Accepted(a, job[p][a].row)

LEMMA VerifiedParts == VerifiedWasChecked <=> TableAccepted /\ JobsAccepted
BY DEF VerifiedWasChecked, TableAccepted, JobsAccepted, Accepted

LEMMA NotVerified ==
  ASSUME NEW a \in Account, NEW row, row.status # "verified" PROVE Accepted(a, row)
BY DEF Accepted

LEMMA SaveAccepted ==
  ASSUME TypeOK, TableAccepted, NEW a \in Account, NEW row \in Row,
         accounts' = SaveRow(a, row), checked \subseteq checked',
         row.status = "verified" => <<a, row.creds>> \in checked'
  PROVE  TableAccepted'
<1>1. \A b \in Account : accounts'[b] = IF b = a THEN row ELSE accounts[b]
  BY SaveType DEF TypeOK
<1>2. QED BY <1>1 DEF TableAccepted, Accepted

LEMMA PutAccepted ==
  ASSUME TypeOK, JobsAccepted, NEW p \in Proc, NEW a \in Account, NEW j \in Job,
         job' = Put(p, a, j), checked \subseteq checked', Accepted(a, j.row)
  PROVE  JobsAccepted'
<1>1. \A q \in Proc, b \in Account :
        job'[q][b] = IF q = p /\ b = a THEN j ELSE job[q][b]
  BY PutType DEF TypeOK
<1>2. \A q \in Proc, b \in Account : Accepted(b, job'[q][b].row)
  BY <1>1 DEF JobsAccepted
<1>3. QED BY <1>2 DEF JobsAccepted, Accepted

LEMMA NoRowAccepted ==
  \A a \in Account : Accepted(a, NoRow) /\ Accepted(a, NoJob.row)
BY NoJobFields DEF NoRow, Accepted

LEMMA AcceptedHandOut ==
  ASSUME TypeOK, TableAccepted, JobsAccepted, NEW p \in Proc, NEW S \in SUBSET Account,
         NEW pc \in Phase, job' = HandOut(p, S, pc), checked' = checked
  PROVE  JobsAccepted'
<1>1. \A q \in Proc, b \in Account :
        job'[q][b] = IF q # p THEN job[q][b]
                     ELSE IF b \in S THEN Holding(pc, accounts[b]) ELSE NoJob
  <2>1. job \in [Proc -> [Account -> Job]]
    BY DEF TypeOK
  <2>2. QED BY <2>1 DEF HandOut
<1>2. \A b \in Account : Holding(pc, accounts[b]).row = accounts[b]
  BY HoldingFields DEF TypeOK
<1>3. \A q \in Proc, b \in Account : Accepted(b, job'[q][b].row)
  BY <1>1, <1>2, NoRowAccepted DEF JobsAccepted, TableAccepted
<1>4. QED BY <1>3 DEF JobsAccepted, Accepted

LEMMA AcceptedSync ==
  ASSUME TypeOK, TableAccepted, JobsAccepted, NEW p \in Proc, NEW a \in Account,
         SyncStep(p, a)
  PROVE  TableAccepted' /\ JobsAccepted'
<1> DEFINE j == job[p][a]
<1>1. j \in Job /\ j.row \in Row /\ Accepted(a, j.row)
  BY DEF TypeOK, Job, JobsAccepted
<1>2. checked' = checked
  BY DEF SyncStep, OpenSync, Abandon, FetchFails, RecordFailure, Fetch, Evaluate,
     ScheduleEvents, StoreCursor, Close, history
<1>3. TableAccepted'
  <2>1. CASE RecordFailure(p, a)
    BY <1>1, <1>2, <2>1, SaveAccepted DEF RecordFailure, Accepted
  <2>2. CASE StoreCursor(p, a)
    <3>1. Synced(a, j) \in Row
      BY <1>1, RowUpdates DEF Synced, Job
    <3>2. Synced(a, j).status = j.row.status /\ Synced(a, j).creds = j.row.creds
      BY <1>1 DEF Synced, Row
    <3>3. accounts' = SaveRow(a, Synced(a, j))
      BY <2>2 DEF StoreCursor
    <3>4. QED BY <1>1, <1>2, <3>1, <3>2, <3>3, SaveAccepted DEF Accepted
  <2>3. CASE ~RecordFailure(p, a) /\ ~StoreCursor(p, a)
    <3>1. accounts' = accounts
      BY <2>3 DEF SyncStep, OpenSync, Abandon, FetchFails, Fetch, Evaluate,
         ScheduleEvents, Close
    <3>2. QED BY <1>2, <3>1 DEF TableAccepted, Accepted
  <2>4. QED BY <2>1, <2>2, <2>3
<1>4. ASSUME NEW k \in Job, job' = Put(p, a, k), Accepted(a, k.row)
      PROVE  JobsAccepted'
  BY <1>2, <1>4, PutAccepted
<1>5. ASSUME job' = Put(p, a, NoJob) PROVE JobsAccepted'
  BY <1>2, <1>5, PutAccepted, NoRowAccepted, ConstantTypes
<1>6. ASSUME NEW k \in Job, job' = Put(p, a, k), k.row = j.row PROVE JobsAccepted'
  BY <1>1, <1>4, <1>6
<1>7. CASE Abandon(p, a) \/ RecordFailure(p, a) \/ Close(p, a)
  BY <1>3, <1>5, <1>7 DEF Abandon, RecordFailure, Close
<1>8. CASE OpenSync(p, a)
  <2> DEFINE k == [j EXCEPT !.pc = "fetching"]
  <2>1. k \in Job
    BY <1>1, JobUpdates DEF Phase
  <2>2. k.row = j.row
    BY <1>1 DEF Job
  <2>3. job' = Put(p, a, k) \/ job' = Put(p, a, NoJob)
    BY <1>8 DEF OpenSync
  <2> HIDE DEF k
  <2>4. QED BY <1>3, <1>5, <1>6, <2>1, <2>2, <2>3
<1>9. CASE FetchFails(p, a)
  <2> DEFINE k == [j EXCEPT !.pc = "failing", !.row.status = "error"]
  <2>1. k \in Job
    BY <1>1 DEF Job, Row, AccountStatus, Phase
  <2>2. k.row.status = "error"
    BY <1>1 DEF Job, Row
  <2>3. job' = Put(p, a, k)
    BY <1>9 DEF FetchFails
  <2> HIDE DEF k
  <2>4. QED BY <1>3, <1>4, <2>1, <2>2, <2>3, NotVerified
<1>10. CASE Fetch(p, a)
  <2> DEFINE work == WatchersOf(a) \X (j.row.cursor + 1 .. arrived[a])
             k == [j EXCEPT !.pc = "evaluating", !.top = arrived[a], !.work = work]
  <2>1. arrived[a] \in 0..MaxMessage /\ MaxMessage \in Nat /\ j.row.cursor \in Nat
    BY <1>1, AccountAssumption DEF TypeOK, Row
  <2>2. work \in SUBSET Match /\ arrived[a] \in Nat
    BY <2>1 DEF WatchersOf, Match
  <2>3. job' = Put(p, a, k)
    BY <1>10 DEF Fetch
  <2> HIDE DEF work
  <2>4. k \in Job
    BY <1>1, <2>2, JobUpdates
  <2>5. k.row = j.row
    BY <1>1 DEF Job
  <2> HIDE DEF k
  <2>6. QED BY <1>3, <1>6, <2>3, <2>4, <2>5
<1>11. CASE Evaluate(p, a)
  <2>1. PICK x \in j.work : \/ job' = Put(p, a, Recorded(j, x))
                            \/ job' = Put(p, a, [j EXCEPT !.work = j.work \ {x}])
    BY <1>11 DEF Evaluate
  <2> DEFINE k == [j EXCEPT !.work = j.work \ {x}]
  <2>2. Recorded(j, x) \in Job /\ Recorded(j, x).row = j.row
    BY <1>1, JobUpdates DEF Recorded, Job
  <2>3. k \in Job /\ k.row = j.row
    BY <1>1, JobUpdates DEF Job
  <2>4. job' = Put(p, a, Recorded(j, x)) \/ job' = Put(p, a, k)
    BY <2>1
  <2> HIDE DEF k
  <2>5. QED BY <1>3, <1>6, <2>2, <2>3, <2>4
<1>12. CASE ScheduleEvents(p, a)
  <2> DEFINE k == [j EXCEPT !.pc = "evaluating", !.hit = {}]
  <2>1. k \in Job
    BY <1>1, JobUpdates
  <2>2. k.row = j.row
    BY <1>1 DEF Job
  <2>3. job' = Put(p, a, k)
    BY <1>12 DEF ScheduleEvents
  <2> HIDE DEF k
  <2>4. QED BY <1>3, <1>6, <2>1, <2>2, <2>3
<1>13. CASE StoreCursor(p, a)
  <2>1. job' = Put(p, a, Holding("closing", NoRow))
    BY <1>13 DEF StoreCursor
  <2>2. "closing" \in Phase /\ NoRow \in Row
    BY ConstantTypes DEF Phase
  <2>3. Holding("closing", NoRow) \in Job /\ Holding("closing", NoRow).row = NoRow
    BY <2>2, ConstantTypes, HoldingFields
  <2>4. QED BY <1>3, <1>4, <2>1, <2>3, NoRowAccepted
<1>14. QED
  BY <1>3, <1>7, <1>8, <1>9, <1>10, <1>11, <1>12, <1>13 DEF SyncStep

LEMMA AcceptedCheck ==
  ASSUME TypeOK, TableAccepted, JobsAccepted, NEW p \in Proc, NEW a \in Account,
         CheckStep(p, a)
  PROVE  TableAccepted' /\ JobsAccepted'
<1> DEFINE row == job[p][a].row
<1>1. row \in Row
  BY DEF TypeOK, Job
<1>2. job' = Put(p, a, NoJob) /\ checked \subseteq checked'
  BY DEF CheckStep, CheckPass, CheckFail, history
<1>3. JobsAccepted'
  BY <1>2, PutAccepted, NoRowAccepted, ConstantTypes
<1>4. CASE CheckPass(p, a)
  <2> DEFINE passed == [row EXCEPT !.status = "verified", !.fresh = TRUE]
  <2>1. passed \in Row
    BY <1>1, RowUpdates
  <2>2. passed.creds = row.creds
    BY <1>1 DEF Row
  <2>3. accounts' = SaveRow(a, passed) /\ checked' = checked \cup {<<a, row.creds>>}
    BY <1>4 DEF CheckPass
  <2> HIDE DEF passed
  <2>4. QED BY <1>2, <1>3, <2>1, <2>2, <2>3, SaveAccepted
<1>5. CASE CheckFail(p, a)
  <2> DEFINE failed == [row EXCEPT !.status = "error"]
  <2>1. failed \in Row
    BY <1>1, RowUpdates DEF AccountStatus
  <2>2. failed.status = "error"
    BY <1>1 DEF Row
  <2>3. accounts' = SaveRow(a, failed)
    BY <1>5 DEF CheckFail
  <2> HIDE DEF failed
  <2>4. QED BY <1>2, <1>3, <2>1, <2>2, <2>3, SaveAccepted
<1>6. QED BY <1>4, <1>5 DEF CheckStep

LEMMA AcceptedRequest ==
  ASSUME "enable" \notin Allowed, TypeOK, TableAccepted, JobsAccepted,
         NEW q \in Request, NEW a \in Account, RequestStep(q, a)
  PROVE  TableAccepted' /\ JobsAccepted'
<1>1. /\ q \in Proc /\ accounts[a] \in Row /\ Accepted(a, accounts[a])
      /\ job[q][a].row \in Row /\ Accepted(a, job[q][a].row)
  BY ProcParts DEF TypeOK, Job, JobsAccepted, TableAccepted
<1>2. checked' = checked /\ ~Enable(q, a)
  BY DEF RequestStep, EnterCredentials, Disable, Enable, Rename, EditSave,
     SyncStart, VerifyRead, EditRead, Refuse, history
<1>3. \/ job' = Put(q, a, Holding("claimed", accounts[a]))
      \/ job' = Put(q, a, Holding("checking", accounts[a]))
      \/ job' = Put(q, a, Holding("editing", accounts[a]))
      \/ job' = Put(q, a, NoJob)
  BY DEF RequestStep, EnterCredentials, Disable, Enable, Rename, EditSave,
     SyncStart, VerifyRead, EditRead, Refuse
<1>4. /\ "claimed" \in Phase /\ "checking" \in Phase /\ "editing" \in Phase
      /\ \A pc \in Phase : /\ Holding(pc, accounts[a]) \in Job
                           /\ Holding(pc, accounts[a]).row = accounts[a]
  BY <1>1, ConstantTypes, HoldingFields DEF Phase
<1>5. JobsAccepted'
  BY <1>1, <1>2, <1>3, <1>4, PutAccepted, NoRowAccepted, ConstantTypes
<1>6. CASE accounts' = accounts
  BY <1>2, <1>5, <1>6 DEF TableAccepted, Accepted
<1>7. CASE accounts' # accounts
  <2>1. PICK row : /\ accounts' = SaveRow(a, row)
                   /\ \/ row = Reentered(job[q][a].row, entered[a] + 1)
                      \/ row = [job[q][a].row EXCEPT !.status = "disabled"]
                      \/ row = job[q][a].row
    BY <1>2, <1>7 DEF RequestStep, EnterCredentials, Disable, Rename, EditSave,
       SyncStart, VerifyRead, EditRead, Refuse
  <2>2. entered[a] + 1 \in Nat
    BY DEF TypeOK
  <2>3. row \in Row
    BY <1>1, <2>1, <2>2, RowUpdates DEF AccountStatus
  <2>4. row = job[q][a].row \/ row.status # "verified"
    BY <1>1, <2>1 DEF Reentered, Row
  <2>5. QED BY <1>1, <1>2, <1>5, <2>1, <2>3, <2>4, SaveAccepted DEF Accepted
<1>8. QED BY <1>6, <1>7

LEMMA AcceptedNext ==
  ASSUME "enable" \notin Allowed, TypeOK, TableAccepted, JobsAccepted, [Next]_vars
  PROVE  TableAccepted' /\ JobsAccepted'
<1>1. \A a \in Account : accounts[a] \in Row
  BY DEF TypeOK
<1>2. ASSUME UNCHANGED <<job, checked>> PROVE JobsAccepted'
  BY <1>2 DEF JobsAccepted, Accepted
<1>3. ASSUME checked' = checked,
             \A a \in Account : \/ accounts'[a].status # "verified"
                                \/ /\ accounts'[a].status = accounts[a].status
                                   /\ accounts'[a].creds = accounts[a].creds
      PROVE  TableAccepted'
  BY <1>3 DEF TableAccepted, Accepted
<1>4. ASSUME NEW p \in Poller, PollClaim(p) PROVE TableAccepted' /\ JobsAccepted'
  <2>1. PICK S \in SUBSET DueNow :
          /\ job' = HandOut(p, S, "claimed")
          /\ accounts' = [a \in Account |->
                       IF a \in S THEN [accounts[a] EXCEPT !.due = FALSE] ELSE accounts[a]]
    BY <1>4 DEF PollClaim
  <2>2. S \in SUBSET Account /\ p \in Proc /\ "claimed" \in Phase /\ checked' = checked
    BY <1>4, ProcParts DEF DueNow, Phase, PollClaim, history
  <2>3. \A a \in Account : /\ accounts'[a].status = accounts[a].status
                           /\ accounts'[a].creds = accounts[a].creds
    BY <1>1, <2>1 DEF Row
  <2>4. QED BY <1>3, <2>1, <2>2, <2>3, AcceptedHandOut
<1>5. ASSUME NEW c \in Checker, CheckClaim(c) PROVE TableAccepted' /\ JobsAccepted'
  <2>1. PICK S \in SUBSET Stale :
          /\ job' = HandOut(c, S, "checking")
          /\ accounts' = [a \in Account |->
                       IF a \in S THEN [accounts[a] EXCEPT !.fresh = TRUE] ELSE accounts[a]]
    BY <1>5 DEF CheckClaim
  <2>2. S \in SUBSET Account /\ c \in Proc /\ "checking" \in Phase /\ checked' = checked
    BY <1>5, ProcParts DEF Stale, Phase, CheckClaim, history
  <2>3. \A a \in Account : /\ accounts'[a].status = accounts[a].status
                           /\ accounts'[a].creds = accounts[a].creds
    BY <1>1, <2>1 DEF Row
  <2>4. QED BY <1>3, <2>1, <2>2, <2>3, AcceptedHandOut
<1>6. ASSUME NEW p \in Proc, Crash(p) PROVE TableAccepted' /\ JobsAccepted'
  <2>1. \A q \in Proc, b \in Account :
          job'[q][b] = IF q = p THEN NoJob ELSE job[q][b]
    BY <1>6 DEF Crash, TypeOK
  <2>2. accounts' = accounts /\ checked' = checked
    BY <1>6 DEF Crash, history
  <2>3. \A q \in Proc, b \in Account : Accepted(b, job'[q][b].row)
    BY <2>1, NoRowAccepted DEF JobsAccepted
  <2>4. QED BY <1>3, <2>2, <2>3 DEF JobsAccepted, Accepted
<1>7. ASSUME NEW p \in Proc, NEW a \in Account, DBError(p, a)
      PROVE  TableAccepted' /\ JobsAccepted'
  <2> DEFINE j == job[p][a]
             k == Unwritten(j)
  <2>1. j \in Job /\ k \in Job /\ Accepted(a, j.row)
    BY UnwrittenType DEF TypeOK, JobsAccepted
  <2>2. k.row = j.row \/ k.row = NoRow
    <3>1. Holding("closing", NoRow).row = NoRow /\ NoJob.row = NoRow
      BY ConstantTypes, HoldingFields, NoJobFields DEF Phase
    <3>2. \A w : [j EXCEPT !.work = w].row = j.row
      BY <2>1 DEF Job
    <3>3. [j EXCEPT !.pc = "evaluating", !.hit = {}].row = j.row
      BY <2>1 DEF Job
    <3>4. QED BY <3>1, <3>2, <3>3 DEF Unwritten
  <2>3. job' = Put(p, a, k) /\ accounts' = accounts /\ checked' = checked
    BY <1>7 DEF DBError, history
  <2> HIDE DEF k
  <2>4. QED BY <1>3, <2>1, <2>2, <2>3, PutAccepted, NoRowAccepted
<1>8. ASSUME NEW a \in Account, Create(a) PROVE TableAccepted' /\ JobsAccepted'
  <2>1. accounts' = SaveRow(a, NewRow(1)) /\ UNCHANGED <<job, checked>>
    BY <1>8 DEF Create
  <2>2. NewRow(1) \in Row /\ NewRow(1).status = "pending"
    BY ConstantTypes DEF NewRow
  <2>3. QED BY <1>2, <2>1, <2>2, SaveAccepted
<1>9. ASSUME NEW a \in Account, Delete(a) PROVE TableAccepted' /\ JobsAccepted'
  <2>1. accounts' = [accounts EXCEPT ![a] = NoRow] /\ UNCHANGED <<job, checked>>
    BY <1>9 DEF Delete, history
  <2>2. \A b \in Account : \/ accounts'[b].status # "verified"
                           \/ accounts'[b] = accounts[b]
    BY <2>1 DEF NoRow, TypeOK
  <2>3. QED BY <1>2, <1>3, <2>1, <2>2
<1>10. ASSUME NEW a \in Account, Arrive(a) PROVE TableAccepted' /\ JobsAccepted'
  BY <1>2, <1>3, <1>10 DEF Arrive, history
<1>11. ASSUME NEW a \in Account, IntervalPasses(a) \/ Expire(a)
       PROVE  TableAccepted' /\ JobsAccepted'
  <2>1. checked' = checked
    BY <1>11 DEF IntervalPasses, Expire, history
  <2>2. \A b \in Account : /\ accounts'[b].status = accounts[b].status
                           /\ accounts'[b].creds = accounts[b].creds
    <3>1. CASE accounts' = [accounts EXCEPT ![a].due = TRUE]
      BY <1>1, <3>1 DEF TypeOK, Row
    <3>2. CASE accounts' = [accounts EXCEPT ![a].fresh = FALSE]
      BY <1>1, <3>2 DEF TypeOK, Row
    <3>3. QED BY <1>11, <3>1, <3>2 DEF IntervalPasses, Expire
  <2>3. \A p \in Proc, b \in Account : /\ job'[p][b].row.status = job[p][b].row.status
                                       /\ job'[p][b].row.creds = job[p][b].row.creds
    <3>1. \A j \in Job : /\ [j EXCEPT !.row.due = TRUE].row.status = j.row.status
                         /\ [j EXCEPT !.row.fresh = FALSE].row.status = j.row.status
      BY DEF Job, Row
    <3>2. \A j \in Job : /\ [j EXCEPT !.row.due = TRUE].row.creds = j.row.creds
                         /\ [j EXCEPT !.row.fresh = FALSE].row.creds = j.row.creds
      BY DEF Job, Row
    <3>3. \A p \in Proc, b \in Account : job[p][b] \in Job
      BY DEF TypeOK
    <3>4. QED BY <1>11, <3>1, <3>2, <3>3, AgedJobs
  <2>4. JobsAccepted'
    BY <2>1, <2>3 DEF JobsAccepted, Accepted
  <2>5. QED BY <1>3, <2>1, <2>2, <2>4
<1>12. CASE UNCHANGED vars
  BY <1>2, <1>3, <1>12 DEF vars
<1>13. QED
  BY <1>4, <1>5, <1>6, <1>7, <1>8, <1>9, <1>10, <1>11, <1>12,
     AcceptedSync, AcceptedCheck, AcceptedRequest DEF Next

\* A row or copy that says verified holds credentials the provider accepted, as
\* long as no request sets the status to verified itself (Verify, reverifyOne,
\* Update, connect).
THEOREM VerifiedMeansChecked ==
  ASSUME "enable" \notin Allowed
  PROVE  Spec => []VerifiedWasChecked
<1>1. Init => TableAccepted /\ JobsAccepted
  BY NoRowAccepted DEF Init, TableAccepted, JobsAccepted
<1>2. TypeOK /\ TableAccepted /\ JobsAccepted /\ [Next]_vars
        => TableAccepted' /\ JobsAccepted'
  BY AcceptedNext
<1>3. QED BY <1>1, <1>2, InitType, NextType, VerifiedParts, PTL DEF Spec
-----------------------------------------------------------------------------
(* SyncRunIsOwned is inductive as it stands, under every fault: whoever      *)
(* leaves the phases of a sync closes its run in the same step, or hands it  *)
(* to Nobody.                                                                *)

Syncing == {"fetching", "evaluating", "scheduling", "closing"}

\* Replacing one job, whatever by.
LEMMA PutElsewhere ==
  ASSUME TypeOK, NEW p \in Proc, NEW a \in Account, NEW j, job' = Put(p, a, j)
  PROVE  /\ job'[p][a] = j
         /\ \A q \in Proc, b \in Account : q # p \/ b # a => job'[q][b] = job[q][b]
BY DEF TypeOK, Put

LEMMA OwnedPut ==
  ASSUME TypeOK, SyncRunIsOwned, NEW p \in Proc, NEW a \in Account, NEW j,
         job' = Put(p, a, j),
         \A x \in open' : \/ x[1] = Nobody
                          \/ x \in open /\ x # <<p, a>>
                          \/ x = <<p, a>> /\ j.pc \in Syncing
  PROVE  SyncRunIsOwned'
<1> SUFFICES ASSUME NEW x \in open', x[1] # Nobody
             PROVE  job'[x[1]][x[2]].pc \in Syncing
  BY DEF SyncRunIsOwned, Syncing
<1>1. CASE x = <<p, a>> /\ j.pc \in Syncing
  BY <1>1, PutElsewhere
<1>2. CASE x \in open /\ x # <<p, a>>
  <2>1. x \in (Proc \cup {Nobody}) \X Account
    BY <1>2 DEF TypeOK
  <2>2. x[1] \in Proc /\ x[2] \in Account /\ (x[1] # p \/ x[2] # a)
    BY <1>2, <2>1
  <2>3. job'[x[1]][x[2]] = job[x[1]][x[2]]
    BY <2>2, PutElsewhere
  <2>4. job[x[1]][x[2]].pc \in Syncing
    BY <1>2 DEF SyncRunIsOwned, Syncing
  <2>5. QED BY <2>3, <2>4
<1>3. QED BY <1>1, <1>2

\* A process that is not syncing an account has no run of it to close.
LEMMA NotSyncing ==
  ASSUME SyncRunIsOwned, NEW p \in Proc, NEW a \in Account, job[p][a].pc \notin Syncing
  PROVE  <<p, a>> \notin open
<1>1. p # Nobody
  BY AccountAssumption DEF Proc
<1>2. QED BY <1>1 DEF SyncRunIsOwned, Syncing

\* A step of a process without a run of the account leaves the others' alone.
LEMMA OwnedApart ==
  ASSUME TypeOK, SyncRunIsOwned, NEW p \in Proc, NEW a \in Account, NEW j,
         job[p][a].pc \notin Syncing, job' = Put(p, a, j), open' = open
  PROVE  SyncRunIsOwned'
BY NotSyncing, OwnedPut

\* finish, whether or not its write succeeds.
LEMMA OwnedFinish ==
  ASSUME TypeOK, SyncRunIsOwned, NEW p \in Proc, NEW a \in Account, NEW pc, NEW j,
         job' = Put(p, a, j), open' \in Finished(p, a, pc)
  PROVE  SyncRunIsOwned'
<1>1. \A x \in open' : x[1] = Nobody \/ (x \in open /\ x # <<p, a>>)
  BY DEF Finished, Closed, Orphaned
<1>2. QED BY <1>1, OwnedPut

LEMMA OwnedSync ==
  ASSUME TypeOK, SyncRunIsOwned, NEW p \in Proc, NEW a \in Account, SyncStep(p, a)
  PROVE  SyncRunIsOwned'
<1> DEFINE j == job[p][a]
<1>1. j \in Job
  BY DEF TypeOK
<1>2. CASE OpenSync(p, a)
  <2>1. j.pc \notin Syncing
    BY <1>2 DEF OpenSync, At, Syncing
  <2>2. CASE Present(a)
    <3>1. job' = Put(p, a, [j EXCEPT !.pc = "fetching"]) /\ open' = open \cup {<<p, a>>}
      BY <1>2, <2>2 DEF OpenSync
    <3>2. [j EXCEPT !.pc = "fetching"].pc \in Syncing
      BY <1>1 DEF Job, Syncing
    <3>3. QED BY <2>1, <3>1, <3>2, NotSyncing, OwnedPut
  <2>3. CASE ~Present(a)
    BY <1>2, <2>1, <2>3, OwnedApart DEF OpenSync
  <2>4. QED BY <2>2, <2>3
<1>3. CASE Abandon(p, a) \/ Close(p, a)
  BY <1>3, OwnedFinish DEF Abandon, Close
<1>4. CASE FetchFails(p, a)
  BY <1>4, OwnedFinish DEF FetchFails
<1>5. CASE RecordFailure(p, a)
  BY <1>5, OwnedApart DEF RecordFailure, At, Syncing, pipeline
<1>6. ASSUME NEW k, job' = Put(p, a, k), k.pc \in Syncing, open' = open
      PROVE  SyncRunIsOwned'
  BY <1>6, OwnedPut
<1>7. CASE Fetch(p, a)
  <2>1. PICK top, work : /\ job' = Put(p, a, [j EXCEPT !.pc = "evaluating", !.top = top, !.work = work])
                         /\ open' = open
    BY <1>7 DEF Fetch, pipeline
  <2>2. [j EXCEPT !.pc = "evaluating", !.top = top, !.work = work].pc \in Syncing
    BY <1>1 DEF Job, Syncing
  <2>3. QED BY <1>6, <2>1, <2>2
<1>8. CASE Evaluate(p, a)
  <2>1. PICK x : \/ job' = Put(p, a, Recorded(j, x))
                 \/ job' = Put(p, a, [j EXCEPT !.work = j.work \ {x}])
    BY <1>8 DEF Evaluate
  <2>2. j.pc = "evaluating" /\ open' = open
    BY <1>8 DEF Evaluate, At
  <2>3. Recorded(j, x).pc \in Syncing
    BY <1>1 DEF Recorded, Job, Syncing
  <2>4. [j EXCEPT !.work = j.work \ {x}].pc \in Syncing
    BY <1>1, <2>2 DEF Job, Syncing
  <2>5. QED BY <1>6, <2>1, <2>2, <2>3, <2>4
<1>9. CASE ScheduleEvents(p, a)
  <2>1. [j EXCEPT !.pc = "evaluating", !.hit = {}].pc \in Syncing
    BY <1>1 DEF Job, Syncing
  <2>2. QED BY <1>6, <1>9, <2>1 DEF ScheduleEvents
<1>10. CASE StoreCursor(p, a)
  <2>1. Holding("closing", NoRow).pc \in Syncing
    BY ConstantTypes, HoldingFields DEF Phase, Syncing
  <2>2. QED BY <1>6, <1>10, <2>1 DEF StoreCursor, pipeline
<1>11. QED
  BY <1>2, <1>3, <1>4, <1>5, <1>7, <1>8, <1>9, <1>10 DEF SyncStep

LEMMA OwnedRequest ==
  ASSUME TypeOK, SyncRunIsOwned, NEW q \in Request, NEW a \in Account, RequestStep(q, a)
  PROVE  SyncRunIsOwned'
<1>1. q \in Proc
  BY ProcParts
<1>2. open' = open
  BY DEF RequestStep, EnterCredentials, Disable, Enable, Rename, EditSave,
     SyncStart, VerifyRead, EditRead, Refuse, pipeline
<1>3. \E j : job' = Put(q, a, j)
  BY DEF RequestStep, EnterCredentials, Disable, Enable, Rename, EditSave,
     SyncStart, VerifyRead, EditRead, Refuse
<1>4. job[q][a].pc \in {"idle", "checking", "editing"}
  BY NoJobFields DEF RequestStep, EnterCredentials, Disable, Enable, Rename, EditSave, At,
     SyncStart, VerifyRead, EditRead, Refuse, Idle
<1>5. job[q][a].pc \notin Syncing
  BY <1>4 DEF Syncing
<1>6. QED BY <1>1, <1>2, <1>3, <1>5, OwnedApart

LEMMA OwnedHandOut ==
  ASSUME TypeOK, SyncRunIsOwned, NEW p \in Proc, Idle(p), NEW S, NEW pc,
         job' = HandOut(p, S, pc), open' = open
  PROVE  SyncRunIsOwned'
<1>1. \A b \in Account : <<p, b>> \notin open
  BY NotSyncing, NoJobFields DEF Idle, Syncing
<1>2. \A q \in Proc : q # p => job'[q] = job[q]
  BY DEF HandOut, TypeOK
<1>3. \A x \in open : x \in (Proc \cup {Nobody}) \X Account
  BY DEF TypeOK
<1>4. \A x \in open : x[1] = Nobody \/ (x[1] \in Proc /\ x[1] # p)
  BY <1>1, <1>3
<1>5. QED BY <1>2, <1>4 DEF SyncRunIsOwned

LEMMA OwnedNext == TypeOK /\ SyncRunIsOwned /\ [Next]_vars => SyncRunIsOwned'
<1> SUFFICES ASSUME TypeOK, SyncRunIsOwned, [Next]_vars PROVE SyncRunIsOwned'
  OBVIOUS
<1>1. ASSUME NEW p \in Poller, PollClaim(p) PROVE SyncRunIsOwned'
  <2>1. p \in Proc /\ Idle(p) /\ open' = open /\ \E S : job' = HandOut(p, S, "claimed")
    BY <1>1, ProcParts DEF PollClaim, pipeline
  <2>2. QED BY <2>1, OwnedHandOut
<1>2. ASSUME NEW c \in Checker, CheckClaim(c) PROVE SyncRunIsOwned'
  <2>1. c \in Proc /\ Idle(c) /\ open' = open /\ \E S : job' = HandOut(c, S, "checking")
    BY <1>2, ProcParts DEF CheckClaim, pipeline
  <2>2. QED BY <2>1, OwnedHandOut
<1>3. ASSUME NEW p \in Proc, Crash(p) PROVE SyncRunIsOwned'
  <2>1. \A q \in Proc : q # p => job'[q] = job[q]
    BY <1>3 DEF Crash, TypeOK
  <2>2. \A x \in open' : x[1] = Nobody \/ (x \in open /\ x \notin {p} \X Account)
    BY <1>3 DEF Crash, Orphaned
  <2>3. \A x \in open : x \in (Proc \cup {Nobody}) \X Account
    BY DEF TypeOK
  <2>4. \A x \in open' : x[1] = Nobody \/ (x \in open /\ x[1] \in Proc /\ x[1] # p)
    BY <2>2, <2>3
  <2>5. QED BY <2>1, <2>4 DEF SyncRunIsOwned
<1>4. ASSUME NEW p \in Proc, NEW a \in Account, CheckStep(p, a) PROVE SyncRunIsOwned'
  <2>1. job[p][a].pc \notin Syncing /\ job' = Put(p, a, NoJob) /\ open' = open
    BY <1>4 DEF CheckStep, CheckPass, CheckFail, At, Syncing, pipeline
  <2>2. QED BY <2>1, OwnedApart
<1>5. ASSUME NEW p \in Proc, NEW a \in Account, DBError(p, a) PROVE SyncRunIsOwned'
  <2> DEFINE j == job[p][a]
  <2>1. j \in Job /\ job' = Put(p, a, Unwritten(j)) /\ j.pc # "closing"
    BY <1>5 DEF DBError, TypeOK
  <2>2. CASE j.pc = "fetching"
    BY <1>5, <2>1, <2>2, OwnedFinish DEF DBError, At
  <2>3. CASE j.pc \in {"evaluating", "scheduling"}
    <3>1. open' = open
      BY <1>5, <2>3 DEF DBError, At
    <3>2. Holding("closing", NoRow).pc \in Syncing
      BY ConstantTypes, HoldingFields DEF Phase, Syncing
    <3>3. \A w : [j EXCEPT !.work = w].pc = j.pc
      BY <2>1 DEF Job
    <3>4. [j EXCEPT !.pc = "evaluating", !.hit = {}].pc = "evaluating"
      BY <2>1 DEF Job
    <3>5. Unwritten(j).pc \in Syncing
      BY <2>3, <3>2, <3>3, <3>4 DEF Unwritten, Syncing
    <3>6. QED BY <2>1, <3>1, <3>5, OwnedPut
  <2>4. CASE j.pc \notin {"fetching", "evaluating", "scheduling"}
    <3>1. open' = open /\ j.pc \notin Syncing
      BY <1>5, <2>1, <2>4 DEF DBError, At, Syncing
    <3>2. QED BY <2>1, <3>1, OwnedApart
  <2>5. QED BY <2>2, <2>3, <2>4
<1>6. ASSUME NEW a \in Account, Create(a) \/ Delete(a) \/ Arrive(a) PROVE SyncRunIsOwned'
  <2>1. job' = job /\ open' \subseteq open
    BY <1>6 DEF Create, Delete, Arrive, pipeline
  <2>2. QED BY <2>1 DEF SyncRunIsOwned
<1>7. ASSUME NEW a \in Account, IntervalPasses(a) \/ Expire(a) PROVE SyncRunIsOwned'
  <2>1. open' = open
    BY <1>7 DEF IntervalPasses, Expire, pipeline
  <2>2. \A p \in Proc, b \in Account : job'[p][b].pc = job[p][b].pc
    <3>1. \A j \in Job : /\ [j EXCEPT !.row.due = TRUE].pc = j.pc
                         /\ [j EXCEPT !.row.fresh = FALSE].pc = j.pc
      BY DEF Job
    <3>2. \A p \in Proc, b \in Account : job[p][b] \in Job
      BY DEF TypeOK
    <3>3. QED BY <1>7, <3>1, <3>2, AgedJobs
  <2>3. \A x \in open : x \in (Proc \cup {Nobody}) \X Account
    BY DEF TypeOK
  <2>4. QED BY <2>1, <2>2, <2>3 DEF SyncRunIsOwned
<1>8. CASE UNCHANGED vars
  BY <1>8 DEF vars, SyncRunIsOwned
<1>9. QED
  BY <1>1, <1>2, <1>3, <1>4, <1>5, <1>6, <1>7, <1>8, OwnedSync, OwnedRequest DEF Next

\* finish closes the sync run on every path: one that is still running has its
\* sync behind it or lost its process or its last write, whatever else fails
\* (SyncAccount, finish).
THEOREM OpenRunsHaveASync == Spec => []SyncRunIsOwned
<1>1. Init => SyncRunIsOwned
  BY DEF Init, SyncRunIsOwned
<1>2. QED BY <1>1, InitType, NextType, OwnedNext, PTL DEF Spec
-----------------------------------------------------------------------------
(* MatchIsScheduled, where no process dies and no statement fails.  A sync   *)
(* holds a match only while it is about to schedule its events.              *)

Undisturbed == Allowed \cap {"crash", "dberror"} = {}

HitInv ==
  /\ MatchIsScheduled
  /\ \A p \in Proc, a \in Account : job[p][a].hit # {} => job[p][a].pc = "scheduling"

\* What every step does except the two that record a match and schedule it.
Steady ==
  /\ UNCHANGED <<matched, scheduled>>
  /\ \A p \in Proc, a \in Account : /\ job'[p][a].hit = job[p][a].hit
                                    /\ job[p][a].hit # {} => job'[p][a].pc = job[p][a].pc

LEMMA SteadyKeepsHits == HitInv /\ Steady => HitInv'
BY DEF HitInv, Steady, MatchIsScheduled

\* A step at one job that has nothing in hand, before and after.
LEMMA SteadyPut ==
  ASSUME TypeOK, HitInv, NEW p \in Proc, NEW a \in Account, NEW j, job' = Put(p, a, j),
         job[p][a].pc # "scheduling", j.hit = {}, UNCHANGED <<matched, scheduled>>
  PROVE  Steady
<1>1. job[p][a].hit = {}
  BY DEF HitInv
<1>2. /\ job'[p][a] = j
      /\ \A q \in Proc, b \in Account : q # p \/ b # a => job'[q][b] = job[q][b]
  BY PutElsewhere
<1>3. \A q \in Proc, b \in Account : /\ job'[q][b].hit = job[q][b].hit
                                     /\ job[q][b].hit # {} => job'[q][b].pc = job[q][b].pc
  BY <1>1, <1>2
<1>4. QED BY <1>3 DEF Steady

LEMMA SteadyHandOut ==
  ASSUME TypeOK, NEW p \in Proc, Idle(p), NEW S \in SUBSET Account, NEW pc \in Phase,
         job' = HandOut(p, S, pc), UNCHANGED <<matched, scheduled>>
  PROVE  Steady
<1>1. \A q \in Proc, b \in Account :
        job'[q][b] = IF q # p THEN job[q][b]
                     ELSE IF b \in S THEN Holding(pc, accounts[b]) ELSE NoJob
  BY DEF HandOut, TypeOK
<1>2. \A b \in Account : /\ Holding(pc, accounts[b]).hit = {} /\ NoJob.hit = {}
                         /\ job[p][b].hit = {}
  BY HoldingFields, NoJobFields DEF TypeOK, Idle
<1>3. QED BY <1>1, <1>2 DEF Steady

LEMMA SteadySync ==
  ASSUME TypeOK, HitInv, NEW p \in Proc, NEW a \in Account, SyncStep(p, a),
         ~Evaluate(p, a), ~ScheduleEvents(p, a)
  PROVE  Steady
<1>1. job[p][a].pc # "scheduling"
  BY DEF SyncStep, OpenSync, Abandon, FetchFails, RecordFailure, Fetch, StoreCursor, Close, At
<1>2. Calm
  BY CalmSync
<1>3. job[p][a].hit = {} /\ job'[p][a].hit = {}
  BY <1>1, <1>2 DEF HitInv, Calm
<1>4. \E j : job' = Put(p, a, j)
  BY DEF SyncStep, OpenSync, Abandon, FetchFails, RecordFailure, Fetch, StoreCursor, Close
<1>5. PICK j : job' = Put(p, a, j) /\ j.hit = {}
  BY <1>3, <1>4, PutElsewhere
<1>6. QED BY <1>1, <1>2, <1>5, SteadyPut DEF Calm

LEMMA SteadyRequest ==
  ASSUME TypeOK, HitInv, NEW q \in Request, NEW a \in Account, RequestStep(q, a)
  PROVE  Steady
<1>1. q \in Proc
  BY ProcParts
<1>2. Calm
  BY CalmRequest
<1>3. \E j : job' = Put(q, a, j)
  BY DEF RequestStep, EnterCredentials, Disable, Enable, Rename, EditSave,
     SyncStart, VerifyRead, EditRead, Refuse
<1>4. job[q][a].pc \in {"idle", "checking", "editing"}
  BY NoJobFields DEF RequestStep, EnterCredentials, Disable, Enable, Rename, EditSave, At,
     SyncStart, VerifyRead, EditRead, Refuse, Idle
<1>5. job[q][a].hit = {} /\ job'[q][a].hit = {}
  BY <1>1, <1>2, <1>4 DEF HitInv, Calm
<1>6. PICK j : job' = Put(q, a, j) /\ j.hit = {}
  BY <1>1, <1>3, <1>5, PutElsewhere
<1>7. QED BY <1>1, <1>2, <1>4, <1>6, SteadyPut DEF Calm

LEMMA HitEvaluate ==
  ASSUME TypeOK, HitInv, NEW p \in Proc, NEW a \in Account, Evaluate(p, a)
  PROVE  HitInv'
<1> DEFINE j == job[p][a]
<1>1. PICK x \in j.work :
        IF IsNew(p, x)
        THEN matched' = matched \cup {x} /\ job' = Put(p, a, Recorded(j, x))
        ELSE job' = Put(p, a, [j EXCEPT !.work = j.work \ {x}]) /\ matched' = matched
  BY DEF Evaluate
<1>2. j \in Job /\ j.pc = "evaluating" /\ scheduled' = scheduled
  BY DEF Evaluate, At, TypeOK
<1>3. j.hit = {}
  BY <1>2 DEF HitInv
<1>4. CASE ~IsNew(p, x)
  <2>1. [j EXCEPT !.work = j.work \ {x}].hit = {}
    BY <1>2, <1>3 DEF Job
  <2>2. Steady
    BY <1>1, <1>2, <1>4, <2>1, SteadyPut
  <2>3. QED BY <2>2, SteadyKeepsHits
<1>5. CASE IsNew(p, x)
  <2>1. Recorded(j, x).hit = {x} /\ Recorded(j, x).pc = "scheduling"
    BY <1>2 DEF Recorded, Job
  <2>2. PICK k : job' = Put(p, a, k) /\ k.hit = {x} /\ k.pc = "scheduling"
    BY <1>1, <1>5, <2>1
  <2>3. /\ job'[p][a] = k
        /\ \A q \in Proc, b \in Account : q # p \/ b # a => job'[q][b] = job[q][b]
    BY <2>2, PutElsewhere
  <2>4. \A y \in matched' : scheduled'[y] > 0 \/ \E q \in Proc, b \in Account : y \in job'[q][b].hit
    <3>1. CASE matched' = matched \cup {x}
      <4>1. ASSUME NEW y \in matched, ~(scheduled[y] > 0)
            PROVE  \E q \in Proc, b \in Account : y \in job'[q][b].hit
        <5>1. PICK q \in Proc, b \in Account : y \in job[q][b].hit
          BY <4>1 DEF HitInv, MatchIsScheduled
        <5>2. job'[q][b] = job[q][b]
          BY <1>3, <2>3, <5>1
        <5>3. QED BY <5>1, <5>2
      <4>2. QED BY <1>2, <2>2, <2>3, <3>1, <4>1
    <3>2. QED BY <1>1, <1>5, <3>1
  <2>5. \A q \in Proc, b \in Account : job'[q][b].hit # {} => job'[q][b].pc = "scheduling"
    BY <2>2, <2>3 DEF HitInv
  <2>6. QED BY <2>4, <2>5 DEF HitInv, MatchIsScheduled
<1>6. QED BY <1>4, <1>5

LEMMA HitSchedule ==
  ASSUME TypeOK, HitInv, NEW p \in Proc, NEW a \in Account, ScheduleEvents(p, a)
  PROVE  HitInv'
<1> DEFINE j == job[p][a]
<1>1. j \in Job
  BY DEF TypeOK
<1>2. [j EXCEPT !.pc = "evaluating", !.hit = {}].hit = {}
  BY <1>1 DEF Job
<1>3. PICK k : job' = Put(p, a, k) /\ k.hit = {}
  BY <1>2 DEF ScheduleEvents
<1>4. /\ job'[p][a] = k
      /\ \A q \in Proc, b \in Account : q # p \/ b # a => job'[q][b] = job[q][b]
  BY <1>3, PutElsewhere
<1>5. /\ matched' = matched
      /\ \A x \in Match : scheduled'[x] = IF x \in j.hit THEN scheduled[x] + 1 ELSE scheduled[x]
  BY DEF ScheduleEvents
<1>6. \A x \in Match : scheduled[x] \in Nat
  BY DEF TypeOK
<1>7. \A x \in matched : scheduled'[x] > 0 \/ \E q \in Proc, b \in Account : x \in job'[q][b].hit
  <2> SUFFICES ASSUME NEW x \in matched, ~(scheduled'[x] > 0)
               PROVE  \E q \in Proc, b \in Account : x \in job'[q][b].hit
    OBVIOUS
  <2>1. x \in Match
    BY DEF TypeOK
  <2>2. x \notin j.hit /\ ~(scheduled[x] > 0)
    BY <1>5, <1>6, <2>1
  <2>3. PICK q \in Proc, b \in Account : x \in job[q][b].hit
    BY <2>2 DEF HitInv, MatchIsScheduled
  <2>4. job'[q][b] = job[q][b]
    BY <1>4, <2>2, <2>3
  <2>5. QED BY <2>3, <2>4
<1>8. \A q \in Proc, b \in Account : job'[q][b].hit # {} => job'[q][b].pc = "scheduling"
  BY <1>3, <1>4 DEF HitInv
<1>9. QED BY <1>5, <1>7, <1>8 DEF HitInv, MatchIsScheduled

LEMMA HitNext == Undisturbed /\ TypeOK /\ HitInv /\ [Next]_vars => HitInv'
<1> SUFFICES ASSUME Undisturbed, TypeOK, HitInv, [Next]_vars PROVE HitInv'
  OBVIOUS
<1>1. ASSUME Steady PROVE HitInv'
  BY <1>1, SteadyKeepsHits
<1>2. ASSUME NEW p \in Poller, PollClaim(p) PROVE HitInv'
  <2>1. /\ p \in Proc /\ Idle(p) /\ "claimed" \in Phase
        /\ \E S \in SUBSET DueNow : job' = HandOut(p, S, "claimed")
        /\ UNCHANGED <<matched, scheduled>>
    BY <1>2, ProcParts DEF PollClaim, pipeline, Phase
  <2>2. DueNow \subseteq Account
    BY DEF DueNow
  <2>3. QED BY <1>1, <2>1, <2>2, SteadyHandOut
<1>3. ASSUME NEW c \in Checker, CheckClaim(c) PROVE HitInv'
  <2>1. /\ c \in Proc /\ Idle(c) /\ "checking" \in Phase
        /\ \E S \in SUBSET Stale : job' = HandOut(c, S, "checking")
        /\ UNCHANGED <<matched, scheduled>>
    BY <1>3, ProcParts DEF CheckClaim, pipeline, Phase
  <2>2. Stale \subseteq Account
    BY DEF Stale
  <2>3. QED BY <1>1, <2>1, <2>2, SteadyHandOut
<1>4. ASSUME NEW p \in Proc, NEW a \in Account, SyncStep(p, a) PROVE HitInv'
  BY <1>1, <1>4, HitEvaluate, HitSchedule, SteadySync
<1>5. ASSUME NEW p \in Proc, NEW a \in Account, CheckStep(p, a) PROVE HitInv'
  <2>1. /\ job[p][a].pc # "scheduling" /\ job' = Put(p, a, NoJob)
        /\ UNCHANGED <<matched, scheduled>>
    BY <1>5 DEF CheckStep, CheckPass, CheckFail, At, pipeline
  <2>2. QED BY <1>1, <2>1, NoJobFields, SteadyPut
<1>6. ASSUME NEW a \in Account, Create(a) \/ Delete(a) \/ Arrive(a) PROVE HitInv'
  <2>1. UNCHANGED <<job, matched, scheduled>>
    BY <1>6 DEF Create, Delete, Arrive, pipeline
  <2>2. QED BY <1>1, <2>1 DEF Steady
<1>7. ASSUME NEW a \in Account, IntervalPasses(a) \/ Expire(a) PROVE HitInv'
  <2>1. UNCHANGED <<matched, scheduled>>
    BY <1>7 DEF IntervalPasses, Expire, pipeline
  <2>2. \A p \in Proc, b \in Account : /\ job'[p][b].hit = job[p][b].hit
                                       /\ job'[p][b].pc = job[p][b].pc
    <3>1. \A j \in Job : /\ [j EXCEPT !.row.due = TRUE].hit = j.hit
                         /\ [j EXCEPT !.row.fresh = FALSE].hit = j.hit
                         /\ [j EXCEPT !.row.due = TRUE].pc = j.pc
                         /\ [j EXCEPT !.row.fresh = FALSE].pc = j.pc
      BY DEF Job
    <3>2. \A p \in Proc, b \in Account : job[p][b] \in Job
      BY DEF TypeOK
    <3>3. QED BY <1>7, <3>1, <3>2, AgedJobs
  <2>3. QED BY <1>1, <2>1, <2>2 DEF Steady
<1>8. CASE UNCHANGED vars
  BY <1>1, <1>8 DEF vars, Steady
<1>9. \A p \in Proc : ~Crash(p) /\ \A a \in Account : ~DBError(p, a)
  BY DEF Undisturbed, Crash, DBError
<1>10. QED
  BY <1>2, <1>3, <1>4, <1>5, <1>6, <1>7, <1>8, <1>9, SteadyRequest, <1>1 DEF Next

\* A recorded match has its events scheduled or a sync about to schedule them,
\* as long as no process dies and no statement fails in between: the next sync
\* would skip it as a duplicate (evaluate, CreateIfNew).
THEOREM MatchesAreScheduled ==
  ASSUME Undisturbed
  PROVE  Spec => []MatchIsScheduled
<1>1. Init => HitInv
  BY NoJobFields DEF Init, HitInv, MatchIsScheduled
<1>2. HitInv => MatchIsScheduled
  BY DEF HitInv
<1>3. TypeOK /\ HitInv /\ [Next]_vars => HitInv'
  BY HitNext
<1>4. QED BY <1>1, <1>2, <1>3, InitType, NextType, PTL DEF Spec
=============================================================================
