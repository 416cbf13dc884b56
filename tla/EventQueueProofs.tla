-------------------------- MODULE EventQueueProofs --------------------------
(***************************************************************************)
(* Theorems about EventQueue for every set of matches, events, workers and *)
(* requests and every bound.                                               *)
(***************************************************************************)
EXTENDS EventQueue, TLAPS, FiniteSetTheorems

LEMMA NextOfRun ==
  \A r \in Run : /\ r[1] \in Match /\ r[2] \in Event
                 /\ r[3] \in 1..MaxOccurrence /\ r[3] \in Nat
                 /\ r[4] \in Age /\ r[4] \in Nat
                 /\ NextOf(r)[1] = r[1] /\ NextOf(r)[2] = r[2]
                 /\ NextOf(r)[3] = r[3] + 1 /\ NextOf(r)[4] = revived[r[2]]
BY ConstantsAssumption DEF Run, NextOf, Fresh, Age

LEMMA FreshOfRun ==
  ASSUME TypeOK
  PROVE  \A m \in Match, e \in Event, n \in 1..MaxOccurrence :
           /\ Fresh(m, e, n) \in Run
           /\ Fresh(m, e, n)[1] = m /\ Fresh(m, e, n)[2] = e
           /\ Fresh(m, e, n)[3] = n /\ Fresh(m, e, n)[4] = revived[e]
BY DEF Run, Fresh, TypeOK

\* A run is its key and its age.
LEMMA SameRun ==
  \A r \in Run, s \in Run : SameKey(r, s) /\ r[4] = s[4] => r = s
BY DEF Run, SameKey, SameChain

LEMMA FirstOccurrence == 1 \in 1..MaxOccurrence
BY ConstantsAssumption

\* The rows and jobs the code builds from nothing have their types.
LEMMA ConstantTypes ==
  /\ NoConfig \in EventConfig
  /\ NoRow \in Row /\ TestRow \in Row
  /\ \A max \in Nat : PendingRow(max) \in Row
  /\ NoJob \in Job
BY ConstantsAssumption DEF NoConfig, EventConfig, NoRow, TestRow, PendingRow,
   Row, RowStatus, NoJob, Job, Phase

\* A row stays a row under the updates the code makes.
LEMMA RowUpdates ==
  ASSUME NEW row \in Row
  PROVE  /\ \A s \in RowStatus : [row EXCEPT !.status = s] \in Row
         /\ \A n \in Nat : [row EXCEPT !.attempt = n] \in Row
         /\ \A n \in Nat, s \in RowStatus :
              /\ [row EXCEPT !.attempt = n, !.status = s] \in Row
              /\ [row EXCEPT !.status = s, !.attempt = n] \in Row
         /\ \A b \in BOOLEAN, s \in RowStatus :
              [row EXCEPT !.status = s, !.due = b] \in Row
         /\ \A b \in BOOLEAN : /\ [row EXCEPT !.due = b] \in Row
                               /\ [row EXCEPT !.acked = b] \in Row
BY DEF Row

LEMMA JobUpdates ==
  ASSUME NEW j \in Job
  PROVE  /\ \A pc \in Phase : [j EXCEPT !.pc = pc] \in Job
         /\ \A row \in Row : [j EXCEPT !.row = row] \in Job
         /\ \A pc \in Phase, row \in Row :
              [j EXCEPT !.pc = pc, !.row = row] \in Job
BY DEF Job

LEMMA JobFields ==
  ASSUME NEW j \in Job, NEW pc \in Phase, NEW row \in Row
  PROVE  /\ [j EXCEPT !.pc = pc].pc = pc
         /\ [j EXCEPT !.pc = pc].row = j.row
         /\ [j EXCEPT !.pc = pc, !.row = row].pc = pc
         /\ [j EXCEPT !.pc = pc, !.row = row].row = row
         /\ [j EXCEPT !.pc = pc, !.row = row].ev = j.ev
BY DEF Job

LEMMA AckedFields ==
  ASSUME NEW row \in Row
  PROVE  /\ [row EXCEPT !.acked = TRUE].status = row.status
         /\ [row EXCEPT !.acked = TRUE].attempt = row.attempt
         /\ [row EXCEPT !.acked = TRUE].max = row.max
BY DEF Row

\* Every table the operations produce is again a table of rows.
LEMMA TableTypes ==
  ASSUME runs \in [Run -> Row]
  PROVE  /\ \A r \in Run, row \in Row : Insert(r, row) \in [Run -> Row]
         /\ \A r \in Run, row \in Row : SaveRow(r, row) \in [Run -> Row]
         /\ \A t \in [Run -> Row], r \in Run, n \in Nat :
              CancelPendingAfter(t, r, n) \in [Run -> Row]
BY DEF Insert, SaveRow, CancelPendingAfter, Row, RowStatus

LEMMA JobTypes ==
  /\ \A row \in Row : AfterError(row) \in Row
  /\ \A j \in Job : AfterSave(j) \in Job
<1>1. \A row \in Row : AfterError(row) \in Row
  BY RowUpdates DEF AfterError, RowStatus
<1>2. \A j \in Job : AfterSave(j) \in Job
  BY ConstantTypes, JobUpdates DEF AfterSave, Phase
<1>3. QED BY <1>1, <1>2

\* Replacing what a process holds for one run.
LEMMA PutType ==
  ASSUME job \in [Proc -> [Run -> Job]], NEW p \in Proc, NEW r \in Run,
         NEW j \in Job
  PROVE  /\ Put(p, r, j) \in [Proc -> [Run -> Job]]
         /\ \A q \in Proc, s \in Run :
              Put(p, r, j)[q][s] = IF q = p /\ s = r THEN j ELSE job[q][s]
BY DEF Put

-----------------------------------------------------------------------------
LEMMA InitType == Init => TypeOK
BY ConstantTypes, ConstantsAssumption DEF Init, TypeOK, Age

LEMMA NextType == TypeOK /\ [Next]_vars => TypeOK'
<1> SUFFICES ASSUME TypeOK, [Next]_vars PROVE TypeOK'
  OBVIOUS
<1> USE ConstantsAssumption
<1>1. ASSUME NEW m \in Match, ScheduleEvents(m) PROVE TypeOK'
  BY <1>1 DEF TypeOK, ScheduleEvents, history, events
<1>2. ASSUME NEW m \in Match, PollerCrash(m) PROVE TypeOK'
  BY <1>2 DEF TypeOK, PollerCrash, history, events
<1>3. ASSUME NEW m \in Match, NEW e \in Event, ScheduleEvent(m, e) PROVE TypeOK'
  <2>1. PendingRow(MaxAttempts) \in Row /\ Fresh(m, e, 1) \in Run
    BY ConstantTypes, FreshOfRun, FirstOccurrence
  <2>2. runs' \in [Run -> Row]
    BY <1>3, <2>1, TableTypes DEF TypeOK, ScheduleEvent, events
  <2>3. QED BY <1>3, <2>2 DEF TypeOK, ScheduleEvent, history, events
<1>4. ASSUME NEW w \in Worker, Claim(w) PROVE TypeOK'
  <2>1. PICK R \in SUBSET Due :
          /\ runs' = [r \in Run |-> IF r \in R
                                   THEN [runs[r] EXCEPT !.status = "running"]
                                   ELSE runs[r]]
          /\ job' = [job EXCEPT ![w] =
                       [r \in Run |-> IF r \in R
                                     THEN [NoJob EXCEPT !.pc = "claimed",
                                                        !.row = runs[r]]
                                     ELSE NoJob]]
    BY <1>4 DEF Claim, events
  <2>2. runs' \in [Run -> Row]
    BY <2>1 DEF TypeOK, Row, RowStatus
  <2>3. \A r \in Run : [NoJob EXCEPT !.pc = "claimed", !.row = runs[r]] \in Job
    BY ConstantTypes DEF TypeOK, Job, NoJob, Phase
  <2>4. job' \in [Proc -> [Run -> Job]]
    BY <2>1, <2>3, ConstantTypes DEF TypeOK
  <2>5. QED BY <1>4, <2>2, <2>4 DEF TypeOK, Claim, history, events
<1>5. ASSUME NEW p \in Proc, NEW r \in Run, Begin(p, r) PROVE TypeOK'
  <2>1. job[p][r].row \in Row /\ r[2] \in Event
    BY NextOfRun DEF TypeOK, Job
  <2> DEFINE begun == [job[p][r].row EXCEPT !.attempt = @ + 1, !.status = "running"]
             loaded == [pc |-> "handling", row |-> begun, ev |-> event[r[2]]]
             unloaded == [pc |-> "saving",
                          row |-> [begun EXCEPT !.status = "failed"],
                          ev |-> NoConfig]
  <2>2. begun \in Row
    <3>1. job[p][r].row.attempt + 1 \in Nat /\ "running" \in RowStatus
      BY <2>1 DEF Row, RowStatus
    <3>2. QED BY <2>1, <3>1, RowUpdates
  <2>3. [begun EXCEPT !.status = "failed"] \in Row
    BY <2>2, RowUpdates DEF RowStatus
  <2>4. Live(r[2]) => event[r[2]] \in EventConfig
    BY <2>1 DEF TypeOK, Live
  <2>5. unloaded \in Job /\ (Live(r[2]) => loaded \in Job)
    BY <2>2, <2>3, <2>4, ConstantTypes DEF Job, Phase
  <2>6. \/ Live(r[2]) /\ job' = Put(p, r, loaded)
        \/ job' = Put(p, r, unloaded)
    BY <1>5 DEF Begin, events
  <2>7. job' \in [Proc -> [Run -> Job]]
    BY <2>5, <2>6, PutType DEF TypeOK
  <2>8. QED BY <1>5, <2>7 DEF TypeOK, Begin, history, events
<1>6. ASSUME NEW p \in Proc, NEW r \in Run, Succeed(p, r) PROVE TypeOK'
  <2>1. job[p][r] \in Job /\ job[p][r].row \in Row
    BY DEF TypeOK, Job
  <2>2. [job[p][r].row EXCEPT !.status = "succeeded"] \in Row
    BY <2>1, RowUpdates DEF RowStatus
  <2> DEFINE done == [job[p][r].row EXCEPT !.status = "succeeded"]
  <2>3. [job[p][r] EXCEPT !.pc = "saving", !.row = done] \in Job
    BY <2>1, <2>2, JobUpdates DEF Phase
  <2>4. job' \in [Proc -> [Run -> Job]]
    BY <1>6, <2>3, PutType DEF TypeOK, Succeed, events
  <2>5. QED BY <1>6, <2>4 DEF TypeOK, Succeed, events
<1>7. ASSUME NEW p \in Proc, NEW r \in Run, Err(p, r) PROVE TypeOK'
  <2>1. job[p][r] \in Job /\ AfterError(job[p][r].row) \in Row
    BY JobTypes DEF TypeOK, Job
  <2> DEFINE row == AfterError(job[p][r].row)
  <2>2. [job[p][r] EXCEPT !.pc = "saving", !.row = row] \in Job
    BY <2>1, JobUpdates DEF Phase
  <2>3. job' \in [Proc -> [Run -> Job]]
    BY <1>7, <2>2, PutType DEF TypeOK, Err, events
  <2>4. QED BY <1>7, <2>3 DEF TypeOK, Err, history, events
<1>8. ASSUME NEW p \in Proc, NEW r \in Run, Save(p, r) PROVE TypeOK'
  <2>1. job[p][r] \in Job /\ job[p][r].row \in Row
    BY DEF TypeOK, Job
  <2>2. job' \in [Proc -> [Run -> Job]]
    BY <1>8, <2>1, JobTypes, PutType DEF TypeOK, Save, events
  <2>3. runs' \in [Run -> Row]
    BY <1>8, <2>1, TableTypes DEF TypeOK, Save, events
  <2>4. QED BY <1>8, <2>2, <2>3 DEF TypeOK, Save, history, events
<1>9. ASSUME NEW p \in Proc, NEW r \in Run, ScheduleNext(p, r) PROVE TypeOK'
  <2>1. PendingRow(job[p][r].row.max) \in Row
    BY ConstantTypes DEF TypeOK, Job, Row
  <2>2. runs' \in [Run -> Row]
    BY <1>9, <2>1, TableTypes DEF TypeOK, ScheduleNext, events
  <2>3. job' \in [Proc -> [Run -> Job]]
    BY <1>9, ConstantTypes, PutType DEF TypeOK, ScheduleNext, events
  <2>4. QED BY <1>9, <2>2, <2>3 DEF TypeOK, ScheduleNext, history, events
<1>10. ASSUME NEW q \in Request, NEW r \in Run, RetryRead(q, r) PROVE TypeOK'
  <2> DEFINE taken == [runs[r] EXCEPT !.status = "running", !.attempt = 0]
  <2>0. taken \in Row
    BY RowUpdates DEF TypeOK, RowStatus
  <2>1. [NoJob EXCEPT !.pc = "retrying", !.row = taken] \in Job
    BY <2>0, ConstantTypes, JobUpdates DEF Phase
  <2>2. job' \in [Proc -> [Run -> Job]]
    <3>1. q \in Proc
      BY DEF Proc
    <3>2. job' = Put(q, r, [NoJob EXCEPT !.pc = "retrying", !.row = taken])
      BY <1>10 DEF RetryRead, events
    <3>3. QED BY <2>1, <3>1, <3>2, PutType DEF TypeOK
  <2>3. QED BY <1>10, <2>2 DEF TypeOK, RetryRead, history, events
<1>11. ASSUME NEW q \in Request, NEW r \in Run, RetrySave(q, r) PROVE TypeOK'
  <2>1. q \in Proc /\ job[q][r] \in Job /\ job[q][r].row \in Row
    BY DEF TypeOK, Job, Proc
  <2>2. job' \in [Proc -> [Run -> Job]]
    <3>1. [job[q][r] EXCEPT !.pc = "claimed"] \in Job
      BY <2>1, JobUpdates DEF Phase
    <3>2. QED BY <1>11, <2>1, <3>1, ConstantTypes, PutType DEF TypeOK, RetrySave, events
  <2>3. runs' \in [Run -> Row]
    BY <1>11, <2>1, TableTypes DEF TypeOK, RetrySave, events
  <2>4. /\ reruns' \in [Run -> Nat]
        /\ quiet' \subseteq Run
    BY <1>11 DEF TypeOK, RetrySave, events
  <2>5. QED BY <1>11, <2>2, <2>3, <2>4 DEF TypeOK, RetrySave, events
<1>12. ASSUME NEW q \in Request, NEW r \in Run, Cancel(q, r) PROVE TypeOK'
  <2>1. runs' \in [Run -> Row]
    BY <1>12, TableTypes, NextOfRun DEF TypeOK, Cancel, events
  <2>2. QED BY <1>12, <2>1 DEF TypeOK, Cancel, RecordStop, events
<1>13. ASSUME NEW q \in Request, NEW r \in Run, AckRead(q, r) PROVE TypeOK'
  <2>1. [NoJob EXCEPT !.pc = "acking", !.row = runs[r]] \in Job
    BY ConstantTypes DEF TypeOK, Job, Phase
  <2>2. job' \in [Proc -> [Run -> Job]]
    BY <1>13, <2>1, PutType DEF TypeOK, AckRead, Proc, events
  <2>3. QED BY <1>13, <2>2 DEF TypeOK, AckRead, history, events
<1>14. ASSUME NEW q \in Request, NEW r \in Run, AckSave(q, r) PROVE TypeOK'
  <2> DEFINE acked == SaveRow(r, [job[q][r].row EXCEPT !.acked = TRUE])
  <2>0. q \in Proc /\ job[q][r].row \in Row
    BY DEF TypeOK, Job, Proc
  <2>1. [job[q][r].row EXCEPT !.acked = TRUE] \in Row
    BY <2>0, RowUpdates
  <2>2. acked \in [Run -> Row]
    BY <2>1, TableTypes DEF TypeOK
  <2>3. runs' \in [Run -> Row]
    <3>1. r[3] + 1 \in Nat
      BY NextOfRun
    <3>2. CancelPendingAfter(acked, r, r[3] + 1) \in [Run -> Row]
      BY <2>2, <3>1, TableTypes DEF TypeOK
    <3>3. QED BY <1>14, <2>2, <3>2 DEF AckSave, events
  <2>4. job' \in [Proc -> [Run -> Job]]
    BY <1>14, <2>0, ConstantTypes, PutType DEF TypeOK, AckSave, events
  <2>5. QED BY <1>14, <2>3, <2>4 DEF TypeOK, AckSave, RecordStop, events
<1>15. ASSUME NEW q \in Request, NEW m \in Match, NEW e \in Event,
              TestEvent(q, m, e)
       PROVE TypeOK'
  <2>1. PICK n \in 1..MaxOccurrence :
          /\ runs' = Insert(Fresh(m, e, n), TestRow)
          /\ job' = Put(q, Fresh(m, e, n),
                        [NoJob EXCEPT !.pc = "claimed", !.row = TestRow])
    BY <1>15 DEF TestEvent, events
  <2>2. Fresh(m, e, n) \in Run /\ q \in Proc
    BY FreshOfRun DEF Proc
  <2>3. [NoJob EXCEPT !.pc = "claimed", !.row = TestRow] \in Job
    BY ConstantTypes DEF Job, Phase
  <2>4. job' \in [Proc -> [Run -> Job]]
    BY <2>1, <2>2, <2>3, PutType DEF TypeOK
  <2>5. runs' \in [Run -> Row]
    BY <2>1, <2>2, TableTypes, ConstantTypes DEF TypeOK
  <2>6. QED BY <1>15, <2>4, <2>5 DEF TypeOK, TestEvent, history, events
<1>16. ASSUME NEW e \in Event, EditRead(e) \/ EditSave(e) PROVE TypeOK'
  <2>1. CASE EditRead(e)
    BY <2>1 DEF TypeOK, EditRead, history
  <2>2. CASE EditSave(e)
    <3>1. event' \in [Event -> Configs \cup {Gone}] /\ editing' \subseteq Event
      BY <2>2 DEF TypeOK, EditSave
    <3>2. revived' \in [Event -> Age]
      <4>1. CASE UNCHANGED revived BY <4>1 DEF TypeOK
      <4>2. CASE /\ Live(e) \/ revived[e] < MaxRevivals
                 /\ revived' = [revived EXCEPT ![e] = IF Live(e) THEN @ ELSE @ + 1]
        BY <4>2 DEF TypeOK, Age
      <4>3. QED BY <2>2, <4>1, <4>2 DEF EditSave
    <3>3. QED BY <2>2, <3>1, <3>2 DEF TypeOK, EditSave, history
  <2>3. QED BY <1>16, <2>1, <2>2
<1>17. ASSUME NEW e \in Event, DeleteEvent(e) PROVE TypeOK'
  BY <1>17, ConstantTypes DEF TypeOK, DeleteEvent, history, events
<1>18. ASSUME NEW r \in Run, Elapse(r) PROVE TypeOK'
  BY <1>18, RowUpdates DEF TypeOK, Elapse, history, events
<1>19. ASSUME NEW p \in Proc, Crash(p) PROVE TypeOK'
  BY <1>19, ConstantTypes DEF TypeOK, Crash, history, events
<1>20. CASE UNCHANGED vars
  BY <1>20 DEF TypeOK, vars
<1>21. QED
  BY <1>1, <1>2, <1>3, <1>4, <1>5, <1>6, <1>7, <1>8, <1>9, <1>10, <1>11, <1>12,
     <1>13, <1>14, <1>15, <1>16, <1>17, <1>18, <1>19, <1>20
  DEF Next, Execute, Serve

\* Type correctness of the queue: every reachable table, job and history has the
\* form that the code's entities have.
THEOREM TypeCorrect == Spec => []TypeOK
<1>1. QED BY InitType, NextType, PTL DEF Spec

-----------------------------------------------------------------------------
(* Attempts.  A row may be overwritten by any copy of itself that a process *)
(* read earlier, so the copies must satisfy what the table does; and a copy *)
(* that is about to be executed must have an attempt left.                  *)

RowOK(row) ==
  /\ row.max >= 1 /\ row.attempt <= row.max
  /\ row.status = "pending" => row.attempt < row.max

JobOK(j) ==
  /\ RowOK(j.row)
  /\ j.pc \in {"claimed", "retrying"} => j.row.attempt < j.row.max

AttemptInv ==
  /\ \A r \in Run : RowOK(runs[r])
  /\ \A p \in Proc, r \in Run : JobOK(job[p][r])

LEMMA ConstantsOK ==
  /\ RowOK(NoRow) /\ RowOK(TestRow) /\ TestRow.attempt < TestRow.max
  /\ \A max \in Nat : max >= 1 => RowOK(PendingRow(max))
  /\ JobOK(NoJob)
BY ConstantsAssumption
   DEF RowOK, JobOK, NoRow, TestRow, PendingRow, NoJob

LEMMA TableOK ==
  ASSUME TypeOK, \A r \in Run : RowOK(runs[r])
  PROVE  /\ \A r \in Run, row \in Row : RowOK(row) =>
              \A s \in Run : RowOK(Insert(r, row)[s])
         /\ \A r \in Run, row \in Row : RowOK(row) =>
              \A s \in Run : RowOK(SaveRow(r, row)[s])
         /\ \A t \in [Run -> Row], r \in Run, n \in Nat :
              (\A s \in Run : RowOK(t[s])) =>
                 \A s \in Run : RowOK(CancelPendingAfter(t, r, n)[s])
<1>1. \A r \in Run, row \in Row : RowOK(row) =>
        /\ \A s \in Run : RowOK(Insert(r, row)[s])
        /\ \A s \in Run : RowOK(SaveRow(r, row)[s])
  BY DEF TypeOK, Insert, SaveRow
<1>2. ASSUME NEW t \in [Run -> Row], NEW r \in Run, NEW n \in Nat,
             \A s \in Run : RowOK(t[s]), NEW s \in Run
      PROVE  RowOK(CancelPendingAfter(t, r, n)[s])
  BY <1>2 DEF CancelPendingAfter, RowOK, Row
<1>3. QED BY <1>1, <1>2

LEMMA PutOK ==
  ASSUME TypeOK, \A p \in Proc, r \in Run : JobOK(job[p][r]),
         NEW p \in Proc, NEW r \in Run, NEW j \in Job, JobOK(j)
  PROVE  \A q \in Proc, s \in Run : JobOK(Put(p, r, j)[q][s])
<1>1. \A q \in Proc, s \in Run :
        Put(p, r, j)[q][s] = IF q = p /\ s = r THEN j ELSE job[q][s]
  BY PutType DEF TypeOK
<1>2. QED BY <1>1

LEMMA AfterErrorOK ==
  ASSUME NEW row \in Row, RowOK(row)
  PROVE  RowOK(AfterError(row))
BY DEF AfterError, RowOK, Row

LEMMA InitAttempts == Init => AttemptInv
BY ConstantsOK DEF Init, AttemptInv

LEMMA NextAttempts == TypeOK /\ AttemptInv /\ [Next]_vars => AttemptInv'
<1> SUFFICES ASSUME TypeOK, AttemptInv, [Next]_vars PROVE AttemptInv'
  OBVIOUS
<1> USE DEF AttemptInv
<1>a. \A p \in Proc, r \in Run :
        /\ job[p][r] \in Job /\ job[p][r].row \in Row
        /\ RowOK(job[p][r].row) /\ JobOK(job[p][r])
  BY DEF TypeOK, Job, JobOK
<1>b. \A q \in Request : q \in Proc
  BY DEF Proc
<1>1. ASSUME NEW m \in Match, ScheduleEvents(m) PROVE AttemptInv'
  BY <1>1 DEF ScheduleEvents, events
<1>2. ASSUME NEW m \in Match, PollerCrash(m) PROVE AttemptInv'
  BY <1>2 DEF PollerCrash, events
<1>3. ASSUME NEW m \in Match, NEW e \in Event, ScheduleEvent(m, e) PROVE AttemptInv'
  <2>1. /\ PendingRow(MaxAttempts) \in Row /\ RowOK(PendingRow(MaxAttempts))
        /\ Fresh(m, e, 1) \in Run
    BY ConstantTypes, ConstantsOK, ConstantsAssumption, FreshOfRun, FirstOccurrence
  <2>2. QED BY <1>3, <2>1, TableOK DEF ScheduleEvent, events
<1>4. ASSUME NEW w \in Worker, Claim(w) PROVE AttemptInv'
  <2>1. PICK R \in SUBSET Due :
          /\ runs' = [r \in Run |-> IF r \in R
                                   THEN [runs[r] EXCEPT !.status = "running"]
                                   ELSE runs[r]]
          /\ job' = [job EXCEPT ![w] =
                       [r \in Run |-> IF r \in R
                                     THEN [NoJob EXCEPT !.pc = "claimed",
                                                        !.row = runs[r]]
                                     ELSE NoJob]]
    BY <1>4 DEF Claim, events
  <2>2. \A r \in Run : RowOK([runs[r] EXCEPT !.status = "running"])
    BY DEF TypeOK, RowOK, Row
  <2>3. \A r \in R : JobOK([NoJob EXCEPT !.pc = "claimed", !.row = runs[r]])
    BY DEF TypeOK, JobOK, RowOK, Due, NoJob
  <2>4. \A p \in Proc, r \in Run : JobOK(job'[p][r])
    BY <2>1, <2>3, ConstantsOK DEF TypeOK
  <2>5. QED BY <2>1, <2>2, <2>4
<1>5. ASSUME NEW p \in Proc, NEW r \in Run, Begin(p, r) PROVE AttemptInv'
  <2> DEFINE begun == [job[p][r].row EXCEPT !.attempt = @ + 1, !.status = "running"]
             loaded == [pc |-> "handling", row |-> begun, ev |-> event[r[2]]]
             unloaded == [pc |-> "saving",
                          row |-> [begun EXCEPT !.status = "failed"],
                          ev |-> NoConfig]
  <2>1. job[p][r].row.attempt < job[p][r].row.max
    BY <1>5 DEF Begin, JobOK, events
  <2>2. RowOK(begun) /\ RowOK([begun EXCEPT !.status = "failed"])
    BY <1>a, <2>1 DEF RowOK, Row
  <2>3. JobOK(loaded) /\ JobOK(unloaded)
    BY <2>2 DEF JobOK
  <2>4. /\ \/ job' = Put(p, r, loaded)
           \/ job' = Put(p, r, unloaded)
        /\ UNCHANGED runs
    BY <1>5 DEF Begin, events
  <2>5. \A q \in Proc, s \in Run :
          \/ job'[q][s] = job[q][s]
          \/ job'[q][s] = loaded
          \/ job'[q][s] = unloaded
    BY <2>4 DEF Put, TypeOK
  <2>6. QED BY <2>3, <2>4, <2>5
<1>6. ASSUME NEW p \in Proc, NEW r \in Run, Succeed(p, r) PROVE AttemptInv'
  <2> DEFINE done == [job[p][r].row EXCEPT !.status = "succeeded"]
             j == [job[p][r] EXCEPT !.pc = "saving", !.row = done]
  <2>1. done \in Row /\ RowOK(done)
    <3>1. done \in Row
      BY <1>a, RowUpdates DEF RowStatus
    <3>2. RowOK(done)
      BY <1>a DEF RowOK, Row
    <3>3. QED BY <3>1, <3>2
  <2>2. j \in Job /\ JobOK(j)
    <3>1. "saving" \in Phase
      BY DEF Phase
    <3>2. j \in Job
      BY <1>a, <2>1, <3>1, JobUpdates
    <3>3. j.pc = "saving" /\ RowOK(j.row)
      BY <1>a, <2>1, <3>1, JobFields
    <3>4. QED BY <3>2, <3>3 DEF JobOK
  <2>3. job' = Put(p, r, j) /\ UNCHANGED runs
    BY <1>6 DEF Succeed, events
  <2>4. QED BY <2>2, <2>3, PutOK
<1>7. ASSUME NEW p \in Proc, NEW r \in Run, Err(p, r) PROVE AttemptInv'
  <2> DEFINE row == AfterError(job[p][r].row)
             j == [job[p][r] EXCEPT !.pc = "saving", !.row = row]
  <2>1. row \in Row /\ RowOK(row)
    BY <1>a, JobTypes, AfterErrorOK
  <2>2. j \in Job /\ JobOK(j)
    <3>1. "saving" \in Phase
      BY DEF Phase
    <3>2. j \in Job
      BY <1>a, <2>1, <3>1, JobUpdates
    <3>3. j.pc = "saving" /\ RowOK(j.row)
      BY <1>a, <2>1, <3>1, JobFields
    <3>4. QED BY <3>2, <3>3 DEF JobOK
  <2>3. job' = Put(p, r, j) /\ UNCHANGED runs
    BY <1>7 DEF Err, events
  <2>4. QED BY <2>2, <2>3, PutOK
<1>8. ASSUME NEW p \in Proc, NEW r \in Run, Save(p, r) PROVE AttemptInv'
  <2>1. AfterSave(job[p][r]) \in Job /\ JobOK(AfterSave(job[p][r]))
    BY <1>a, JobTypes, ConstantsOK DEF AfterSave, JobOK, Job
  <2>2. \A q \in Proc, s \in Run : JobOK(job'[q][s])
    BY <1>8, <2>1, PutOK DEF Save, events
  <2>3. \A s \in Run : RowOK(runs'[s])
    BY <1>8, <1>a, TableOK DEF Save, events
  <2>4. QED BY <2>2, <2>3
<1>9. ASSUME NEW p \in Proc, NEW r \in Run, ScheduleNext(p, r) PROVE AttemptInv'
  <2> DEFINE follow == PendingRow(job[p][r].row.max)
  <2>1. follow \in Row /\ RowOK(follow)
    BY <1>a, ConstantTypes, ConstantsOK DEF RowOK, Row
  <2>2. \A s \in Run : RowOK(runs'[s])
    BY <1>9, <2>1, TableOK DEF ScheduleNext, events
  <2>3. \A q \in Proc, s \in Run : JobOK(job'[q][s])
    BY <1>9, ConstantTypes, ConstantsOK, PutOK DEF ScheduleNext, events
  <2>4. QED BY <2>2, <2>3
<1>10. ASSUME NEW q \in Request, NEW r \in Run, RetryRead(q, r) PROVE AttemptInv'
  <2> DEFINE taken == [runs[r] EXCEPT !.status = "running", !.attempt = 0]
             j == [NoJob EXCEPT !.pc = "retrying", !.row = taken]
  <2>1. taken \in Row /\ RowOK(taken) /\ taken.attempt < taken.max
    <3>1. taken \in Row
      BY RowUpdates DEF TypeOK, RowStatus
    <3>2. QED BY <3>1 DEF TypeOK, RowOK, Row
  <2>2. j \in Job /\ JobOK(j)
    BY <2>1, ConstantTypes, JobUpdates DEF JobOK, NoJob, Phase
  <2>3. job' = Put(q, r, j) /\ UNCHANGED runs
    BY <1>10 DEF RetryRead, events
  <2>4. QED BY <1>b, <2>2, <2>3, PutOK
<1>11. ASSUME NEW q \in Request, NEW r \in Run, RetrySave(q, r) PROVE AttemptInv'
  <2> DEFINE j == [job[q][r] EXCEPT !.pc = "claimed"]
  <2>1. j \in Job /\ JobOK(j)
    <3>1. "claimed" \in Phase
      BY DEF Phase
    <3>2. j \in Job
      BY <1>a, <1>b, <3>1, JobUpdates
    <3>3. j.row = job[q][r].row
      BY <1>a, <1>b DEF Job
    <3>4. QED BY <1>11, <1>a, <1>b, <3>2, <3>3 DEF RetrySave, JobOK, events
  <2>2. \A p \in Proc, s \in Run : JobOK(job'[p][s])
    BY <1>11, <1>b, <2>1, ConstantTypes, ConstantsOK, PutOK DEF RetrySave, events
  <2>3. \A s \in Run : RowOK(runs'[s])
    BY <1>11, <1>a, <1>b, TableOK DEF RetrySave, events
  <2>4. QED BY <2>2, <2>3
<1>12. ASSUME NEW q \in Request, NEW r \in Run, Cancel(q, r) PROVE AttemptInv'
  BY <1>12, TableOK, NextOfRun DEF TypeOK, Cancel, events
<1>13. ASSUME NEW q \in Request, NEW r \in Run, AckRead(q, r) PROVE AttemptInv'
  <2> DEFINE j == [NoJob EXCEPT !.pc = "acking", !.row = runs[r]]
  <2>1. j \in Job /\ JobOK(j)
    BY ConstantTypes, JobUpdates DEF TypeOK, JobOK, NoJob, Phase
  <2>2. job' = Put(q, r, j) /\ UNCHANGED runs
    BY <1>13 DEF AckRead, events
  <2>3. QED BY <1>b, <2>1, <2>2, PutOK
<1>14. ASSUME NEW q \in Request, NEW r \in Run, AckSave(q, r) PROVE AttemptInv'
  <2> DEFINE row == [job[q][r].row EXCEPT !.acked = TRUE]
             acked == SaveRow(r, row)
  <2>1. row \in Row /\ RowOK(row)
    <3>1. row \in Row
      BY <1>a, <1>b, RowUpdates
    <3>2. RowOK(row)
      BY <1>a, <1>b, AckedFields DEF RowOK
    <3>3. QED BY <3>1, <3>2
  <2>2. acked \in [Run -> Row] /\ \A s \in Run : RowOK(acked[s])
    BY <2>1, TableOK, TableTypes DEF TypeOK
  <2>3. \A s \in Run : RowOK(CancelPendingAfter(acked, r, r[3] + 1)[s])
    <3>1. r[3] + 1 \in Nat
      BY NextOfRun
    <3>2. QED BY <2>2, <3>1, TableOK
  <2>4. \A s \in Run : RowOK(runs'[s])
    BY <1>14, <2>2, <2>3 DEF AckSave, events
  <2>5. \A p \in Proc, s \in Run : JobOK(job'[p][s])
    BY <1>14, <1>b, ConstantTypes, ConstantsOK, PutOK DEF AckSave, events
  <2>6. QED BY <2>4, <2>5
<1>15. ASSUME NEW q \in Request, NEW m \in Match, NEW e \in Event,
              TestEvent(q, m, e)
       PROVE AttemptInv'
  <2> DEFINE j == [NoJob EXCEPT !.pc = "claimed", !.row = TestRow]
  <2>1. PICK n \in 1..MaxOccurrence :
          /\ runs' = Insert(Fresh(m, e, n), TestRow)
          /\ job' = Put(q, Fresh(m, e, n), j)
    BY <1>15 DEF TestEvent, events
  <2>2. Fresh(m, e, n) \in Run
    BY FreshOfRun
  <2>3. j \in Job /\ JobOK(j)
    BY ConstantTypes, ConstantsOK, JobUpdates DEF JobOK, NoJob, Phase
  <2>4. QED BY <1>b, <2>1, <2>2, <2>3, ConstantTypes, ConstantsOK, TableOK, PutOK
<1>16. ASSUME NEW e \in Event, EditRead(e) \/ EditSave(e) PROVE AttemptInv'
  BY <1>16 DEF EditRead, EditSave
<1>17. ASSUME NEW e \in Event, DeleteEvent(e) PROVE AttemptInv'
  BY <1>17, ConstantsOK DEF DeleteEvent
<1>18. ASSUME NEW r \in Run, Elapse(r) PROVE AttemptInv'
  BY <1>18 DEF TypeOK, Elapse, RowOK, Row, events
<1>19. ASSUME NEW p \in Proc, Crash(p) PROVE AttemptInv'
  BY <1>19, ConstantsOK DEF TypeOK, Crash, events
<1>20. CASE UNCHANGED vars
  BY <1>20 DEF vars
<1>21. QED
  BY <1>1, <1>2, <1>3, <1>4, <1>5, <1>6, <1>7, <1>8, <1>9, <1>10, <1>11, <1>12,
     <1>13, <1>14, <1>15, <1>16, <1>17, <1>18, <1>19, <1>20
  DEF Next, Execute, Serve

\* No run is ever attempted more often than its max_attempts allows, whatever
\* dispatchers, retries, acknowledgements, crashes and failed writes do.
THEOREM AttemptsAreBounded == Spec => []AttemptsBounded
<1>1. TypeOK /\ AttemptInv => AttemptsBounded
  BY DEF AttemptInv, AttemptsBounded, JobOK, RowOK
<1>2. Spec => []AttemptInv
  BY InitAttempts, NextAttempts, TypeCorrect, PTL DEF Spec
<1>3. QED BY <1>1, <1>2, TypeCorrect, PTL

-----------------------------------------------------------------------------
(* The chain.  A save must not create a row out of turn nor a second one of *)
(* its key, so what a process holds of a run is tied to the table: the run  *)
(* is still there unless its event is gone or another came with its         *)
(* revival, and a success that is about to be followed up has taken place.  *)

\* The run's predecessor was executed successfully.
Earned(r) == 1 < r[3] /\ r[3] < TestBase => \E x \in Run : Follows(x, r) /\ hits[x] > 0

Sound(r) == r[4] <= revived[r[2]] /\ Earned(r)

\* Its event is the one it was created for.
Present(r) == Live(r[2]) /\ r[4] = revived[r[2]]

HandOK(p, r) ==
  /\ job[p][r].pc # "idle" => /\ job[p][r].row.status # "absent"
                              /\ Present(r) => Stored(r)
                              /\ Sound(r)
  /\ \/ job[p][r].pc = "following"
     \/ job[p][r].pc = "saving" /\ job[p][r].row.status = "succeeded"
     => hits[r] > 0

ChainInv ==
  /\ \A r \in Run : Stored(r) => Live(r[2]) /\ ~Taken(r) /\ Sound(r)
  /\ \A p \in Proc, r \in Run : HandOK(p, r)

\* No run and no event goes, no success is forgotten.
Kept ==
  /\ UNCHANGED <<event, revived>>
  /\ \A r \in Run : Stored(r) => Stored(r)'
  /\ \A r \in Run : hits[r] > 0 => hits'[r] > 0

\* No run comes, or only r does.
Steady == Kept /\ \A s \in Run : Stored(s)' => Stored(s)

Gains(r) ==
  Kept /\ Sound(r) /\ \A s \in Run : Stored(s)' => Stored(s) \/ (s = r /\ Writable(r))

Orderly == Steady \/ \E r \in Run : Gains(r)

LEMMA EarnedStays ==
  ASSUME NEW r \in Run, Earned(r), \A x \in Run : hits[x] > 0 => hits'[x] > 0
  PROVE  Earned(r)'
BY DEF Earned, Follows, SameChain

LEMMA KeptSound ==
  ASSUME Kept
  PROVE  /\ \A r \in Run : Sound(r) => Sound(r)'
         /\ \A r \in Run : Present(r)' <=> Present(r)
         /\ \A r \in Run : Live(r[2])' <=> Live(r[2])
<1>1. \A r \in Run : Earned(r) => Earned(r)' BY EarnedStays DEF Kept
<1>2. UNCHANGED <<event, revived>> BY DEF Kept
<1>3. QED BY <1>1, <1>2 DEF Sound, Present, Live

\* What a process goes on holding stays in order.
LEMMA HandStays ==
  ASSUME NEW p \in Proc, NEW r \in Run, HandOK(p, r),
         Present(r)' => Present(r),
         Present(r)' /\ Stored(r) => Stored(r)',
         Sound(r) => Sound(r)',
         hits[r] > 0 => hits'[r] > 0,
         job'[p][r] = job[p][r] \/ job'[p][r].pc = "idle"
  PROVE  HandOK(p, r)'
BY DEF HandOK

LEMMA KeptHand ==
  ASSUME Kept, NEW p \in Proc, NEW r \in Run, HandOK(p, r),
         job'[p][r] = job[p][r] \/ job'[p][r].pc = "idle"
  PROVE  HandOK(p, r)'
<1>1. /\ Present(r)' => Present(r)
      /\ Stored(r) => Stored(r)'
      /\ Sound(r) => Sound(r)'
      /\ hits[r] > 0 => hits'[r] > 0
  BY KeptSound DEF Kept
<1>2. QED BY <1>1, HandStays

\* A process that held r goes on holding it with a row that tells as much.
LEMMA KeptHolds ==
  ASSUME Kept, NEW p \in Proc, NEW r \in Run, HandOK(p, r),
         job[p][r].pc # "idle" \/ (Stored(r) /\ Sound(r)),
         job'[p][r].pc # "idle" => job'[p][r].row.status # "absent",
         \/ job'[p][r].pc = "following"
         \/ job'[p][r].pc = "saving" /\ job'[p][r].row.status = "succeeded"
         => hits'[r] > 0
  PROVE  HandOK(p, r)'
<1>1. /\ Present(r)' => Present(r)
      /\ Stored(r) => Stored(r)'
      /\ Sound(r) => Sound(r)'
  BY KeptSound DEF Kept
<1>2. (Present(r) => Stored(r)) /\ Sound(r) BY DEF HandOK
<1>3. QED BY <1>1, <1>2 DEF HandOK

LEMMA OrderlyChain ==
  ASSUME ChainInv, Orderly, \A p \in Proc, r \in Run : HandOK(p, r)'
  PROVE  ChainInv'
<1>1. Kept BY DEF Orderly, Steady, Gains
<1>2. ASSUME NEW r \in Run, Stored(r)' PROVE Live(r[2])' /\ ~Taken(r)' /\ Sound(r)'
  <2>1. CASE Steady
    <3>1. Stored(r) /\ \A s \in Run : Stored(s)' => Stored(s) BY <1>2, <2>1 DEF Steady
    <3>2. Live(r[2]) /\ ~Taken(r) /\ Sound(r) BY <3>1 DEF ChainInv
    <3>3. ~Taken(r)' BY <3>1, <3>2 DEF Taken, SameKey, SameChain
    <3>4. QED BY <1>1, <3>2, <3>3, KeptSound
  <2>2. ASSUME NEW x \in Run, Gains(x) PROVE Live(r[2])' /\ ~Taken(r)' /\ Sound(r)'
    <3>1. /\ Sound(x)
          /\ \A s \in Run : Stored(s)' => Stored(s) \/ (s = x /\ Writable(x))
      BY <2>2 DEF Gains
    <3>2. Live(r[2]) /\ ~Taken(r) /\ Sound(r)
      BY <1>2, <3>1 DEF ChainInv, Writable
    <3>3. ASSUME NEW s \in Run, s # r, SameKey(s, r), Stored(s)' PROVE FALSE
      <4>1. CASE Stored(s) BY <3>2, <3>3, <4>1 DEF Taken
      <4>2. CASE s = x /\ Writable(x)
        <5>1. Stored(r) BY <1>2, <3>1, <3>3, <4>2
        <5>2. Taken(s) BY <3>3, <5>1 DEF Taken, SameKey, SameChain
        <5>3. QED BY <4>2, <5>2 DEF Writable
      <4>3. QED BY <3>1, <3>3, <4>1, <4>2
    <3>4. ~Taken(r)' BY <3>3 DEF Taken, SameKey, SameChain
    <3>5. QED BY <1>1, <3>2, <3>4, KeptSound
  <2>3. QED BY <2>1, <2>2 DEF Orderly
<1>3. QED BY <1>2 DEF ChainInv

\* A step that changes one process's hold on one run.
LEMMA OrderlyPut ==
  ASSUME TypeOK, ChainInv, Orderly, NEW p \in Proc, NEW r \in Run, NEW j \in Job,
         job' = Put(p, r, j), HandOK(p, r)'
  PROVE  ChainInv'
<1>0. Kept BY DEF Orderly, Steady, Gains
<1>1. ASSUME NEW q \in Proc, NEW s \in Run PROVE HandOK(q, s)'
  <2>1. CASE q = p /\ s = r
    BY <2>1
  <2>2. CASE ~(q = p /\ s = r)
    <3>1. job'[q][s] = job[q][s]
      BY <2>2, PutType DEF TypeOK
    <3>2. HandOK(q, s)
      BY DEF ChainInv
    <3>3. QED BY <1>0, <3>1, <3>2, KeptHand
  <2>3. QED BY <2>1, <2>2
<1>2. QED BY <1>1, OrderlyChain

\* Cancelling keeps the keys of the table; saving and inserting a row add one at
\* most.
LEMMA KeysKept ==
  ASSUME TypeOK, NEW r \in Run, NEW row \in Row, row.status # "absent", NEW s \in Run
  PROVE  /\ SaveRow(r, row)[s].status # "absent" <=>
               Stored(s) \/ (s = r /\ Writable(r))
         /\ Insert(r, row)[s].status # "absent" <=>
               Stored(s) \/ (s = r /\ Writable(r))
BY DEF TypeOK, SaveRow, Insert, Stored, Writable

LEMMA CancelKeeps ==
  ASSUME NEW t \in [Run -> Row], NEW r \in Run, NEW n \in Nat, NEW s \in Run
  PROVE  CancelPendingAfter(t, r, n)[s].status = "absent" <=> t[s].status = "absent"
BY DEF CancelPendingAfter, Row

LEMMA InitChain == Init => ChainInv
BY DEF Init, ChainInv, HandOK, Stored, NoRow, NoJob

LEMMA NextChain == TypeOK /\ ChainInv /\ [Next]_vars => ChainInv'
<1> SUFFICES ASSUME TypeOK, ChainInv, [Next]_vars PROVE ChainInv'
  OBVIOUS
<1>a. \A p \in Proc, r \in Run :
        /\ job[p][r] \in Job /\ job[p][r].row \in Row /\ HandOK(p, r)
  BY DEF TypeOK, Job, ChainInv
<1>b. \A q \in Request : q \in Proc
  BY DEF Proc
<1>c. NoJob \in Job /\ NoJob.pc = "idle"
  BY ConstantTypes DEF NoJob
<1>f. \A r \in Run : Stored(r) => Sound(r)
  BY DEF ChainInv
\* Steps that leave the jobs alone and keep the keys.
<1>d. ASSUME Steady, UNCHANGED job PROVE ChainInv'
  <2>1. \A p \in Proc, r \in Run : HandOK(p, r)' BY <1>d, <1>a, KeptHand DEF Steady
  <2>2. QED BY <1>d, <2>1, OrderlyChain DEF Orderly
\* A row comes into being for run r, and nothing else does.
<1>e. ASSUME NEW r \in Run, NEW row \in Row, row.status # "absent", Sound(r),
             runs' = Insert(r, row), UNCHANGED <<event, revived, hits>>,
             \A q \in Proc, x \in Run :
               \/ job'[q][x] = job[q][x] \/ job'[q][x].pc = "idle"
               \/ HandOK(q, x)'
      PROVE  ChainInv'
  <2>1. \A x \in Run : Stored(x)' <=> Stored(x) \/ (x = r /\ Writable(r))
    BY <1>e, KeysKept DEF Stored
  <2>2. Gains(r) /\ Kept
    BY <1>e, <2>1 DEF Gains, Kept
  <2>3. ASSUME NEW q \in Proc, NEW x \in Run PROVE HandOK(q, x)'
    BY <1>a, <1>e, <2>2, KeptHand
  <2>4. QED BY <2>2, <2>3, OrderlyChain DEF Orderly
<1>1. ASSUME NEW m \in Match, ScheduleEvents(m) PROVE ChainInv'
  BY <1>1, <1>d DEF ScheduleEvents, Steady, Kept, Stored, history, events
<1>2. ASSUME NEW m \in Match, PollerCrash(m) PROVE ChainInv'
  BY <1>2, <1>d DEF PollerCrash, Steady, Kept, Stored, history, events
<1>3. ASSUME NEW m \in Match, NEW e \in Event, ScheduleEvent(m, e) PROVE ChainInv'
  <2> DEFINE row == PendingRow(MaxAttempts)
  <2>1. CASE UNCHANGED runs
    BY <1>3, <2>1, <1>d DEF ScheduleEvent, Steady, Kept, Stored, history, events
  <2>2. CASE runs' = Insert(Fresh(m, e, 1), row)
    <3>1. row \in Row /\ row.status # "absent"
      BY ConstantTypes, ConstantsAssumption DEF PendingRow, NoRow
    <3>2. Fresh(m, e, 1) \in Run
      BY FreshOfRun, FirstOccurrence
    <3>3. Sound(Fresh(m, e, 1))
      <4>1. revived[e] \in Nat BY ConstantsAssumption DEF TypeOK, Age
      <4>2. QED BY <4>1, FreshOfRun, FirstOccurrence DEF Sound, Earned
    <3>4. UNCHANGED <<event, revived, hits, job>>
      BY <1>3 DEF ScheduleEvent, history, events
    <3>5. QED BY <2>2, <3>1, <3>2, <3>3, <3>4, <1>e
  <2>3. QED BY <1>3, <2>1, <2>2 DEF ScheduleEvent, events
<1>4. ASSUME NEW w \in Worker, Claim(w) PROVE ChainInv'
  <2>1. PICK R \in SUBSET Due :
          /\ runs' = [r \in Run |-> IF r \in R
                                   THEN [runs[r] EXCEPT !.status = "running"]
                                   ELSE runs[r]]
          /\ job' = [job EXCEPT ![w] =
                       [r \in Run |-> IF r \in R
                                     THEN [NoJob EXCEPT !.pc = "claimed",
                                                        !.row = runs[r]]
                                     ELSE NoJob]]
    BY <1>4 DEF Claim, events
  <2>2. \A r \in R : Stored(r) /\ runs[r].status # "absent"
    BY DEF Due, Stored
  <2>3. \A r \in Run : Stored(r)' <=> Stored(r)
    BY <2>1, <2>2 DEF Stored, TypeOK, Row
  <2>4. Steady
    BY <1>4, <2>3 DEF Claim, Steady, Kept, history, events
  <2>5. ASSUME NEW q \in Proc, NEW s \in Run PROVE HandOK(q, s)'
    <3> DEFINE j == [NoJob EXCEPT !.pc = "claimed", !.row = runs[s]]
    <3>1. \/ job'[q][s] = job[q][s]
          \/ job'[q][s] = NoJob
          \/ s \in R /\ job'[q][s] = j
      BY <2>1 DEF TypeOK
    <3>2. s \in R => j.pc = "claimed" /\ j.row.status # "absent"
      BY <2>2 DEF NoJob
    <3>3. CASE s \in R /\ job'[q][s] = j
      <4>1. Stored(s) /\ Sound(s) BY <1>f, <2>2, <3>3
      <4>2. QED BY <1>a, <2>4, <3>2, <3>3, <4>1, KeptHolds DEF Steady
    <3>4. CASE job'[q][s] = job[q][s] \/ job'[q][s] = NoJob
      BY <1>a, <1>c, <2>4, <3>4, KeptHand DEF Steady
    <3>5. QED BY <3>1, <3>3, <3>4
  <2>6. QED BY <2>4, <2>5, OrderlyChain DEF Orderly
<1>5. ASSUME NEW p \in Proc, NEW r \in Run, Begin(p, r) PROVE ChainInv'
  <2> DEFINE begun == [job[p][r].row EXCEPT !.attempt = @ + 1, !.status = "running"]
             loaded == [pc |-> "handling", row |-> begun, ev |-> event[r[2]]]
             unloaded == [pc |-> "saving",
                          row |-> [begun EXCEPT !.status = "failed"],
                          ev |-> NoConfig]
  <2>1. Steady
    BY <1>5 DEF Begin, Steady, Kept, Stored, history, events
  <2>2. begun.status = "running" /\ [begun EXCEPT !.status = "failed"].status = "failed"
    BY <1>a DEF Row
  <2>3. job[p][r].pc # "idle"
    BY <1>5 DEF Begin, events
  <2>4. \A q \in Proc, s \in Run :
          \/ job'[q][s] = job[q][s]
          \/ q = p /\ s = r /\ job'[q][s] = loaded
          \/ q = p /\ s = r /\ job'[q][s] = unloaded
    BY <1>5 DEF Begin, Put, TypeOK, events
  <2>5. ASSUME NEW q \in Proc, NEW s \in Run PROVE HandOK(q, s)'
    <3>1. CASE job'[q][s] = job[q][s]
      BY <1>a, <2>1, <3>1, KeptHand DEF Steady
    <3>2. CASE q = p /\ s = r /\ job'[q][s] = loaded
      <4>1. loaded.pc = "handling" /\ loaded.row.status = "running"
        BY <2>2
      <4>2. QED BY <1>a, <2>1, <2>3, <3>2, <4>1, KeptHolds DEF Steady
    <3>3. CASE q = p /\ s = r /\ job'[q][s] = unloaded
      <4>1. unloaded.pc = "saving" /\ unloaded.row.status = "failed"
        BY <2>2
      <4>2. QED BY <1>a, <2>1, <2>3, <3>3, <4>1, KeptHolds DEF Steady
    <3>4. QED BY <2>4, <3>1, <3>2, <3>3
  <2>6. QED BY <2>1, <2>5, OrderlyChain DEF Orderly
<1>6. ASSUME NEW p \in Proc, NEW r \in Run, Succeed(p, r) PROVE ChainInv'
  <2> DEFINE done == [job[p][r].row EXCEPT !.status = "succeeded"]
             j == [job[p][r] EXCEPT !.pc = "saving", !.row = done]
  <2>1. done \in Row /\ done.status = "succeeded"
    <3>1. done \in Row
      BY <1>a, RowUpdates DEF RowStatus
    <3>2. QED BY <1>a, <3>1 DEF Row
  <2>2. j \in Job /\ j.pc = "saving" /\ j.row = done
    <3>1. "saving" \in Phase
      BY DEF Phase
    <3>2. job[p][r] \in Job
      BY <1>a
    <3>3. j \in Job
      BY <2>1, <3>1, <3>2, JobUpdates
    <3>4. QED BY <2>1, <3>1, <3>2, <3>3, JobFields
  <2>3. job' = Put(p, r, j) /\ job[p][r].pc # "idle"
    BY <1>6 DEF Succeed, events
  <2>4. hits'[r] > 0
    BY <1>6 DEF Succeed, TypeOK, events
  <2>5. Steady
    BY <1>6 DEF Succeed, Steady, Kept, Stored, TypeOK, events
  <2>6. job'[p][r] = j
    BY <2>2, <2>3, PutType DEF TypeOK
  <2>7. HandOK(p, r)'
    BY <1>a, <2>1, <2>2, <2>3, <2>4, <2>5, <2>6, KeptHolds DEF Steady
  <2>8. QED BY <2>2, <2>3, <2>5, <2>7, OrderlyPut DEF Orderly
<1>7. ASSUME NEW p \in Proc, NEW r \in Run, Err(p, r) PROVE ChainInv'
  <2> DEFINE row == AfterError(job[p][r].row)
             j == [job[p][r] EXCEPT !.pc = "saving", !.row = row]
  <2>1. row \in Row /\ row.status \in {"pending", "failed"}
    <3>1. row \in Row
      BY <1>a, JobTypes
    <3>2. row.status \in {"pending", "failed"}
      BY <1>a DEF AfterError, Row
    <3>3. QED BY <3>1, <3>2
  <2>2. j \in Job /\ j.pc = "saving" /\ j.row = row
    <3>1. "saving" \in Phase
      BY DEF Phase
    <3>2. job[p][r] \in Job
      BY <1>a
    <3>3. j \in Job
      BY <2>1, <3>1, <3>2, JobUpdates
    <3>4. QED BY <2>1, <3>1, <3>2, <3>3, JobFields
  <2>3. job' = Put(p, r, j) /\ job[p][r].pc # "idle"
    BY <1>7 DEF Err, events
  <2>4. Steady
    BY <1>7 DEF Err, Steady, Kept, Stored, history, events
  <2>5. job'[p][r] = j
    BY <2>2, <2>3, PutType DEF TypeOK
  <2>6. HandOK(p, r)'
    BY <1>a, <2>1, <2>2, <2>3, <2>4, <2>5, KeptHolds DEF Steady
  <2>7. QED BY <2>2, <2>3, <2>4, <2>6, OrderlyPut DEF Orderly
<1>8. ASSUME NEW p \in Proc, NEW r \in Run, Save(p, r) PROVE ChainInv'
  <2> DEFINE j == AfterSave(job[p][r])
  <2>1. j \in Job /\ job' = Put(p, r, j) /\ job[p][r].pc = "saving"
    BY <1>8, <1>a, JobTypes DEF Save, events
  <2>2. job[p][r].row.status # "absent" /\ Sound(r)
    BY <1>a, <2>1 DEF HandOK
  <2>a. runs' = SaveRow(r, job[p][r].row) \/ UNCHANGED runs
    BY <1>8 DEF Save
  <2>b. \A s \in Run : /\ Stored(s) => Stored(s)'
                       /\ Stored(s)' => Stored(s) \/ (s = r /\ Writable(r))
    BY <1>a, <2>2, <2>a, KeysKept DEF Stored
  <2>3. Gains(r) /\ Kept
    BY <1>8, <2>2, <2>b DEF Save, Gains, Kept, history, events
  <2>4. job'[p][r] = j
    BY <2>1, PutType DEF TypeOK
  <2>5. \/ j = NoJob
        \/ /\ job[p][r].row.status = "succeeded"
           /\ j.pc = "following" /\ j.row = job[p][r].row
    BY <1>a DEF AfterSave, Job
  <2>6. HandOK(p, r)'
    <3>1. CASE j = NoJob BY <1>a, <1>c, <2>3, <2>4, <3>1, KeptHand
    <3>2. CASE j # NoJob
      <4>1. hits'[r] > 0 BY <1>a, <2>1, <2>3, <2>5, <3>2 DEF HandOK, Kept
      <4>2. QED BY <1>a, <2>1, <2>3, <2>4, <2>5, <3>2, <4>1, KeptHolds
    <3>3. QED BY <3>1, <3>2
  <2>7. QED BY <2>1, <2>3, <2>6, OrderlyPut DEF Orderly
<1>9. ASSUME NEW p \in Proc, NEW r \in Run, ScheduleNext(p, r) PROVE ChainInv'
  <2> DEFINE row == PendingRow(job[p][r].row.max)
  <2>1. job' = Put(p, r, NoJob) /\ UNCHANGED <<event, revived, hits>>
    BY <1>9 DEF ScheduleNext, history, events
  <2>2. ASSUME NEW q \in Proc, NEW s \in Run
        PROVE  job'[q][s] = job[q][s] \/ job'[q][s].pc = "idle"
    <3>1. job'[q][s] = IF q = p /\ s = r THEN NoJob ELSE job[q][s]
      BY <2>1, <1>c, PutType DEF TypeOK
    <3>2. QED BY <1>c, <3>1
  <2>3. CASE UNCHANGED runs
    <3>1. Steady
      BY <2>1, <2>3 DEF Steady, Kept, Stored
    <3>2. \A q \in Proc, s \in Run : HandOK(q, s)' BY <1>a, <2>2, <3>1, KeptHand DEF Steady
    <3>3. QED BY <3>1, <3>2, OrderlyChain DEF Orderly
  <2>4. CASE NextOf(r) \in Run /\ runs' = Insert(NextOf(r), row)
    <3>1. row \in Row /\ row.status # "absent"
      BY <1>a, ConstantTypes DEF PendingRow, NoRow, Row
    <3>2. hits[r] > 0
      BY <1>9, <1>a DEF ScheduleNext, HandOK, events
    <3>3. Sound(NextOf(r))
      <4>1. revived[r[2]] \in Nat BY ConstantsAssumption, NextOfRun DEF TypeOK, Age
      <4>2. Follows(r, NextOf(r)) BY NextOfRun DEF Follows, SameChain
      <4>3. QED BY <3>2, <4>1, <4>2, NextOfRun DEF Sound, Earned
    <3>4. QED BY <2>1, <2>2, <2>4, <3>1, <3>2, <3>3, <1>e
  <2>5. QED BY <1>9, <2>3, <2>4 DEF ScheduleNext, events
<1>10. ASSUME NEW q \in Request, NEW r \in Run, RetryRead(q, r) PROVE ChainInv'
  <2> DEFINE taken == [runs[r] EXCEPT !.status = "running", !.attempt = 0]
             j == [NoJob EXCEPT !.pc = "retrying", !.row = taken]
  <2>1. taken \in Row /\ taken.status = "running"
    <3>1. taken \in Row
      BY RowUpdates DEF TypeOK, RowStatus
    <3>2. taken.status = "running"
      BY DEF TypeOK, Row
    <3>3. QED BY <3>1, <3>2
  <2>2. j \in Job /\ j.pc = "retrying" /\ j.row = taken
    <3>1. "retrying" \in Phase
      BY DEF Phase
    <3>2. j \in Job
      BY <1>c, <2>1, <3>1, JobUpdates
    <3>3. QED BY <1>c, <2>1, <3>1, <3>2, JobFields
  <2>3. job' = Put(q, r, j) /\ Stored(r) /\ Steady
    BY <1>10 DEF RetryRead, Steady, Kept, Stored, history, events
  <2>4. job'[q][r] = j
    BY <1>b, <2>2, <2>3, PutType DEF TypeOK
  <2>5. HandOK(q, r)'
    BY <1>a, <1>b, <1>f, <2>1, <2>2, <2>3, <2>4, KeptHolds DEF Steady
  <2>6. QED BY <1>b, <2>2, <2>3, <2>5, OrderlyPut DEF Orderly
<1>11. ASSUME NEW q \in Request, NEW r \in Run, RetrySave(q, r) PROVE ChainInv'
  <2> DEFINE j == [job[q][r] EXCEPT !.pc = "claimed"]
  <2>1. j \in Job /\ j.pc = "claimed" /\ j.row = job[q][r].row
    <3>1. "claimed" \in Phase
      BY DEF Phase
    <3>2. job[q][r] \in Job
      BY <1>a, <1>b
    <3>3. j \in Job
      BY <3>1, <3>2, JobUpdates
    <3>4. QED BY <3>1, <3>2, <3>3 DEF Job
  <2>2. job[q][r].pc = "retrying" /\ UNCHANGED <<event, revived, hits>>
    BY <1>11 DEF RetrySave, events
  <2>a. job[q][r].row.status # "absent" /\ Sound(r)
    BY <1>a, <1>b, <2>2 DEF HandOK
  <2>b. runs' = SaveRow(r, job[q][r].row) \/ UNCHANGED runs
    BY <1>11 DEF RetrySave
  <2>3. \A s \in Run : /\ Stored(s) => Stored(s)'
                       /\ Stored(s)' => Stored(s) \/ (s = r /\ Writable(r))
    BY <1>a, <1>b, <2>a, <2>b, KeysKept DEF Stored
  <2>4. Gains(r) /\ Kept
    BY <2>2, <2>3, <2>a DEF Gains, Kept
  <2>5. \/ job' = Put(q, r, j)
        \/ job' = Put(q, r, NoJob)
    BY <1>11 DEF RetrySave, events
  <2>6. CASE job' = Put(q, r, j)
    <3>1. job'[q][r] = j
      BY <1>b, <2>1, <2>6, PutType DEF TypeOK
    <3>2. HandOK(q, r)'
      BY <1>a, <1>b, <2>1, <2>2, <2>a, <2>4, <3>1, KeptHolds
    <3>3. QED BY <1>b, <2>1, <2>4, <2>6, <3>2, OrderlyPut DEF Orderly
  <2>7. CASE job' = Put(q, r, NoJob)
    <3>1. job'[q][r] = NoJob
      BY <1>b, <1>c, <2>7, PutType DEF TypeOK
    <3>2. HandOK(q, r)'
      BY <1>c, <3>1 DEF HandOK
    <3>3. QED BY <1>b, <1>c, <2>4, <2>7, <3>2, OrderlyPut DEF Orderly
  <2>8. QED BY <2>5, <2>6, <2>7
<1>12. ASSUME NEW q \in Request, NEW r \in Run, Cancel(q, r) PROVE ChainInv'
  <2>1. r[3] \in Nat
    BY NextOfRun
  <2>2. \A s \in Run : Stored(s)' <=> Stored(s)
    BY <1>12, <2>1, CancelKeeps DEF Cancel, Stored, TypeOK, events
  <2>3. Steady /\ UNCHANGED job
    BY <1>12, <2>2 DEF Cancel, Steady, Kept, events
  <2>4. QED BY <2>3, <1>d
<1>13. ASSUME NEW q \in Request, NEW r \in Run, AckRead(q, r) PROVE ChainInv'
  <2> DEFINE j == [NoJob EXCEPT !.pc = "acking", !.row = runs[r]]
  <2>1. j \in Job /\ j.pc = "acking" /\ j.row = runs[r]
    <3>1. "acking" \in Phase /\ runs[r] \in Row
      BY DEF Phase, TypeOK
    <3>2. j \in Job
      BY <1>c, <3>1, JobUpdates
    <3>3. QED BY <1>c, <3>1, <3>2, JobFields
  <2>2. job' = Put(q, r, j) /\ Stored(r) /\ Steady
    BY <1>13 DEF AckRead, Steady, Kept, Stored, history, events
  <2>3. job'[q][r] = j
    BY <1>b, <2>1, <2>2, PutType DEF TypeOK
  <2>4. HandOK(q, r)'
    <3>1. runs[r].status # "absent" BY <2>2 DEF Stored
    <3>2. QED BY <1>a, <1>b, <1>f, <2>1, <2>2, <2>3, <3>1, KeptHolds DEF Steady
  <2>5. QED BY <1>b, <2>1, <2>2, <2>4, OrderlyPut DEF Orderly
<1>14. ASSUME NEW q \in Request, NEW r \in Run, AckSave(q, r) PROVE ChainInv'
  <2> DEFINE row == [job[q][r].row EXCEPT !.acked = TRUE]
             acked == SaveRow(r, row)
  <2>1. row \in Row /\ row.status = job[q][r].row.status
    <3>1. row \in Row
      BY <1>a, <1>b, RowUpdates
    <3>2. QED BY <1>a, <1>b, <3>1, AckedFields
  <2>2. job[q][r].pc = "acking" /\ job' = Put(q, r, NoJob)
        /\ UNCHANGED <<event, revived, hits>>
    BY <1>14 DEF AckSave, events
  <2>3. acked \in [Run -> Row]
    BY <2>1, TableTypes DEF TypeOK
  <2>a. job[q][r].row.status # "absent" /\ Sound(r)
    BY <1>a, <1>b, <2>2 DEF HandOK
  <2>4. \A s \in Run : acked[s].status # "absent" <=>
                       Stored(s) \/ (s = r /\ Writable(r))
    BY <2>1, <2>a, KeysKept
  <2>5. \A s \in Run : CancelPendingAfter(acked, r, r[3] + 1)[s].status = "absent"
                       <=> acked[s].status = "absent"
    <3>1. r[3] + 1 \in Nat
      BY NextOfRun
    <3>2. QED BY <2>3, <3>1, CancelKeeps
  <2>6. \A s \in Run : Stored(s)' <=> Stored(s) \/ (s = r /\ Writable(r))
    BY <1>14, <2>4, <2>5 DEF AckSave, Stored, events
  <2>7. Gains(r)
    BY <2>2, <2>6, <2>a DEF Gains, Kept
  <2>8. job'[q][r] = NoJob
    BY <1>b, <1>c, <2>2, PutType DEF TypeOK
  <2>9. HandOK(q, r)'
    BY <1>c, <2>8 DEF HandOK
  <2>10. QED BY <1>b, <1>c, <2>2, <2>7, <2>9, OrderlyPut DEF Orderly
<1>15. ASSUME NEW q \in Request, NEW m \in Match, NEW e \in Event,
              TestEvent(q, m, e)
       PROVE ChainInv'
  <2> DEFINE j == [NoJob EXCEPT !.pc = "claimed", !.row = TestRow]
  <2>1. PICK n \in 1..MaxOccurrence :
          /\ IsTestOccurrence(m, e, n)
          /\ runs' = Insert(Fresh(m, e, n), TestRow)
          /\ job' = Put(q, Fresh(m, e, n), j)
    BY <1>15 DEF TestEvent, events
  <2>0. PICK r \in Run : r = Fresh(m, e, n) BY FreshOfRun
  <2>2. r \in Run /\ r[1] = m /\ r[2] = e /\ r[3] = n /\ r[4] = revived[e]
    BY <2>0, FreshOfRun
  <2>3. TestRow \in Row /\ TestRow.status = "running"
    BY ConstantTypes DEF TestRow, NoRow
  <2>4. j \in Job /\ j.pc = "claimed" /\ j.row = TestRow
    <3>1. "claimed" \in Phase
      BY DEF Phase
    <3>2. j \in Job
      BY <1>c, <2>3, <3>1, JobUpdates
    <3>3. QED BY <1>c, <2>3, <3>1, <3>2, JobFields
  <2>5. ~(n < TestBase)
    BY <2>1, ConstantsAssumption DEF IsTestOccurrence
  <2>6. UNCHANGED <<event, revived, hits>> /\ Live(e)
    BY <1>15 DEF TestEvent, history, events
  <2>a. \A s \in Run : s[1] = m /\ s[2] = e /\ Stored(s) => n > s[3]
    BY <2>1 DEF IsTestOccurrence
  <2>b. ~Taken(r)
    BY <2>2, <2>a, NextOfRun DEF Taken, SameKey, SameChain
  <2>7. Stored(r)'
    <3>1. Writable(r) BY <2>2, <2>6, <2>b DEF Writable
    <3>2. QED BY <2>0, <2>1, <2>3, <3>1, KeysKept DEF Stored
  <2>c. Sound(r) /\ Sound(r)'
    <3>1. revived[e] \in Nat BY ConstantsAssumption DEF TypeOK, Age
    <3>2. ~(r[3] < TestBase) BY <2>2, <2>5
    <3>3. UNCHANGED revived /\ r[4] <= revived[r[2]] BY <2>2, <2>6, <3>1
    <3>4. QED BY <3>2, <3>3 DEF Sound, Earned
  <2>8. ASSUME NEW p \in Proc, NEW x \in Run
        PROVE  job'[p][x] = job[p][x] \/ (p = q /\ x = r /\ job'[p][x] = j)
    <3>1. q \in Proc /\ r \in Run /\ j \in Job
      BY <1>b, <2>2, <2>4
    <3>2. job' = Put(q, r, j)
      BY <2>0, <2>1
    <3> HIDE DEF j
    <3>3. job'[p][x] = IF p = q /\ x = r THEN j ELSE job[p][x]
      BY <3>1, <3>2, PutType DEF TypeOK
    <3>4. QED BY <3>3
  <2>9. \A p \in Proc, x \in Run :
          job'[p][x] = job[p][x] \/ HandOK(p, x)'
    <3>1. ASSUME NEW p \in Proc, NEW x \in Run, job'[p][x] # job[p][x]
          PROVE  HandOK(p, x)'
      <4>1. x = r /\ job'[p][x] = j BY <2>8, <3>1
      <4>2. job'[p][x].pc = "claimed" /\ job'[p][x].row.status = "running"
        BY <2>3, <2>4, <4>1
      <4>3. QED BY <2>7, <2>c, <4>1, <4>2 DEF HandOK
    <3>2. QED BY <3>1
  <2>10. QED BY <2>0, <2>1, <2>2, <2>3, <2>6, <2>9, <2>c, <1>e
<1>16. ASSUME NEW e \in Event, EditRead(e) \/ EditSave(e) PROVE ChainInv'
  <2>1. CASE EditRead(e)
    BY <1>d, <2>1 DEF EditRead, Steady, Kept, Stored, history
  <2>2. CASE EditSave(e)
    <3>1. UNCHANGED <<runs, job, hits>>
      BY <2>2 DEF EditSave, history
    <3>2. \A r \in Run : /\ Stored(r)' <=> Stored(r)
                         /\ Earned(r)' <=> Earned(r)
      BY <3>1 DEF Stored, Earned
    <3>3. /\ \A x \in Event : Live(x) => Live(x)'
          /\ \A x \in Event : ~Live(x) /\ Live(x)' => revived'[x] = revived[x] + 1
          /\ \A x \in Event : revived'[x] = revived[x] \/ revived'[x] = revived[x] + 1
      BY <2>2, ConstantsAssumption DEF EditSave, Live, TypeOK, Age
    <3>4. ASSUME NEW r \in Run
          PROVE  /\ Sound(r) => Sound(r)'
                 /\ Sound(r) /\ Present(r)' => Present(r)
                 /\ Live(r[2]) => Live(r[2])'
      <4>1. r[4] \in Nat /\ r[2] \in Event /\ revived[r[2]] \in Nat
        BY ConstantsAssumption, NextOfRun DEF TypeOK, Age
      <4>2. QED BY <3>2, <3>3, <4>1 DEF Sound, Present
    <3>5. ASSUME NEW p \in Proc, NEW r \in Run PROVE HandOK(p, r)'
      BY <1>a, <3>1, <3>2, <3>4 DEF HandOK
    <3>6. \A r \in Run : Taken(r)' <=> Taken(r)
      BY <3>2 DEF Taken, SameKey, SameChain
    <3>7. QED BY <3>2, <3>4, <3>5, <3>6 DEF ChainInv
  <2>3. QED BY <1>16, <2>1, <2>2
<1>17. ASSUME NEW e \in Event, DeleteEvent(e) PROVE ChainInv'
  <2>1. /\ \A x \in Event : Live(x)' <=> Live(x) /\ x # e
        /\ UNCHANGED <<job, hits, revived>>
    BY <1>17, ConstantsAssumption DEF DeleteEvent, Live, TypeOK
  <2>2. \A r \in Run : Stored(r)' <=> Stored(r) /\ r[2] # e
    BY <1>17 DEF DeleteEvent, Stored, NoRow
  <2>3. \A r \in Run : /\ Sound(r)' <=> Sound(r)
                       /\ Present(r)' <=> Present(r) /\ r[2] # e
                       /\ Taken(r)' => Taken(r)
    BY <2>1, <2>2, NextOfRun DEF Sound, Earned, Present, Taken, SameKey, SameChain
  <2>4. \A p \in Proc, r \in Run : HandOK(p, r)'
    BY <1>a, <2>1, <2>2, <2>3 DEF HandOK
  <2>5. QED BY <2>1, <2>2, <2>3, <2>4, NextOfRun DEF ChainInv
<1>18. ASSUME NEW r \in Run, Elapse(r) PROVE ChainInv'
  <2>1. \A s \in Run : Stored(s)' <=> Stored(s)
    BY <1>18 DEF Elapse, Stored, TypeOK, Row, events
  <2>2. Steady /\ UNCHANGED job
    BY <1>18, <2>1 DEF Elapse, Steady, Kept, history, events
  <2>3. QED BY <2>2, <1>d
<1>19. ASSUME NEW p \in Proc, Crash(p) PROVE ChainInv'
  <2>1. Steady
    BY <1>19 DEF Crash, Steady, Kept, Stored, history, events
  <2>2. \A q \in Proc, s \in Run :
          job'[q][s] = job[q][s] \/ job'[q][s].pc = "idle"
    BY <1>19, <1>c DEF Crash, TypeOK, events
  <2>3. \A q \in Proc, s \in Run : HandOK(q, s)' BY <1>a, <2>1, <2>2, KeptHand DEF Steady
  <2>4. QED BY <2>1, <2>3, OrderlyChain DEF Orderly
<1>20. CASE UNCHANGED vars
  BY <1>20, <1>d DEF vars, Steady, Kept, Stored
<1>21. QED
  BY <1>1, <1>2, <1>3, <1>4, <1>5, <1>6, <1>7, <1>8, <1>9, <1>10, <1>11, <1>12,
     <1>13, <1>14, <1>15, <1>16, <1>17, <1>18, <1>19, <1>20
  DEF Next, Execute, Serve

LEMMA ChainInvariant == Spec => []ChainInv
<1>1. QED BY InitChain, NextChain, TypeCorrect, PTL DEF Spec

\* A repeat chain never runs ahead of itself: occurrence n+1 exists only if n was
\* executed successfully, whatever is retried, acknowledged, deleted or crashes.
THEOREM ChainIsInOrder == Spec => []ChainInOrder
<1>1. ChainInv => ChainInOrder
  BY DEF ChainInv, ChainInOrder, Sound, Earned
<1>2. QED BY <1>1, ChainInvariant, PTL

-----------------------------------------------------------------------------
(* Who executes a run, as long as nobody retries or acknowledges.  A stored  *)
(* row that is in flight is running: so nobody claims or cancels it, and the *)
(* one process that holds it is alone.  A row that is created has an age     *)
(* that nobody holds anything of yet.                                        *)

Unassisted == "retry" \notin Allowed /\ "ack" \notin Allowed

FlightInv ==
  /\ \A p \in Proc, r \in Run : job[p][r].pc \notin {"retrying", "acking"}
  /\ \A p \in Proc, r \in Run : InFlight(p, r) /\ Stored(r) => runs[r].status = "running"
  /\ Exclusive

CancelledKept ==
  \A r \in Run : runs[r].status = "cancelled" => runs'[r].status \in {"cancelled", "absent"}

Unheld(r) == \A p \in Proc : ~InFlight(p, r)

\* A run that could be created now is in nobody's hands.
LEMMA FreshIsFree ==
  ASSUME ChainInv, NEW r \in Run, Present(r), ~Stored(r)
  PROVE  (\A p \in Proc : job[p][r].pc = "idle") /\ Unheld(r)
BY DEF ChainInv, HandOK, Unheld, InFlight

\* A step by which nobody takes a run in flight, and running rows stay so.
LEMMA FlightKeeps ==
  ASSUME FlightInv,
         \A p \in Proc, r \in Run : /\ job'[p][r].pc \notin {"retrying", "acking"}
                                    /\ InFlight(p, r)' => InFlight(p, r),
         \A r \in Run :
           \/ ~Stored(r)'
           \/ Stored(r) /\ (runs[r].status = "running" => runs'[r].status = "running")
           \/ \A p \in Proc : ~InFlight(p, r)'
  PROVE  FlightInv'
BY DEF FlightInv, Exclusive

\* Process p goes on with run r, or lets go of it.
LEMMA FlightPut ==
  ASSUME TypeOK, FlightInv, NEW p \in Proc, NEW r \in Run, NEW j \in Job, job' = Put(p, r, j),
         j.pc \notin {"retrying", "acking"},
         j.pc \in {"claimed", "handling", "saving"} => InFlight(p, r),
         \A s \in Run :
           \/ Stored(s)' => Stored(s) /\ (runs[s].status = "running" => runs'[s].status = "running")
           \/ Unheld(s)
           \/ s = r /\ InFlight(p, r) /\ j.pc \notin {"claimed", "handling", "saving"}
  PROVE  FlightInv'
<1>1. \A q \in Proc, s \in Run : job'[q][s] = IF q = p /\ s = r THEN j ELSE job[q][s]
  BY PutType DEF TypeOK
<1>2. \A q \in Proc, s \in Run : /\ job'[q][s].pc \notin {"retrying", "acking"}
                                 /\ InFlight(q, s)' => InFlight(q, s)
  BY <1>1 DEF FlightInv, InFlight
<1>3. ASSUME NEW s \in Run
      PROVE  \/ ~Stored(s)'
             \/ Stored(s) /\ (runs[s].status = "running" => runs'[s].status = "running")
             \/ \A q \in Proc : ~InFlight(q, s)'
  <2>1. CASE Unheld(s) BY <1>2, <2>1 DEF Unheld
  <2>2. CASE s = r /\ InFlight(p, r) /\ j.pc \notin {"claimed", "handling", "saving"}
    BY <1>1, <1>2, <2>2 DEF FlightInv, Exclusive, InFlight
  <2>3. QED BY <2>1, <2>2
<1>4. QED BY <1>2, <1>3, FlightKeeps

\* Steps that leave every job alone.
LEMMA FlightStill ==
  ASSUME FlightInv, UNCHANGED job,
         \A r \in Run :
           \/ Stored(r)' => Stored(r) /\ (runs[r].status = "running" => runs'[r].status = "running")
           \/ Unheld(r)
  PROVE  FlightInv'
<1>1. \A p \in Proc, r \in Run : /\ job'[p][r].pc \notin {"retrying", "acking"}
                                 /\ InFlight(p, r)' => InFlight(p, r)
  BY DEF FlightInv, InFlight
<1>2. \A r \in Run : Unheld(r) => \A p \in Proc : ~InFlight(p, r)'
  BY <1>1 DEF Unheld
<1>3. QED BY <1>1, <1>2, FlightKeeps

LEMMA FlightSame ==
  ASSUME FlightInv, UNCHANGED <<job, runs>>
  PROVE  FlightInv' /\ CancelledKept
BY FlightStill DEF Stored, CancelledKept

\* A row that is inserted was not there, and nobody has it in hand.
LEMMA InsertKeeps ==
  ASSUME TypeOK, ChainInv, NEW r \in Run, NEW row \in Row,
         r[4] = revived[r[2]], runs' = Insert(r, row)
  PROVE  /\ \A s \in Run : runs[s].status # "absent" => runs'[s] = runs[s]
         /\ \A s \in Run :
              runs'[s] = runs[s] \/ (s = r /\ Unheld(s) /\ \A p \in Proc : job[p][s].pc = "idle")
<1>1. runs' = runs \/ (runs' = [runs EXCEPT ![r] = row] /\ Live(r[2]) /\ ~Stored(r))
  BY DEF Insert
<1>2. CASE runs' = runs BY <1>2
<1>3. CASE runs' = [runs EXCEPT ![r] = row] /\ Live(r[2]) /\ ~Stored(r)
  <2>1. Unheld(r) /\ \A p \in Proc : job[p][r].pc = "idle" BY <1>3, FreshIsFree DEF Present
  <2>2. \A s \in Run : s # r => runs'[s] = runs[s] BY <1>3 DEF TypeOK
  <2>3. runs[r].status = "absent" BY <1>3 DEF Stored
  <2>4. QED BY <2>1, <2>2, <2>3
<1>4. QED BY <1>1, <1>2, <1>3

\* What Put puts.
LEMMA PutAt ==
  ASSUME job \in [Proc -> [Run -> Job]], NEW p \in Proc, NEW r \in Run, NEW j
  PROVE  Put(p, r, j)[p][r] = j
BY DEF Put

LEMMA FlightExecute ==
  ASSUME TypeOK, ChainInv, FlightInv, NEW p \in Proc, NEW r \in Run, Execute(p, r)
  PROVE  FlightInv' /\ CancelledKept
<1>0. /\ job[p][r] \in Job /\ job[p][r].row \in Row
      /\ NoJob \in Job /\ NoJob.pc = "idle"
  BY ConstantTypes DEF TypeOK, Job, NoJob
<1>1. CASE Begin(p, r)
  <2>1. PICK j : job' = Put(p, r, j) /\ j.pc \in {"handling", "saving"}
    BY <1>1 DEF Begin, events
  <2>2. TypeOK' BY <1>1, NextType DEF Next, Execute
  <2>3. j = job'[p][r] BY <2>1, PutAt DEF TypeOK
  <2>4. j \in Job BY <2>2, <2>3 DEF TypeOK
  <2>5. InFlight(p, r) /\ UNCHANGED <<runs, event>> BY <1>1 DEF Begin, InFlight, events
  <2>6. FlightInv' BY <2>1, <2>4, <2>5, FlightPut DEF Stored
  <2>7. QED BY <2>5, <2>6 DEF CancelledKept
<1>2. CASE Succeed(p, r) \/ Err(p, r)
  <2>1. PICK row \in Row : job' = Put(p, r, [job[p][r] EXCEPT !.pc = "saving", !.row = row])
    <3>1. [job[p][r].row EXCEPT !.status = "succeeded"] \in Row BY <1>0, RowUpdates DEF RowStatus
    <3>2. AfterError(job[p][r].row) \in Row BY <1>0, JobTypes
    <3>3. QED BY <1>2, <3>1, <3>2 DEF Succeed, Err, events
  <2>2. PICK j \in Job : job' = Put(p, r, j) /\ j.pc = "saving"
    <3>1. [job[p][r] EXCEPT !.pc = "saving", !.row = row] \in Job BY <1>0, JobUpdates DEF Phase
    <3>2. [job[p][r] EXCEPT !.pc = "saving", !.row = row].pc = "saving" BY <1>0, JobFields DEF Phase
    <3>3. QED BY <2>1, <3>1, <3>2
  <2>3. InFlight(p, r) /\ UNCHANGED <<runs, event>> BY <1>2 DEF Succeed, Err, InFlight, history, events
  <2>4. FlightInv' BY <2>2, <2>3, FlightPut DEF Stored
  <2>5. QED BY <2>3, <2>4 DEF CancelledKept
<1>3. CASE Save(p, r)
  <2>1. AfterSave(job[p][r]) \in Job /\ AfterSave(job[p][r]).pc \in {"following", "idle"}
    BY <1>0, JobTypes, JobFields DEF AfterSave, Phase
  <2>2. InFlight(p, r) /\ UNCHANGED event /\ job' = Put(p, r, AfterSave(job[p][r]))
    BY <1>3 DEF Save, InFlight, events
  <2>3. \A s \in Run : s # r \/ ~Writable(r) => runs'[s] = runs[s]
    BY <1>3 DEF Save, SaveRow, TypeOK, events
  <2>4. Stored(r) => runs[r].status = "running" BY <2>2 DEF FlightInv
  <2>5. FlightInv' BY <2>1, <2>2, <2>3, FlightPut DEF Stored
  <2>6. CancelledKept BY <2>3, <2>4 DEF CancelledKept, Stored
  <2>7. QED BY <2>5, <2>6
<1>4. CASE ScheduleNext(p, r)
  <2>1. /\ \A s \in Run : runs[s].status # "absent" => runs'[s] = runs[s]
        /\ \A s \in Run : runs'[s] = runs[s] \/ Unheld(s)
    <3>1. CASE UNCHANGED runs BY <3>1
    <3>2. CASE NextOf(r) \in Run /\ runs' = Insert(NextOf(r), PendingRow(job[p][r].row.max))
      <4>1. PendingRow(job[p][r].row.max) \in Row BY <1>0, ConstantTypes DEF Row
      <4>2. QED BY <3>2, <4>1, InsertKeeps, NextOfRun
    <3>3. QED BY <1>4, <3>1, <3>2 DEF ScheduleNext, events
  <2>2. job' = Put(p, r, NoJob) BY <1>4 DEF ScheduleNext
  <2>3. FlightInv' BY <1>0, <2>1, <2>2, FlightPut DEF Stored
  <2>4. QED BY <2>1, <2>3 DEF CancelledKept
<1>5. QED BY <1>1, <1>2, <1>3, <1>4 DEF Execute

\* A claim takes pending rows, which nobody has in flight.
LEMMA FlightClaim ==
  ASSUME TypeOK, ChainInv, FlightInv, NEW w \in Worker, Claim(w)
  PROVE  FlightInv' /\ CancelledKept
<1>1. PICK R \in SUBSET Due :
        /\ runs' = [r \in Run |-> IF r \in R THEN [runs[r] EXCEPT !.status = "running"] ELSE runs[r]]
        /\ job' = [job EXCEPT ![w] = [r \in Run |-> IF r \in R
                                                    THEN [NoJob EXCEPT !.pc = "claimed", !.row = runs[r]]
                                                    ELSE NoJob]]
  BY DEF Claim, events
<1>2. w \in Proc /\ UNCHANGED event BY DEF Claim, Proc, events
<1>3. /\ \A q \in Proc, s \in Run : q # w => job'[q][s] = job[q][s]
      /\ \A s \in Run : job'[w][s] = IF s \in R THEN [NoJob EXCEPT !.pc = "claimed", !.row = runs[s]] ELSE NoJob
  BY <1>1, <1>2 DEF TypeOK
<1>4. \A s \in Run : [NoJob EXCEPT !.pc = "claimed", !.row = runs[s]].pc = "claimed" BY DEF NoJob
<1>5. NoJob.pc = "idle" BY DEF NoJob
<1>6. \A s \in Run : /\ s \in R => runs[s].status = "pending" /\ runs'[s].status = "running"
                     /\ s \notin R => runs'[s] = runs[s]
  BY <1>1 DEF Due, TypeOK, Row
<1>7. \A s \in R, q \in Proc : ~InFlight(q, s)
  <2>1. ASSUME NEW s \in R, NEW q \in Proc, InFlight(q, s) PROVE FALSE
    <3>1. s \in Run /\ runs[s].status = "pending" BY <1>6 DEF Due
    <3>2. Stored(s) BY <3>1 DEF Stored
    <3>3. QED BY <2>1, <3>1, <3>2 DEF FlightInv
  <2>2. QED BY <2>1
<1>8. \A q \in Proc, s \in Run : InFlight(q, s)' => (q = w /\ s \in R) \/ (q # w /\ InFlight(q, s))
  BY <1>3, <1>4, <1>5 DEF InFlight
<1>9. FlightInv'
  <2>1. \A q \in Proc, s \in Run : job'[q][s].pc \notin {"retrying", "acking"}
    BY <1>3, <1>4, <1>5 DEF FlightInv
  <2>2. \A q \in Proc, s \in Run : InFlight(q, s)' /\ Stored(s)' => runs'[s].status = "running"
    BY <1>6, <1>8 DEF FlightInv, Stored
  <2>3. Exclusive' BY <1>7, <1>8 DEF FlightInv, Exclusive
  <2>4. QED BY <2>1, <2>2, <2>3 DEF FlightInv
<1>10. QED BY <1>6, <1>9 DEF CancelledKept

\* A test run is created where no row is, so that nobody has it in flight.
LEMMA TestCreates ==
  ASSUME TypeOK, ChainInv, NEW q \in Request, NEW m \in Match, NEW e \in Event, TestEvent(q, m, e)
  PROVE  \E r \in Run, j \in Job :
           /\ r[1] = m /\ r[2] = e /\ r[3] >= TestBase /\ r[4] = revived[e]
           /\ Live(e) /\ ~Stored(r) /\ ~Taken(r)
           /\ \A s \in Run : s[1] = m /\ s[2] = e /\ Stored(s) => r[3] > s[3]
           /\ \A p \in Proc : job[p][r].pc = "idle"
           /\ Unheld(r)
           /\ runs' = [runs EXCEPT ![r] = TestRow]
           /\ job' = Put(q, r, j) /\ j.pc = "claimed" /\ j.row = TestRow
           /\ UNCHANGED <<event, revived, editing, stored, todo, hits, reruns, quiet>>
<1>1. PICK n \in 1..MaxOccurrence :
        /\ IsTestOccurrence(m, e, n) /\ runs' = Insert(Fresh(m, e, n), TestRow)
        /\ job' = Put(q, Fresh(m, e, n), [NoJob EXCEPT !.pc = "claimed", !.row = TestRow])
  BY DEF TestEvent, events
<1>2. PICK r \in Run : r = Fresh(m, e, n) BY FreshOfRun
<1>3. r[1] = m /\ r[2] = e /\ r[3] = n /\ r[4] = revived[e] BY <1>2, FreshOfRun
<1>4. Live(e) /\ UNCHANGED <<event, revived, editing, stored, todo, hits, reruns, quiet>>
  BY DEF TestEvent, events, history
<1>5. n >= TestBase /\ \A s \in Run : s[1] = m /\ s[2] = e /\ Stored(s) => n > s[3]
  BY <1>1 DEF IsTestOccurrence
<1>6. ~Stored(r) /\ ~Taken(r)
  BY <1>3, <1>5, NextOfRun DEF Taken, SameKey, SameChain
<1>7. Unheld(r) /\ \A p \in Proc : job[p][r].pc = "idle"
  BY <1>3, <1>4, <1>6, FreshIsFree DEF Present
<1>8. runs' = [runs EXCEPT ![r] = TestRow] BY <1>1, <1>2, <1>3, <1>4, <1>6 DEF Insert
<1>9. PICK j \in Job : job' = Put(q, r, j) /\ j.pc = "claimed" /\ j.row = TestRow
  <2>1. NoJob \in Job /\ TestRow \in Row /\ "claimed" \in Phase BY ConstantTypes DEF Phase
  <2>2. [NoJob EXCEPT !.pc = "claimed", !.row = TestRow] \in Job BY <2>1, JobUpdates
  <2>3. /\ [NoJob EXCEPT !.pc = "claimed", !.row = TestRow].pc = "claimed"
        /\ [NoJob EXCEPT !.pc = "claimed", !.row = TestRow].row = TestRow
    BY <2>1, JobFields
  <2>4. QED BY <1>1, <1>2, <2>2, <2>3
<1>10. QED BY <1>3, <1>4, <1>5, <1>6, <1>7, <1>8, <1>9

LEMMA FlightTest ==
  ASSUME TypeOK, ChainInv, FlightInv, NEW q \in Request, NEW m \in Match, NEW e \in Event,
         TestEvent(q, m, e)
  PROVE  FlightInv' /\ CancelledKept
<1>1. PICK r \in Run, j \in Job :
        /\ ~Stored(r) /\ Unheld(r)
        /\ runs' = [runs EXCEPT ![r] = TestRow]
        /\ job' = Put(q, r, j) /\ j.pc = "claimed"
  BY TestCreates
<1>2. TestRow.status = "running" /\ q \in Proc BY DEF TestRow, NoRow, Proc
<1>3. /\ runs'[r].status = "running"
      /\ \A s \in Run : s # r => runs'[s] = runs[s]
  BY <1>1, <1>2 DEF TypeOK
<1>4. \A p \in Proc, s \in Run : job'[p][s] = IF p = q /\ s = r THEN j ELSE job[p][s]
  BY <1>1, <1>2, PutType DEF TypeOK
<1>5. \A p \in Proc, s \in Run :
        InFlight(p, s)' => (p = q /\ s = r) \/ (s # r /\ InFlight(p, s))
  BY <1>1, <1>4 DEF InFlight, Unheld
<1>6. FlightInv'
  <2>1. \A p \in Proc, s \in Run : job'[p][s].pc \notin {"retrying", "acking"}
    BY <1>1, <1>4 DEF FlightInv
  <2>2. \A p \in Proc, s \in Run : InFlight(p, s)' /\ Stored(s)' => runs'[s].status = "running"
    BY <1>3, <1>5 DEF FlightInv, Stored
  <2>3. Exclusive' BY <1>5 DEF FlightInv, Exclusive
  <2>4. QED BY <2>1, <2>2, <2>3 DEF FlightInv
<1>7. CancelledKept BY <1>1, <1>3 DEF CancelledKept, Stored
<1>8. QED BY <1>6, <1>7

LEMMA FlightRest ==
  ASSUME TypeOK, ChainInv, FlightInv,
         \/ \E m \in Match : ScheduleEvents(m) \/ PollerCrash(m)
         \/ \E m \in Match, e \in Event : ScheduleEvent(m, e)
         \/ \E q \in Request, r \in Run : Cancel(q, r)
         \/ \E e \in Event : EditRead(e) \/ EditSave(e) \/ DeleteEvent(e)
         \/ \E r \in Run : Elapse(r)
         \/ \E p \in Proc : Crash(p)
  PROVE  FlightInv' /\ CancelledKept
<1>1. CASE \E m \in Match : ScheduleEvents(m) \/ PollerCrash(m)
  <2>1. UNCHANGED <<runs, job>> BY <1>1 DEF ScheduleEvents, PollerCrash
  <2>2. QED BY <2>1, FlightSame
<1>2. CASE \E m \in Match, e \in Event : ScheduleEvent(m, e)
  <2>1. PICK m \in Match, e \in Event : ScheduleEvent(m, e) BY <1>2
  <2>2. Fresh(m, e, 1) \in Run /\ PendingRow(MaxAttempts) \in Row
    BY ConstantTypes, ConstantsAssumption, FreshOfRun, FirstOccurrence
  <2>3. /\ \A s \in Run : runs[s].status # "absent" => runs'[s] = runs[s]
        /\ \A s \in Run : runs'[s] = runs[s] \/ Unheld(s)
    BY <2>1, <2>2, InsertKeeps, FreshOfRun, FirstOccurrence DEF ScheduleEvent
  <2>4. UNCHANGED job BY <2>1 DEF ScheduleEvent
  <2>5. QED BY <2>3, <2>4, FlightStill DEF Stored, CancelledKept
<1>3. CASE \E q \in Request, r \in Run : Cancel(q, r)
  <2>1. PICK q \in Request, r \in Run : Cancel(q, r) BY <1>3
  <2>2. \A s \in Run : runs[s].status # "pending" => runs'[s] = runs[s]
    BY <2>1 DEF Cancel, CancelPendingAfter, events
  <2>3. UNCHANGED job BY <2>1 DEF Cancel
  <2>4. QED BY <2>2, <2>3, FlightStill DEF Stored, CancelledKept
<1>4. CASE \E e \in Event : EditRead(e) \/ EditSave(e)
  <2>1. UNCHANGED <<job, runs>> BY <1>4 DEF EditRead, EditSave
  <2>2. QED BY <2>1, FlightSame
<1>5. CASE \E e \in Event : DeleteEvent(e)
  <2>1. PICK e \in Event : DeleteEvent(e) BY <1>5
  <2>2. \A s \in Run : runs'[s] = IF s[2] = e THEN NoRow ELSE runs[s] BY <2>1 DEF DeleteEvent
  <2>3. UNCHANGED job BY <2>1 DEF DeleteEvent
  <2>4. NoRow.status = "absent" BY DEF NoRow
  <2>5. FlightInv' BY <2>2, <2>3, <2>4, FlightStill DEF Stored
  <2>6. CancelledKept BY <2>2, <2>4 DEF CancelledKept
  <2>7. QED BY <2>5, <2>6
<1>6. CASE \E r \in Run : Elapse(r)
  <2>1. PICK r \in Run : Elapse(r) BY <1>6
  <2>2. \A s \in Run : runs[s].status # "pending" => runs'[s] = runs[s] BY <2>1 DEF Elapse, TypeOK
  <2>3. UNCHANGED job /\ runs[r].status = "pending" BY <2>1 DEF Elapse
  <2>4. FlightInv' BY <2>2, <2>3, FlightStill DEF Stored
  <2>5. QED BY <2>2, <2>4 DEF CancelledKept
<1>7. CASE \E p \in Proc : Crash(p)
  <2>1. PICK p \in Proc : Crash(p) BY <1>7
  <2>2. \A q \in Proc, s \in Run : job'[q][s] = job[q][s] \/ job'[q][s] = NoJob BY <2>1 DEF Crash, TypeOK, events
  <2>3. NoJob.pc = "idle" /\ UNCHANGED runs BY <2>1 DEF Crash, NoJob
  <2>4. \A q \in Proc, s \in Run : /\ job'[q][s].pc \notin {"retrying", "acking"}
                                   /\ InFlight(q, s)' => InFlight(q, s)
    BY <2>2, <2>3 DEF FlightInv, InFlight
  <2>5. FlightInv' BY <2>3, <2>4, FlightKeeps DEF Stored
  <2>6. QED BY <2>3, <2>5 DEF CancelledKept
<1>8. QED BY <1>1, <1>2, <1>3, <1>4, <1>5, <1>6, <1>7

LEMMA NextFlight == Unassisted /\ TypeOK /\ ChainInv /\ FlightInv /\ [Next]_vars => FlightInv' /\ CancelledKept
<1> SUFFICES ASSUME Unassisted, TypeOK, ChainInv, FlightInv, [Next]_vars PROVE FlightInv' /\ CancelledKept
  OBVIOUS
<1>1. CASE UNCHANGED vars
  <2>1. UNCHANGED <<runs, job>> BY <1>1 DEF vars
  <2>2. QED BY <2>1, FlightSame
<1>2. CASE \E w \in Worker : Claim(w) BY <1>2, FlightClaim
<1>3. CASE \E p \in Proc, r \in Run : Execute(p, r) BY <1>3, FlightExecute
<1>4. CASE \E q \in Request : Serve(q)
  <2>1. PICK q \in Request : Serve(q) BY <1>4
  <2>2. q \in Proc BY DEF Proc
  <2>3. \A r \in Run : ~RetryRead(q, r) /\ ~RetrySave(q, r) /\ ~AckRead(q, r) /\ ~AckSave(q, r)
    BY <2>2 DEF Unassisted, FlightInv, RetryRead, RetrySave, AckRead, AckSave, events
  <2>4. CASE \E r \in Run : Cancel(q, r) BY <2>4, FlightRest
  <2>5. CASE \E m \in Match, e \in Event : TestEvent(q, m, e) BY <2>5, FlightTest
  <2>6. QED BY <2>1, <2>3, <2>4, <2>5 DEF Serve
<1>5. CASE \/ \E m \in Match : ScheduleEvents(m) \/ PollerCrash(m)
           \/ \E m \in Match, e \in Event : ScheduleEvent(m, e)
           \/ \E e \in Event : EditRead(e) \/ EditSave(e) \/ DeleteEvent(e)
           \/ \E r \in Run : Elapse(r)
           \/ \E p \in Proc : Crash(p)
  BY <1>5, FlightRest
<1>6. QED BY <1>1, <1>2, <1>3, <1>4, <1>5 DEF Next

LEMMA InitFlight == Init => FlightInv
BY DEF Init, FlightInv, Exclusive, InFlight, NoJob

\* The claim of Tick: with any number of workers, test runs, crashes, failed
\* writes, edits and deletions, no two processes execute a run at once, as long
\* as nobody retries or acknowledges one.
THEOREM ClaimIsExclusive ==
  ASSUME Unassisted
  PROVE  Spec => []Exclusive
<1>1. FlightInv => Exclusive BY DEF FlightInv
<1>2. TypeOK /\ ChainInv /\ FlightInv /\ [Next]_vars => FlightInv' BY NextFlight
<1>3. QED BY <1>1, <1>2, InitFlight, TypeCorrect, ChainInvariant, PTL DEF Spec

\* CancelPendingAfter: no outcome is written over a cancelled run, under the
\* same hypothesis.
THEOREM CancelledRunsStayCancelled ==
  ASSUME Unassisted
  PROVE  Spec => CancelledStaysCancelled
<1>1. TypeOK /\ ChainInv /\ FlightInv /\ [Next]_vars => FlightInv' BY NextFlight
<1>2. TypeOK /\ ChainInv /\ FlightInv /\ [Next]_vars
        => [\A r \in Run : runs[r].status = "cancelled" => runs'[r].status \in {"cancelled", "absent"}]_vars
  BY NextFlight DEF CancelledKept
<1>3. QED BY <1>1, <1>2, InitFlight, TypeCorrect, ChainInvariant, PTL DEF Spec, CancelledStaysCancelled

-----------------------------------------------------------------------------
(* A running row has an executor.  Without crashes, failed writes and        *)
(* acknowledgements, whoever takes a run writes an outcome over "running"    *)
(* before it lets go of it; Retry may race with the claim.                   *)

Undisturbed == "ack" \notin Allowed /\ "crash" \notin Allowed /\ "dberror" \notin Allowed

OwnedInv ==
  /\ \A p \in Proc, r \in Run : /\ job[p][r].pc # "acking"
                                /\ job[p][r].pc = "saving" => job[p][r].row.status # "running"
  /\ RunningIsOwned

\* A run that is running after the step has an executor, who did not let go of it.
LEMMA OwnedKeeps ==
  ASSUME OwnedInv,
         \A p \in Proc, r \in Run :
           /\ job'[p][r].pc # "acking"
           /\ job'[p][r].pc = "saving" => job'[p][r].row.status # "running"
           /\ InFlight(p, r) => InFlight(p, r)' \/ runs'[r].status # "running",
         \A r \in Run : runs'[r].status = "running" =>
           runs[r].status = "running" \/ \E p \in Proc : InFlight(p, r)'
  PROVE  OwnedInv'
BY DEF OwnedInv, RunningIsOwned

\* Process p holds j for run r from now on.
LEMMA OwnedPut ==
  ASSUME TypeOK, OwnedInv, NEW p \in Proc, NEW r \in Run, NEW j \in Job, job' = Put(p, r, j),
         j.pc # "acking", j.pc = "saving" => j.row.status # "running",
         j.pc \in {"claimed", "handling", "saving"} \/ ~InFlight(p, r) \/ runs'[r].status # "running",
         \A s \in Run : runs'[s].status = "running" =>
           runs[s].status = "running" \/ (s = r /\ j.pc \in {"claimed", "handling", "saving"})
  PROVE  OwnedInv'
<1>1. \A q \in Proc, s \in Run : job'[q][s] = IF q = p /\ s = r THEN j ELSE job[q][s]
  BY PutType DEF TypeOK
<1>2. \A q \in Proc, s \in Run :
        /\ job'[q][s].pc # "acking"
        /\ job'[q][s].pc = "saving" => job'[q][s].row.status # "running"
        /\ InFlight(q, s) => InFlight(q, s)' \/ runs'[s].status # "running"
  BY <1>1 DEF OwnedInv, InFlight
<1>3. j.pc \in {"claimed", "handling", "saving"} => InFlight(p, r)' BY <1>1 DEF InFlight
<1>4. QED BY <1>2, <1>3, OwnedKeeps

LEMMA OwnedStill ==
  ASSUME OwnedInv, UNCHANGED job, \A r \in Run : runs'[r].status = "running" => runs[r].status = "running"
  PROVE  OwnedInv'
<1>1. \A p \in Proc, r \in Run :
        /\ job'[p][r].pc # "acking"
        /\ job'[p][r].pc = "saving" => job'[p][r].row.status # "running"
        /\ InFlight(p, r) => InFlight(p, r)' \/ runs'[r].status # "running"
  BY DEF OwnedInv, InFlight
<1>2. QED BY <1>1, OwnedKeeps

\* An insert makes no row running but the one inserted.
LEMMA InsertRunning ==
  ASSUME TypeOK, NEW r \in Run, NEW row \in Row, runs' = Insert(r, row)
  PROVE  \A s \in Run : runs'[s] = runs[s] \/ (s = r /\ runs'[s] = row)
BY DEF TypeOK, Insert

LEMMA PendingStatus == \A max \in Nat : PendingRow(max).status = "pending"
BY DEF PendingRow, NoRow

LEMMA OwnedExecute ==
  ASSUME Undisturbed, TypeOK, ChainInv, OwnedInv, NEW p \in Proc, NEW r \in Run, Execute(p, r)
  PROVE  OwnedInv'
<1>0. /\ job[p][r] \in Job /\ job[p][r].row \in Row
      /\ NoJob \in Job /\ NoJob.pc = "idle"
  BY ConstantTypes DEF TypeOK, Job, NoJob
<1>1. CASE Begin(p, r)
  <2>1. PICK j : job' = Put(p, r, j) /\ (j.pc = "handling" \/ (j.pc = "saving" /\ j.row.status = "failed"))
    <3> DEFINE begun == [job[p][r].row EXCEPT !.attempt = @ + 1, !.status = "running"]
    <3> DEFINE failed == [begun EXCEPT !.status = "failed"]
    <3>1. job[p][r].row.attempt + 1 \in Nat BY <1>0 DEF Row
    <3>2. begun \in Row BY <1>0, <3>1, RowUpdates DEF RowStatus
    <3>3. failed.status = "failed" BY <3>2 DEF Row
    <3>4. \/ job' = Put(p, r, [pc |-> "handling", row |-> begun, ev |-> event[r[2]]])
          \/ job' = Put(p, r, [pc |-> "saving", row |-> failed, ev |-> NoConfig])
      BY <1>1 DEF Begin, events
    <3> HIDE DEF begun, failed
    <3>5. /\ [pc |-> "handling", row |-> begun, ev |-> event[r[2]]].pc = "handling"
          /\ [pc |-> "saving", row |-> failed, ev |-> NoConfig].pc = "saving"
          /\ [pc |-> "saving", row |-> failed, ev |-> NoConfig].row = failed
      OBVIOUS
    <3>6. CASE job' = Put(p, r, [pc |-> "handling", row |-> begun, ev |-> event[r[2]]])
      BY <3>5, <3>6
    <3>7. CASE job' = Put(p, r, [pc |-> "saving", row |-> failed, ev |-> NoConfig])
      <4>1. [pc |-> "saving", row |-> failed, ev |-> NoConfig].row.status = "failed" BY <3>3, <3>5
      <4>2. QED BY <3>5, <3>7, <4>1
    <3>8. QED BY <3>4, <3>6, <3>7
  <2>2. TypeOK' BY <1>1, NextType DEF Next, Execute
  <2>3. j = job'[p][r] BY <2>1, PutAt DEF TypeOK
  <2>4. j \in Job BY <2>2, <2>3 DEF TypeOK
  <2>5. UNCHANGED runs BY <1>1 DEF Begin, events
  <2>6. QED BY <2>1, <2>4, <2>5, OwnedPut
<1>2. CASE Succeed(p, r) \/ Err(p, r)
  <2>1. PICK row \in Row : /\ job' = Put(p, r, [job[p][r] EXCEPT !.pc = "saving", !.row = row])
                           /\ row.status # "running"
    <3>1. CASE Succeed(p, r)
      <4>1. [job[p][r].row EXCEPT !.status = "succeeded"] \in Row BY <1>0, RowUpdates DEF RowStatus
      <4>2. [job[p][r].row EXCEPT !.status = "succeeded"].status = "succeeded" BY <1>0 DEF Row
      <4>3. QED BY <3>1, <4>1, <4>2 DEF Succeed, events
    <3>2. CASE Err(p, r)
      <4>1. AfterError(job[p][r].row) \in Row BY <1>0, JobTypes
      <4>2. AfterError(job[p][r].row).status # "running" BY <1>0 DEF AfterError, Row
      <4>3. QED BY <3>2, <4>1, <4>2 DEF Err, events
    <3>3. QED BY <1>2, <3>1, <3>2
  <2>2. PICK j \in Job : job' = Put(p, r, j) /\ j.pc = "saving" /\ j.row.status # "running"
    <3>1. [job[p][r] EXCEPT !.pc = "saving", !.row = row] \in Job BY <1>0, JobUpdates DEF Phase
    <3>2. /\ [job[p][r] EXCEPT !.pc = "saving", !.row = row].pc = "saving"
          /\ [job[p][r] EXCEPT !.pc = "saving", !.row = row].row = row
      BY <1>0, JobFields DEF Phase
    <3>3. QED BY <2>1, <3>1, <3>2
  <2>3. UNCHANGED runs BY <1>2 DEF Succeed, Err, history, events
  <2>4. QED BY <2>2, <2>3, OwnedPut
<1>3. CASE Save(p, r)
  <2>1. AfterSave(job[p][r]) \in Job /\ AfterSave(job[p][r]).pc \in {"following", "idle"}
    BY <1>0, JobTypes, JobFields DEF AfterSave, Phase
  <2>2. job' = Put(p, r, AfterSave(job[p][r])) /\ runs' = SaveRow(r, job[p][r].row)
    BY <1>3 DEF Save, Undisturbed, events
  <2>3. job[p][r].row.status # "running" BY <1>3 DEF Save, OwnedInv, events
  <2>4. runs'[r].status # "running"
    <3>1. CASE Writable(r) BY <2>2, <2>3, <3>1 DEF SaveRow, TypeOK
    <3>2. CASE ~Writable(r)
      <4>1. ~Stored(r) BY <3>2 DEF ChainInv, Writable
      <4>2. QED BY <2>2, <3>2, <4>1 DEF SaveRow, Stored
    <3>3. QED BY <3>1, <3>2
  <2>5. \A s \in Run : s # r => runs'[s] = runs[s] BY <2>2 DEF SaveRow, TypeOK
  <2>6. QED BY <2>1, <2>2, <2>4, <2>5, OwnedPut
<1>4. CASE ScheduleNext(p, r)
  <2>1. \A s \in Run : runs'[s].status = "running" => runs[s].status = "running"
    <3>1. CASE UNCHANGED runs BY <3>1
    <3>2. CASE NextOf(r) \in Run /\ runs' = Insert(NextOf(r), PendingRow(job[p][r].row.max))
      <4>1. /\ PendingRow(job[p][r].row.max) \in Row
            /\ PendingRow(job[p][r].row.max).status = "pending"
        BY <1>0, ConstantTypes, PendingStatus DEF Row
      <4>2. QED BY <3>2, <4>1, InsertRunning
    <3>3. QED BY <1>4, <3>1, <3>2 DEF ScheduleNext, events
  <2>2. job' = Put(p, r, NoJob) /\ ~InFlight(p, r) BY <1>4 DEF ScheduleNext, InFlight, events
  <2>3. QED BY <1>0, <2>1, <2>2, OwnedPut
<1>5. QED BY <1>1, <1>2, <1>3, <1>4 DEF Execute

LEMMA OwnedClaim ==
  ASSUME TypeOK, OwnedInv, NEW w \in Worker, Claim(w)
  PROVE  OwnedInv'
<1>1. PICK R \in SUBSET Due :
        /\ runs' = [r \in Run |-> IF r \in R THEN [runs[r] EXCEPT !.status = "running"] ELSE runs[r]]
        /\ job' = [job EXCEPT ![w] = [r \in Run |-> IF r \in R
                                                    THEN [NoJob EXCEPT !.pc = "claimed", !.row = runs[r]]
                                                    ELSE NoJob]]
  BY DEF Claim, events
<1>2. w \in Proc /\ Idle(w) BY DEF Claim, Proc, events
<1>3. /\ \A q \in Proc, s \in Run : q # w => job'[q][s] = job[q][s]
      /\ \A s \in Run : job'[w][s] = IF s \in R THEN [NoJob EXCEPT !.pc = "claimed", !.row = runs[s]] ELSE NoJob
  BY <1>1, <1>2 DEF TypeOK
<1>4. \A s \in Run : [NoJob EXCEPT !.pc = "claimed", !.row = runs[s]].pc = "claimed" BY DEF NoJob
<1>5. NoJob.pc = "idle" BY DEF NoJob
<1>6. \A s \in Run : ~InFlight(w, s) BY <1>2, <1>5 DEF Idle, InFlight
<1>7. \A s \in Run : s \notin R => runs'[s] = runs[s] BY <1>1
<1>8. \A s \in Run : s \in R => InFlight(w, s)' BY <1>3, <1>4 DEF InFlight
<1>9. \A q \in Proc, s \in Run :
        /\ job'[q][s].pc # "acking"
        /\ job'[q][s].pc = "saving" => job'[q][s].row.status # "running"
        /\ InFlight(q, s) => InFlight(q, s)' \/ runs'[s].status # "running"
  BY <1>3, <1>4, <1>5, <1>6 DEF OwnedInv, InFlight
<1>10. QED BY <1>2, <1>7, <1>8, <1>9, OwnedKeeps

LEMMA OwnedServe ==
  ASSUME Undisturbed, TypeOK, ChainInv, OwnedInv, NEW q \in Request, Serve(q)
  PROVE  OwnedInv'
<1>0. q \in Proc /\ NoJob \in Job /\ NoJob.pc = "idle" BY ConstantTypes DEF Proc, NoJob
<1>1. ASSUME NEW r \in Run, RetryRead(q, r) PROVE OwnedInv'
  <2>1. runs[r] \in Row BY DEF TypeOK
  <2>2. [runs[r] EXCEPT !.status = "running", !.attempt = 0] \in Row BY <2>1, RowUpdates DEF RowStatus
  <2>3. PICK j \in Job : job' = Put(q, r, j) /\ j.pc = "retrying"
    <3>1. [NoJob EXCEPT !.pc = "retrying", !.row = [runs[r] EXCEPT !.status = "running", !.attempt = 0]] \in Job
      BY <1>0, <2>2, JobUpdates DEF Phase
    <3>2. [NoJob EXCEPT !.pc = "retrying",
                        !.row = [runs[r] EXCEPT !.status = "running", !.attempt = 0]].pc = "retrying"
      BY <1>0, <2>2, JobFields DEF Phase
    <3>3. QED BY <1>1, <3>1, <3>2 DEF RetryRead, events
  <2>4. UNCHANGED runs /\ ~InFlight(q, r) BY <1>0, <1>1 DEF RetryRead, Idle, InFlight, events
  <2>5. QED BY <1>0, <2>3, <2>4, OwnedPut
<1>2. ASSUME NEW r \in Run, RetrySave(q, r) PROVE OwnedInv'
  <2>1. job[q][r] \in Job /\ ~InFlight(q, r) BY <1>0, <1>2 DEF RetrySave, TypeOK, InFlight, events
  <2>2. CASE job' = Put(q, r, NoJob) /\ UNCHANGED runs BY <1>0, <2>1, <2>2, OwnedPut
  <2>3. CASE runs' = SaveRow(r, job[q][r].row) /\ job' = Put(q, r, [job[q][r] EXCEPT !.pc = "claimed"])
    <3>1. \A s \in Run : s # r => runs'[s] = runs[s] BY <2>3 DEF SaveRow, TypeOK
    <3>2. [job[q][r] EXCEPT !.pc = "claimed"] \in Job BY <2>1, JobUpdates DEF Phase
    <3>3. [job[q][r] EXCEPT !.pc = "claimed"].pc = "claimed" BY <2>1 DEF Job
    <3>4. PICK j \in Job : job' = Put(q, r, j) /\ j.pc = "claimed" BY <2>3, <3>2, <3>3
    <3>5. QED BY <1>0, <3>1, <3>4, OwnedPut
  <2>4. QED BY <1>2, <2>2, <2>3 DEF RetrySave, events
<1>3. ASSUME NEW r \in Run, Cancel(q, r) PROVE OwnedInv'
  <2>1. \A s \in Run : runs'[s] = runs[s] \/ runs'[s].status = "cancelled"
    BY <1>3 DEF Cancel, CancelPendingAfter, TypeOK, Row, events
  <2>2. UNCHANGED job BY <1>3 DEF Cancel, events
  <2>3. QED BY <2>1, <2>2, OwnedStill
<1>4. ASSUME NEW m \in Match, NEW e \in Event, TestEvent(q, m, e) PROVE OwnedInv'
  <2>1. PICK r \in Run, j \in Job :
          /\ runs' = [runs EXCEPT ![r] = TestRow]
          /\ job' = Put(q, r, j) /\ j.pc = "claimed"
    BY <1>4, TestCreates
  <2>2. \A s \in Run : runs'[s] = runs[s] \/ s = r BY <2>1 DEF TypeOK
  <2>3. QED BY <1>0, <2>1, <2>2, OwnedPut
<1>5. \A r \in Run : ~AckRead(q, r) /\ ~AckSave(q, r)
  BY <1>0 DEF Undisturbed, OwnedInv, AckRead, AckSave, events
<1>6. QED BY <1>1, <1>2, <1>3, <1>4, <1>5 DEF Serve

LEMMA OwnedRest ==
  ASSUME TypeOK, OwnedInv,
         \/ \E m \in Match : ScheduleEvents(m) \/ PollerCrash(m)
         \/ \E m \in Match, e \in Event : ScheduleEvent(m, e)
         \/ \E e \in Event : EditRead(e) \/ EditSave(e) \/ DeleteEvent(e)
         \/ \E r \in Run : Elapse(r)
  PROVE  OwnedInv'
<1>1. UNCHANGED job
  BY DEF ScheduleEvents, PollerCrash, ScheduleEvent, EditRead, EditSave, DeleteEvent, Elapse, events
<1>2. \A s \in Run : runs'[s].status = "running" => runs[s].status = "running"
  <2>1. CASE (\E m \in Match : ScheduleEvents(m) \/ PollerCrash(m)) \/ \E e \in Event : EditRead(e) \/ EditSave(e)
    BY <2>1 DEF ScheduleEvents, PollerCrash, EditRead, EditSave
  <2>2. CASE \E m \in Match, e \in Event : ScheduleEvent(m, e)
    <3>1. PICK m \in Match, e \in Event : ScheduleEvent(m, e) BY <2>2
    <3>2. /\ Fresh(m, e, 1) \in Run /\ PendingRow(MaxAttempts) \in Row
          /\ PendingRow(MaxAttempts).status = "pending"
      BY ConstantTypes, ConstantsAssumption, PendingStatus, FreshOfRun, FirstOccurrence
    <3>3. QED BY <3>1, <3>2, InsertRunning DEF ScheduleEvent, events
  <2>3. CASE \E e \in Event : DeleteEvent(e) BY <2>3 DEF DeleteEvent, NoRow
  <2>4. CASE \E r \in Run : Elapse(r)
    <3>1. PICK r \in Run : Elapse(r) BY <2>4
    <3>2. \A s \in Run : runs'[s].status = runs[s].status BY <3>1 DEF Elapse, TypeOK, Row, events
    <3>3. QED BY <3>2
  <2>5. QED BY <2>1, <2>2, <2>3, <2>4
<1>3. QED BY <1>1, <1>2, OwnedStill

LEMMA NextOwned == Undisturbed /\ TypeOK /\ ChainInv /\ OwnedInv /\ [Next]_vars => OwnedInv'
<1> SUFFICES ASSUME Undisturbed, TypeOK, ChainInv, OwnedInv, [Next]_vars PROVE OwnedInv'
  OBVIOUS
<1>1. CASE UNCHANGED vars BY <1>1, OwnedStill DEF vars
<1>2. CASE \E w \in Worker : Claim(w) BY <1>2, OwnedClaim
<1>3. CASE \E p \in Proc, r \in Run : Execute(p, r) BY <1>3, OwnedExecute
<1>4. CASE \E q \in Request : Serve(q) BY <1>4, OwnedServe
<1>5. CASE \/ \E m \in Match : ScheduleEvents(m) \/ PollerCrash(m)
           \/ \E m \in Match, e \in Event : ScheduleEvent(m, e)
           \/ \E e \in Event : EditRead(e) \/ EditSave(e) \/ DeleteEvent(e)
           \/ \E r \in Run : Elapse(r)
  BY <1>5, OwnedRest
<1>6. \A p \in Proc : ~Crash(p) BY DEF Undisturbed, Crash, events
<1>7. QED BY <1>1, <1>2, <1>3, <1>4, <1>5, <1>6 DEF Next

LEMMA InitOwned == Init => OwnedInv
BY DEF Init, OwnedInv, RunningIsOwned, NoJob, NoRow

\* execute's exit paths: without crashes, failed writes and acknowledgements a
\* running row has a process that will write its outcome, however Retry, Test
\* and the deletion of events race with the claims.
THEOREM RunningHasExecutor ==
  ASSUME Undisturbed
  PROVE  Spec => []RunningIsOwned
<1>1. OwnedInv => RunningIsOwned BY DEF OwnedInv
<1>2. TypeOK /\ ChainInv /\ OwnedInv /\ [Next]_vars => OwnedInv' BY NextOwned
<1>3. QED BY <1>1, <1>2, InitOwned, TypeCorrect, ChainInvariant, PTL DEF Spec

-----------------------------------------------------------------------------
(* No schedule is lost.  Whoever executes a run has the event as it is, and  *)
(* nothing is acknowledged: so it judges a repeat as the table would, and    *)
(* goes on to it once the success is written.                                *)

Unedited == Undisturbed /\ "edit" \notin Allowed

\* What is known of the job j that a process has for run r.
Informed(j, r) ==
  /\ j.pc # "acking" /\ (j.pc = "retrying" => j.row.status = "running")
  /\ j.row.acked = FALSE
  /\ j.pc \in {"handling", "saving", "following"} /\ Live(r[2]) => j.ev = event[r[2]]

Owed(r) ==
  /\ runs[r].status = "succeeded" /\ Live(r[2]) /\ NextOf(r) \in Run
  /\ Repeats(r, runs[r], event[r[2]]) /\ ~event[r[2]].until

\* Its next occurrence is there, whenever it was created.
HasNext(r) == \E s \in Run : Follows(r, s) /\ Stored(s)

NextInv ==
  /\ editing = {}
  /\ \A r \in Run : runs[r].acked = FALSE
  /\ \A p \in Proc, r \in Run : Informed(job[p][r], r)
  /\ NextIsScheduled

\* An event that is still there after a step is what it was.
Settled ==
  /\ UNCHANGED <<revived, editing>>
  /\ \A e \in Event : Live(e)' => Live(e) /\ event'[e] = event[e]

\* The next run stays, or its executor does, whatever else the step does.
LEMMA NextKeeps ==
  ASSUME NextInv, Settled,
         \A r \in Run : runs'[r].acked = FALSE /\ (Stored(r) /\ Live(r[2])' => Stored(r)'),
         \A p \in Proc, r \in Run : Informed(job[p][r], r) => Informed(job[p][r], r)',
         \A r \in Run : runs'[r].status = "succeeded" =>
           runs[r].status = "succeeded" \/ \E p \in Proc : job'[p][r].pc = "following",
         \A p \in Proc, r \in Run : job[p][r].pc = "following" /\ Owed(r) =>
           job'[p][r].pc = "following" \/ HasNext(r)'
  PROVE  NextInv'
<1>1. \A r \in Run : r[2] \in Event BY NextOfRun
<1>a. \A r \in Run : NextOf(r)' = NextOf(r) BY DEF NextOf, Fresh, Settled
<1>2. \A r \in Run : Owed(r)' => Owed(r) \/ \E p \in Proc : job'[p][r].pc = "following"
  BY <1>1, <1>a DEF Owed, Repeats, Settled, NextInv
<1>3. \A r \in Run : Owed(r) => HasNext(r) \/ \E p \in Proc : job[p][r].pc = "following"
  BY DEF NextInv, NextIsScheduled, Owed, HasNext
<1>4. \A r \in Run : Owed(r)' /\ HasNext(r) => HasNext(r)'
  BY <1>1 DEF Owed, HasNext, Follows, SameChain
<1>5. \A r \in Run : Owed(r)' => HasNext(r)' \/ \E p \in Proc : job'[p][r].pc = "following"
  BY <1>2, <1>3, <1>4
<1>6. NextIsScheduled' BY <1>5 DEF NextIsScheduled, Owed, HasNext
<1>7. QED BY <1>6 DEF NextInv, Settled

\* Process p holds j for run r from now on.
LEMMA NextPut ==
  ASSUME TypeOK, NextInv, NEW p \in Proc, NEW r \in Run, NEW j \in Job, job' = Put(p, r, j),
         UNCHANGED events, Informed(j, r),
         \A s \in Run : runs'[s].acked = FALSE /\ (Stored(s) => Stored(s)'),
         \A s \in Run : runs'[s].status = "succeeded" =>
           runs[s].status = "succeeded" \/ (s = r /\ j.pc = "following"),
         job[p][r].pc = "following" /\ Owed(r) => HasNext(r)'
  PROVE  NextInv'
<1>1. \A q \in Proc, s \in Run : job'[q][s] = IF q = p /\ s = r THEN j ELSE job[q][s]
  BY PutType DEF TypeOK
<1>2. Settled /\ UNCHANGED event BY DEF Settled, Live, events
<1>3. \A q \in Proc, s \in Run : Informed(job[q][s], s) => Informed(job[q][s], s)'
  BY <1>1, <1>2 DEF Informed, Live
<1>4. \A s \in Run : runs'[s].status = "succeeded" =>
        runs[s].status = "succeeded" \/ \E q \in Proc : job'[q][s].pc = "following"
  BY <1>1
<1>5. \A q \in Proc, s \in Run : job[q][s].pc = "following" /\ Owed(s) =>
        job'[q][s].pc = "following" \/ HasNext(s)'
  BY <1>1
<1>6. QED BY <1>2, <1>3, <1>4, <1>5, NextKeeps

\* Steps that leave every job alone.
LEMMA NextStill ==
  ASSUME NextInv, Settled, UNCHANGED job,
         \A s \in Run : runs'[s].acked = FALSE /\ (Stored(s) /\ Live(s[2])' => Stored(s)'),
         \A s \in Run : runs'[s].status = "succeeded" => runs[s].status = "succeeded"
  PROVE  NextInv'
<1>1. \A s \in Run : s[2] \in Event BY NextOfRun
<1>2. \A q \in Proc, s \in Run : Informed(job[q][s], s) => Informed(job[q][s], s)'
  BY <1>1 DEF Informed, Settled
<1>3. QED BY <1>2, NextKeeps

\* The fields of the rows that are built from nothing or changed.
LEMMA UnackedRows ==
  /\ NoRow.acked = FALSE /\ TestRow.acked = FALSE /\ TestRow.status = "running"
  /\ NoRow.status = "absent"
  /\ \A max \in Nat : PendingRow(max).acked = FALSE
  /\ \A row \in Row : AfterError(row).acked = row.acked
  /\ \A row \in Row, s \in RowStatus : /\ [row EXCEPT !.status = s].acked = row.acked
                                       /\ [row EXCEPT !.status = s].status = s
BY DEF NoRow, TestRow, PendingRow, AfterError, Row

\* What an insert does to one row.
LEMMA InsertRow ==
  ASSUME TypeOK, NEW r \in Run, NEW row \in Row, runs' = Insert(r, row),
         row.acked = FALSE, row.status \notin {"absent", "succeeded"},
         \A s \in Run : runs[s].acked = FALSE
  PROVE  \A s \in Run : /\ runs'[s].acked = FALSE /\ (Stored(s) => Stored(s)')
                        /\ runs'[s].status = "succeeded" => runs[s].status = "succeeded"
BY InsertRunning DEF Stored

LEMMA NextExecute ==
  ASSUME Unedited, TypeOK, ChainInv, NextInv, NEW p \in Proc, NEW r \in Run, Execute(p, r)
  PROVE  NextInv'
<1>0. /\ job[p][r] \in Job /\ job[p][r].row \in Row /\ Informed(job[p][r], r)
      /\ NoJob \in Job /\ NoJob.pc = "idle" /\ NoJob.row = NoRow
      /\ \A s \in Run : runs[s].acked = FALSE
  BY ConstantTypes DEF TypeOK, Job, NoJob, NextInv
<1>1. Informed(NoJob, r) BY <1>0, UnackedRows DEF Informed
<1>2. CASE Begin(p, r)
  <2> DEFINE begun == [job[p][r].row EXCEPT !.attempt = @ + 1, !.status = "running"]
  <2> DEFINE failed == [begun EXCEPT !.status = "failed"]
  <2> DEFINE good == [pc |-> "handling", row |-> begun, ev |-> event[r[2]]]
  <2> DEFINE bad == [pc |-> "saving", row |-> failed, ev |-> NoConfig]
  <2>1. job[p][r].row.attempt + 1 \in Nat BY <1>0 DEF Row
  <2>2. begun \in Row BY <1>0, <2>1, RowUpdates DEF RowStatus
  <2>3. begun.acked = FALSE BY <1>0 DEF Informed, Row
  <2>4. failed.acked = FALSE BY <2>2, <2>3, UnackedRows DEF RowStatus
  <2>5. job' = Put(p, r, good) \/ (~Live(r[2]) /\ job' = Put(p, r, bad))
    BY <1>2 DEF Begin, Unedited, Undisturbed, events
  <2> HIDE DEF begun, failed
  <2>6. good.pc = "handling" /\ good.row = begun /\ good.ev = event[r[2]] OBVIOUS
  <2>7. bad.pc = "saving" /\ bad.row = failed OBVIOUS
  <2> HIDE DEF good, bad
  <2>8. Informed(good, r) BY <2>3, <2>6 DEF Informed
  <2>9. ~Live(r[2]) => Informed(bad, r) BY <2>4, <2>7 DEF Informed
  <2>10. PICK j : job' = Put(p, r, j) /\ Informed(j, r) /\ j.pc # "following" BY <2>5, <2>6, <2>7, <2>8, <2>9
  <2>11. TypeOK' BY <1>2, NextType DEF Next, Execute
  <2>12. j = job'[p][r] BY <2>10, PutAt DEF TypeOK
  <2>13. j \in Job BY <2>11, <2>12 DEF TypeOK
  <2>14. job[p][r].pc = "claimed" /\ UNCHANGED <<runs, events>> BY <1>2 DEF Begin, events
  <2>15. QED BY <1>0, <2>10, <2>13, <2>14, NextPut DEF Stored
<1>3. CASE Succeed(p, r) \/ Err(p, r)
  <2>1. PICK row \in Row : /\ job' = Put(p, r, [job[p][r] EXCEPT !.pc = "saving", !.row = row])
                           /\ row.acked = FALSE
    <3>1. CASE Succeed(p, r)
      <4>1. [job[p][r].row EXCEPT !.status = "succeeded"] \in Row BY <1>0, RowUpdates DEF RowStatus
      <4>2. [job[p][r].row EXCEPT !.status = "succeeded"].acked = FALSE
        BY <1>0, UnackedRows DEF RowStatus, Informed
      <4>3. QED BY <3>1, <4>1, <4>2 DEF Succeed, events
    <3>2. CASE Err(p, r)
      <4>1. AfterError(job[p][r].row) \in Row BY <1>0, JobTypes
      <4>2. AfterError(job[p][r].row).acked = FALSE BY <1>0, UnackedRows DEF Informed
      <4>3. QED BY <3>2, <4>1, <4>2 DEF Err, events
    <3>3. QED BY <1>3, <3>1, <3>2
  <2>2. job[p][r].pc = "handling" /\ UNCHANGED <<runs, events>> BY <1>3 DEF Succeed, Err, history, events
  <2>3. PICK j \in Job : job' = Put(p, r, j) /\ Informed(j, r)
    <3>1. [job[p][r] EXCEPT !.pc = "saving", !.row = row] \in Job BY <1>0, JobUpdates DEF Phase
    <3>2. /\ [job[p][r] EXCEPT !.pc = "saving", !.row = row].pc = "saving"
          /\ [job[p][r] EXCEPT !.pc = "saving", !.row = row].row = row
          /\ [job[p][r] EXCEPT !.pc = "saving", !.row = row].ev = job[p][r].ev
      BY <1>0, JobFields DEF Phase
    <3>3. Informed([job[p][r] EXCEPT !.pc = "saving", !.row = row], r)
      BY <1>0, <2>1, <2>2, <3>2 DEF Informed
    <3>4. QED BY <2>1, <3>1, <3>3
  <2>4. QED BY <1>0, <2>2, <2>3, NextPut DEF Stored
<1>4. CASE Save(p, r)
  <2>1. /\ job[p][r].pc = "saving" /\ UNCHANGED events
        /\ runs' = SaveRow(r, job[p][r].row) /\ job' = Put(p, r, AfterSave(job[p][r]))
    BY <1>4 DEF Save, Unedited, Undisturbed, events
  <2>2. /\ AfterSave(job[p][r]) \in Job
        /\ AfterSave(job[p][r]).pc = IF job[p][r].row.status = "succeeded" THEN "following" ELSE "idle"
        /\ Informed(AfterSave(job[p][r]), r)
    <3>1. AfterSave(job[p][r]) \in Job BY <1>0, JobTypes
    <3>2. CASE job[p][r].row.status = "succeeded"
      <4>1. AfterSave(job[p][r]) = [job[p][r] EXCEPT !.pc = "following"] BY <3>2 DEF AfterSave
      <4>2. /\ [job[p][r] EXCEPT !.pc = "following"].pc = "following"
            /\ [job[p][r] EXCEPT !.pc = "following"].row = job[p][r].row
            /\ [job[p][r] EXCEPT !.pc = "following"].ev = job[p][r].ev
        BY <1>0 DEF Job
      <4>3. QED BY <1>0, <2>1, <3>1, <3>2, <4>1, <4>2 DEF Informed
    <3>3. CASE job[p][r].row.status # "succeeded" BY <1>0, <1>1, <3>3 DEF AfterSave
    <3>4. QED BY <3>1, <3>2, <3>3
  <2>3. \A s \in Run : runs'[s] = runs[s] \/ (s = r /\ runs'[s] = job[p][r].row)
    BY <2>1 DEF SaveRow, TypeOK
  <2>4. job[p][r].row.status # "absent" BY <2>1 DEF ChainInv, HandOK
  <2>5. \A s \in Run : runs'[s].acked = FALSE /\ (Stored(s) => Stored(s)')
    BY <1>0, <2>3, <2>4 DEF Informed, Stored
  <2>6. \A s \in Run : runs'[s].status = "succeeded" =>
          runs[s].status = "succeeded" \/ (s = r /\ AfterSave(job[p][r]).pc = "following")
    BY <2>2, <2>3
  <2>7. QED BY <2>1, <2>2, <2>5, <2>6, NextPut
<1>5. CASE ScheduleNext(p, r)
  <2>1. job' = Put(p, r, NoJob) /\ UNCHANGED events /\ job[p][r].pc = "following" BY <1>5 DEF ScheduleNext, events
  <2>2. CASE NextOf(r) \in Run /\ runs' = Insert(NextOf(r), PendingRow(job[p][r].row.max))
    <3>1. /\ PendingRow(job[p][r].row.max) \in Row
          /\ PendingRow(job[p][r].row.max).status = "pending"
          /\ PendingRow(job[p][r].row.max).acked = FALSE
      BY <1>0, ConstantTypes, PendingStatus, UnackedRows DEF Row
    <3>2. \A s \in Run : /\ runs'[s].acked = FALSE /\ (Stored(s) => Stored(s)')
                         /\ runs'[s].status = "succeeded" => runs[s].status = "succeeded"
      BY <1>0, <2>2, <3>1, InsertRow
    <3>3. Live(r[2]) => HasNext(r)'
      <4>1. PICK n \in Run : n = NextOf(r) BY <2>2
      <4>2. Follows(r, n) /\ n[2] = r[2] BY <4>1, NextOfRun DEF Follows, SameChain
      <4>3. Taken(n) => HasNext(r)
        BY <4>2 DEF Taken, HasNext, Follows, SameKey, SameChain
      <4>4. HasNext(r) => HasNext(r)' BY <3>2 DEF HasNext
      <4>5. Live(r[2]) /\ ~Taken(n) => Stored(n)'
        BY <2>2, <3>1, <4>1, <4>2, KeysKept DEF Stored, Writable
      <4>6. QED BY <4>2, <4>3, <4>4, <4>5 DEF HasNext
    <3>4. QED BY <1>0, <1>1, <2>1, <3>2, <3>3, NextPut DEF Owed
  <2>3. CASE UNCHANGED runs /\ ~(Repeats(r, job[p][r].row, job[p][r].ev) /\ NextOf(r) \in Run /\ ~job[p][r].ev.until)
    <3>1. Live(r[2]) => job[p][r].ev = event[r[2]] BY <1>0, <2>1 DEF Informed
    <3>2. ~Owed(r) BY <1>0, <2>3, <3>1 DEF Owed, Repeats, Informed
    <3>3. QED BY <1>0, <1>1, <2>1, <2>3, <3>2, NextPut DEF Stored
  <2>4. QED BY <1>5, <2>2, <2>3 DEF ScheduleNext, Unedited, Undisturbed, events
<1>6. QED BY <1>2, <1>3, <1>4, <1>5 DEF Execute

LEMMA NextClaim ==
  ASSUME TypeOK, NextInv, NEW w \in Worker, Claim(w)
  PROVE  NextInv'
<1>1. PICK R \in SUBSET Due :
        /\ runs' = [r \in Run |-> IF r \in R THEN [runs[r] EXCEPT !.status = "running"] ELSE runs[r]]
        /\ job' = [job EXCEPT ![w] = [r \in Run |-> IF r \in R
                                                    THEN [NoJob EXCEPT !.pc = "claimed", !.row = runs[r]]
                                                    ELSE NoJob]]
  BY DEF Claim, events
<1>2. w \in Proc /\ Idle(w) /\ UNCHANGED events BY DEF Claim, Proc, events
<1>3. /\ \A q \in Proc, s \in Run : q # w => job'[q][s] = job[q][s]
      /\ \A s \in Run : job'[w][s] = IF s \in R THEN [NoJob EXCEPT !.pc = "claimed", !.row = runs[s]] ELSE NoJob
  BY <1>1, <1>2 DEF TypeOK
<1>4. \A s \in Run : /\ [NoJob EXCEPT !.pc = "claimed", !.row = runs[s]].pc = "claimed"
                     /\ [NoJob EXCEPT !.pc = "claimed", !.row = runs[s]].row = runs[s]
  BY DEF NoJob
<1>5. NoJob.pc = "idle" /\ NoJob.row.acked = FALSE BY UnackedRows DEF NoJob
<1>6. \A s \in Run : /\ runs'[s].acked = runs[s].acked
                     /\ runs'[s] = runs[s] \/ runs'[s].status = "running"
  BY <1>1 DEF TypeOK, Row
<1>7. \A s \in Run : job[w][s].pc = "idle" BY <1>2, <1>5 DEF Idle
<1>a. UNCHANGED event BY <1>2 DEF events
<1>8. \A q \in Proc, s \in Run : Informed(job[q][s], s) => Informed(job[q][s], s)'
  <2>1. \A s \in Run : Informed(job[w][s], s)'
    <3>1. SUFFICES ASSUME NEW s \in Run PROVE Informed(job[w][s], s)'
      OBVIOUS
    <3>2. runs[s].acked = FALSE BY DEF NextInv
    <3>3. CASE s \in R
      <4>1. job'[w][s].pc = "claimed" /\ job'[w][s].row = runs[s] BY <1>3, <1>4, <3>3
      <4>2. QED BY <3>2, <4>1 DEF Informed
    <3>4. CASE s \notin R
      <4>1. job'[w][s].pc = "idle" /\ job'[w][s].row.acked = FALSE BY <1>3, <1>5, <3>4
      <4>2. QED BY <4>1 DEF Informed
    <3>5. QED BY <3>3, <3>4
  <2>2. \A q \in Proc, s \in Run : q # w /\ Informed(job[q][s], s) => Informed(job[q][s], s)'
    BY <1>a, <1>3 DEF Informed, Live
  <2>3. QED BY <2>1, <2>2
<1>9. \A q \in Proc, s \in Run : job[q][s].pc = "following" => job'[q][s].pc = "following" BY <1>3, <1>7
<1>10. Settled BY <1>2 DEF Settled, Live, events
<1>11. \A s \in Run : runs'[s].acked = FALSE /\ (Stored(s) => Stored(s)') BY <1>6 DEF NextInv, Stored
<1>12. \A s \in Run : runs'[s].status = "succeeded" => runs[s].status = "succeeded" BY <1>6
<1>13. QED BY <1>8, <1>9, <1>10, <1>11, <1>12, NextKeeps

LEMMA NextServe ==
  ASSUME Unedited, TypeOK, ChainInv, NextInv, NEW q \in Request, Serve(q)
  PROVE  NextInv'
<1>0. /\ q \in Proc /\ NoJob \in Job /\ NoJob.pc = "idle" /\ NoJob.row = NoRow
      /\ \A s \in Run : runs[s].acked = FALSE
  BY ConstantTypes DEF Proc, NoJob, NextInv
<1>1. \A r \in Run : Informed(NoJob, r) BY <1>0, UnackedRows DEF Informed
<1>2. ASSUME NEW r \in Run, RetryRead(q, r) PROVE NextInv'
  <2> DEFINE taken == [runs[r] EXCEPT !.status = "running", !.attempt = 0]
  <2>1. runs[r] \in Row BY DEF TypeOK
  <2>2. taken \in Row BY <2>1, RowUpdates DEF RowStatus
  <2>3. taken.acked = FALSE /\ taken.status = "running" BY <1>0, <2>1 DEF Row
  <2>4. job' = Put(q, r, [NoJob EXCEPT !.pc = "retrying", !.row = taken]) BY <1>2 DEF RetryRead, events
  <2> HIDE DEF taken
  <2>5. [NoJob EXCEPT !.pc = "retrying", !.row = taken] \in Job BY <1>0, <2>2, JobUpdates DEF Phase
  <2>6. /\ [NoJob EXCEPT !.pc = "retrying", !.row = taken].pc = "retrying"
        /\ [NoJob EXCEPT !.pc = "retrying", !.row = taken].row = taken
    BY <1>0, <2>2, JobFields DEF Phase
  <2>7. PICK j \in Job : job' = Put(q, r, j) /\ j.pc = "retrying" /\ j.row = taken BY <2>4, <2>5, <2>6
  <2>8. Informed(j, r) BY <2>3, <2>7 DEF Informed
  <2>9. job[q][r].pc = "idle" /\ UNCHANGED <<runs, events>> BY <1>0, <1>2 DEF RetryRead, Idle, events
  <2>10. QED BY <1>0, <2>7, <2>8, <2>9, NextPut DEF Stored
<1>3. ASSUME NEW r \in Run, RetrySave(q, r) PROVE NextInv'
  <2>1. /\ job[q][r] \in Job /\ job[q][r].pc = "retrying" /\ UNCHANGED events
        /\ Informed(job[q][r], r) /\ job[q][r].row.status # "absent"
    BY <1>0, <1>3 DEF RetrySave, TypeOK, NextInv, ChainInv, HandOK, events
  <2>2. CASE job' = Put(q, r, NoJob) /\ UNCHANGED runs BY <1>0, <1>1, <2>1, <2>2, NextPut DEF Stored
  <2>3. CASE runs' = SaveRow(r, job[q][r].row) /\ job' = Put(q, r, [job[q][r] EXCEPT !.pc = "claimed"])
    <3>1. \A s \in Run : runs'[s] = runs[s] \/ (s = r /\ runs'[s] = job[q][r].row)
      BY <2>3 DEF SaveRow, TypeOK
    <3>2. [job[q][r] EXCEPT !.pc = "claimed"] \in Job BY <2>1, JobUpdates DEF Phase
    <3>3. /\ [job[q][r] EXCEPT !.pc = "claimed"].pc = "claimed"
          /\ [job[q][r] EXCEPT !.pc = "claimed"].row = job[q][r].row
      BY <2>1 DEF Job
    <3>4. PICK j \in Job : job' = Put(q, r, j) /\ j.pc = "claimed" /\ j.row = job[q][r].row
      BY <2>3, <3>2, <3>3
    <3>5. Informed(j, r) BY <2>1, <3>4 DEF Informed
    <3>6. job[q][r].row.status = "running" BY <2>1 DEF Informed
    <3>7. \A s \in Run : /\ runs'[s].acked = FALSE /\ (Stored(s) => Stored(s)')
                         /\ runs'[s].status = "succeeded" => runs[s].status = "succeeded"
      BY <1>0, <2>1, <3>1, <3>6 DEF Informed, Stored
    <3>8. QED BY <1>0, <2>1, <3>4, <3>5, <3>7, NextPut
  <2>4. QED BY <1>3, <2>2, <2>3 DEF RetrySave, events
<1>4. ASSUME NEW r \in Run, Cancel(q, r) PROVE NextInv'
  <2>1. \A s \in Run : runs'[s] = runs[s] \/ (runs'[s].status = "cancelled" /\ runs'[s].acked = runs[s].acked)
    BY <1>4 DEF Cancel, CancelPendingAfter, TypeOK, Row, events
  <2>2. UNCHANGED <<job, events>> BY <1>4 DEF Cancel, events
  <2>3. Settled BY <2>2 DEF Settled, Live, events
  <2>4. QED BY <1>0, <2>1, <2>2, <2>3, NextStill DEF Stored
<1>5. ASSUME NEW m \in Match, NEW e \in Event, TestEvent(q, m, e) PROVE NextInv'
  <2>1. TestRow \in Row BY ConstantTypes
  <2>2. PICK x \in Run, j \in Job :
          /\ ~Stored(x) /\ runs' = [runs EXCEPT ![x] = TestRow]
          /\ job' = Put(q, x, j) /\ j.pc = "claimed" /\ j.row = TestRow
    BY <1>5, TestCreates
  <2>5. Informed(j, x) BY <2>2, UnackedRows DEF Informed
  <2>7. \A s \in Run : /\ runs'[s].acked = FALSE /\ (Stored(s) => Stored(s)')
                       /\ runs'[s].status = "succeeded" => runs[s].status = "succeeded"
    BY <1>0, <2>1, <2>2, UnackedRows DEF TypeOK, Stored
  <2>8. job[q][x].pc = "idle" /\ UNCHANGED events BY <1>0, <1>5 DEF TestEvent, Idle, events
  <2>9. QED BY <1>0, <2>2, <2>5, <2>7, <2>8, NextPut
<1>6. \A r \in Run : ~AckRead(q, r) /\ ~AckSave(q, r)
  BY <1>0 DEF Unedited, Undisturbed, NextInv, Informed, AckRead, AckSave, events
<1>7. QED BY <1>2, <1>3, <1>4, <1>5, <1>6 DEF Serve

LEMMA NextRest ==
  ASSUME TypeOK, NextInv,
         \/ \E m \in Match : ScheduleEvents(m) \/ PollerCrash(m)
         \/ \E m \in Match, e \in Event : ScheduleEvent(m, e)
         \/ \E e \in Event : DeleteEvent(e)
         \/ \E r \in Run : Elapse(r)
  PROVE  NextInv'
<1>0. \A s \in Run : runs[s].acked = FALSE BY DEF NextInv
<1>1. CASE \E m \in Match : ScheduleEvents(m) \/ PollerCrash(m)
  <2>1. UNCHANGED <<runs, job, events>> BY <1>1 DEF ScheduleEvents, PollerCrash, events
  <2>2. Settled BY <2>1 DEF Settled, Live, events
  <2>3. QED BY <1>0, <2>1, <2>2, NextStill DEF Stored
<1>2. CASE \E m \in Match, e \in Event : ScheduleEvent(m, e)
  <2>1. PICK m \in Match, e \in Event : ScheduleEvent(m, e) BY <1>2
  <2>2. /\ Fresh(m, e, 1) \in Run /\ PendingRow(MaxAttempts) \in Row
        /\ PendingRow(MaxAttempts).status = "pending" /\ PendingRow(MaxAttempts).acked = FALSE
    BY ConstantTypes, ConstantsAssumption, PendingStatus, UnackedRows, FreshOfRun, FirstOccurrence
  <2>3. \A s \in Run : /\ runs'[s].acked = FALSE /\ (Stored(s) => Stored(s)')
                       /\ runs'[s].status = "succeeded" => runs[s].status = "succeeded"
    <3>1. CASE UNCHANGED runs BY <1>0, <3>1 DEF Stored
    <3>2. CASE runs' = Insert(Fresh(m, e, 1), PendingRow(MaxAttempts)) BY <1>0, <2>2, <3>2, InsertRow
    <3>3. QED BY <2>1, <3>1, <3>2 DEF ScheduleEvent, events
  <2>4. UNCHANGED <<job, events>> BY <2>1 DEF ScheduleEvent, events
  <2>5. Settled BY <2>4 DEF Settled, Live, events
  <2>6. QED BY <2>3, <2>4, <2>5, NextStill
<1>3. CASE \E e \in Event : DeleteEvent(e)
  <2>1. PICK e \in Event : DeleteEvent(e) BY <1>3
  <2>2. UNCHANGED <<job, revived, editing>> /\ \A x \in Event : Live(x)' => x # e /\ Live(x) /\ event'[x] = event[x]
    BY <2>1 DEF DeleteEvent, Live, TypeOK
  <2>3. \A s \in Run : runs'[s] = IF s[2] = e THEN NoRow ELSE runs[s] BY <2>1 DEF DeleteEvent
  <2>4. \A s \in Run : s[2] \in Event BY NextOfRun
  <2>5. \A s \in Run : /\ runs'[s].acked = FALSE /\ (Stored(s) /\ Live(s[2])' => Stored(s)')
                       /\ runs'[s].status = "succeeded" => runs[s].status = "succeeded"
    BY <1>0, <2>2, <2>3, <2>4, UnackedRows DEF Stored
  <2>6. Settled BY <2>2 DEF Settled
  <2>7. QED BY <2>2, <2>5, <2>6, NextStill
<1>4. CASE \E r \in Run : Elapse(r)
  <2>1. PICK r \in Run : Elapse(r) BY <1>4
  <2>2. \A s \in Run : runs'[s].status = runs[s].status /\ runs'[s].acked = runs[s].acked
    BY <2>1 DEF Elapse, TypeOK, Row, events
  <2>3. UNCHANGED <<job, events>> BY <2>1 DEF Elapse, events
  <2>4. Settled BY <2>3 DEF Settled, Live, events
  <2>5. QED BY <1>0, <2>2, <2>3, <2>4, NextStill DEF Stored
<1>5. QED BY <1>1, <1>2, <1>3, <1>4

LEMMA NextNext == Unedited /\ TypeOK /\ ChainInv /\ NextInv /\ [Next]_vars => NextInv'
<1> SUFFICES ASSUME Unedited, TypeOK, ChainInv, NextInv, [Next]_vars PROVE NextInv'
  OBVIOUS
<1>1. CASE UNCHANGED vars
  <2>1. UNCHANGED <<runs, job, events>> BY <1>1 DEF vars, events
  <2>2. Settled BY <2>1 DEF Settled, Live, events
  <2>3. QED BY <2>1, <2>2, NextStill DEF NextInv, Stored
<1>2. CASE \E w \in Worker : Claim(w) BY <1>2, NextClaim
<1>3. CASE \E p \in Proc, r \in Run : Execute(p, r) BY <1>3, NextExecute
<1>4. CASE \E q \in Request : Serve(q) BY <1>4, NextServe
<1>5. CASE \/ \E m \in Match : ScheduleEvents(m) \/ PollerCrash(m)
           \/ \E m \in Match, e \in Event : ScheduleEvent(m, e)
           \/ \E e \in Event : DeleteEvent(e)
           \/ \E r \in Run : Elapse(r)
  BY <1>5, NextRest
<1>6. (\A p \in Proc : ~Crash(p)) /\ \A e \in Event : ~EditRead(e) /\ ~EditSave(e)
  BY DEF Unedited, Undisturbed, NextInv, Crash, EditRead, EditSave
<1>7. QED BY <1>1, <1>2, <1>3, <1>4, <1>5, <1>6 DEF Next

LEMMA InitNext == Init => NextInv
<1> SUFFICES ASSUME Init PROVE NextInv
  OBVIOUS
<1>1. NoJob.pc = "idle" /\ NoJob.row = NoRow BY DEF NoJob
<1>2. QED BY <1>1, UnackedRows DEF Init, NextInv, Informed, NextIsScheduled

\* The comment of ScheduleEvents: a schedule is never lost.  However many
\* workers, cancellations, retries, tests and deletions there are, a success
\* that is to repeat has its next occurrence or a process about to write it, as
\* long as nothing crashes, is lost, acknowledged or edited.
THEOREM NextIsNeverLost ==
  ASSUME Unedited
  PROVE  Spec => []NextIsScheduled
<1>1. NextInv => NextIsScheduled BY DEF NextInv
<1>2. TypeOK /\ ChainInv /\ NextInv /\ [Next]_vars => NextInv' BY NextNext
<1>3. QED BY <1>1, <1>2, InitNext, TypeCorrect, ChainInvariant, PTL DEF Spec

-----------------------------------------------------------------------------
(* OncePerRequest by counting.  A run in the queue, and each process that     *)
(* holds it with a success still possible, is one success to come; a retry    *)
(* adds one and raises the budget by one, and nothing else adds any.          *)

Ready(j) == j.pc \in {"claimed", "handling"} \/ (j.pc = "saving" /\ j.row.status = "pending")

Hands(r) == {p \in Proc : Ready(job[p][r])}

One(b) == IF b THEN 1 ELSE 0

Queued(r) == One(runs[r].status = "pending")

\* No row has been there yet.
Unborn(r) == ~Stored(r) /\ (r[4] > revived[r[2]] \/ Present(r))

Budgeted(r) ==
  /\ hits[r] + Cardinality(Hands(r)) + Queued(r) <= 1 + reruns[r]
  /\ Unborn(r) => hits[r] = 0

BudgetInv ==
  /\ \A r \in Run : Budgeted(r)
  /\ \A p \in Proc, r \in Run : /\ job[p][r].pc # "acking"
                                /\ job[p][r].pc = "retrying" => job[p][r].row.status = "running"

LEMMA HandsFinite ==
  ASSUME IsFiniteSet(Proc), NEW r
  PROVE  IsFiniteSet(Hands(r)) /\ Cardinality(Hands(r)) \in Nat
<1>1. Hands(r) \subseteq Proc BY DEF Hands
<1>2. IsFiniteSet(Hands(r)) BY <1>1, FS_Subset
<1>3. QED BY <1>2, FS_CardinalityType

\* What Put does to the jobs, whatever it puts.
LEMMA PutAway ==
  ASSUME TypeOK, NEW p \in Proc, NEW r \in Run, NEW j, job' = Put(p, r, j)
  PROVE  /\ job'[p][r] = j
         /\ \A q \in Proc, s \in Run : q # p \/ s # r => job'[q][s] = job[q][s]
BY DEF TypeOK, Put

\* ... and to the number of hands.
LEMMA HandsPut ==
  ASSUME IsFiniteSet(Proc), TypeOK, NEW p \in Proc, NEW r \in Run, NEW j, job' = Put(p, r, j)
  PROVE  /\ \A s \in Run : s # r => Hands(s)' = Hands(s)
         /\ Cardinality(Hands(r))' + One(Ready(job[p][r])) = Cardinality(Hands(r)) + One(Ready(j))
<1>1. /\ job'[p][r] = j
      /\ \A q \in Proc, s \in Run : q # p \/ s # r => job'[q][s] = job[q][s]
  BY PutAway
<1>2. \A s \in Run : s # r => Hands(s)' = Hands(s) BY <1>1 DEF Hands, Ready
<1>3. IsFiniteSet(Hands(r)) /\ Cardinality(Hands(r)) \in Nat BY HandsFinite
<1>4. /\ Ready(j) => Hands(r)' = Hands(r) \cup {p}
      /\ ~Ready(j) => Hands(r)' = Hands(r) \ {p}
  BY <1>1 DEF Hands, Ready
<1>5. p \in Hands(r) <=> Ready(job[p][r]) BY DEF Hands
<1>6. /\ Cardinality(Hands(r) \cup {p}) =
           IF p \in Hands(r) THEN Cardinality(Hands(r)) ELSE Cardinality(Hands(r)) + 1
      /\ Cardinality(Hands(r) \ {p}) =
           IF p \in Hands(r) THEN Cardinality(Hands(r)) - 1 ELSE Cardinality(Hands(r))
  BY <1>3, FS_AddElement, FS_RemoveElement
<1>7. /\ Ready(j) => Cardinality(Hands(r))' = Cardinality(Hands(r) \cup {p})
      /\ ~Ready(j) => Cardinality(Hands(r))' = Cardinality(Hands(r) \ {p})
  BY <1>4
<1>8. /\ One(Ready(j)) = IF Ready(j) THEN 1 ELSE 0
      /\ One(Ready(job[p][r])) = IF p \in Hands(r) THEN 1 ELSE 0
  BY <1>5 DEF One
<1>9. Cardinality(Hands(r))' + One(Ready(job[p][r])) = Cardinality(Hands(r)) + One(Ready(j))
  BY <1>3, <1>6, <1>7, <1>8
<1>10. QED BY <1>2, <1>9

LEMMA HeldIsBorn ==
  ASSUME TypeOK, ChainInv, NEW p \in Proc, NEW r \in Run, job[p][r].pc # "idle"
  PROVE  ~Unborn(r)
<1>1. r[4] \in Nat /\ revived[r[2]] \in Nat
  BY NextOfRun, ConstantsAssumption DEF TypeOK, Age
<1>2. r[4] <= revived[r[2]] /\ (Present(r) => Stored(r)) BY DEF ChainInv, HandOK, Sound
<1>3. QED BY <1>1, <1>2 DEF Unborn

\* A step that leaves the events alone and keeps a row does not make it unborn.
LEMMA UnbornBefore ==
  ASSUME UNCHANGED <<event, revived>>, NEW r \in Run, Stored(r) => Stored(r)'
  PROVE  Unborn(r)' => Unborn(r)
BY DEF Unborn, Present, Live

\* Nor does an edit: an event that comes back is new to every run it had.
LEMMA UnbornEdit ==
  ASSUME TypeOK, NEW e \in Event, EditRead(e) \/ EditSave(e)
  PROVE  \A s \in Run : Unborn(s)' => Unborn(s)
<1>1. UNCHANGED runs BY DEF EditRead, EditSave
<1> SUFFICES ASSUME NEW s \in Run, Unborn(s)' PROVE Unborn(s)
  OBVIOUS
<1>2. CASE UNCHANGED <<event, revived>> BY <1>1, <1>2, UnbornBefore DEF Stored
<1>3. CASE /\ \E config \in Configs : event' = [event EXCEPT ![e] = config]
           /\ revived' = [revived EXCEPT ![e] = IF Live(e) THEN @ ELSE @ + 1]
  <2>1. ~Stored(s) BY <1>1 DEF Unborn, Stored
  <2>2. s[4] \in Nat /\ s[2] \in Event /\ revived[s[2]] \in Nat
    BY NextOfRun, ConstantsAssumption DEF TypeOK, Age
  <2>3. CASE s[2] # e
    <3>1. event'[s[2]] = event[s[2]] /\ revived'[s[2]] = revived[s[2]]
      BY <1>3, <2>2, <2>3 DEF TypeOK
    <3>2. QED BY <2>1, <3>1 DEF Unborn, Present, Live
  <2>4. CASE s[2] = e
    <3>1. revived'[s[2]] = IF Live(e) THEN revived[s[2]] ELSE revived[s[2]] + 1
      BY <1>3, <2>2, <2>4 DEF TypeOK
    <3>2. s[4] >= revived'[s[2]] BY <2>2, <3>1 DEF Unborn, Present
    <3>3. QED BY <2>1, <2>2, <2>4, <3>1, <3>2 DEF Unborn, Present
  <2>5. QED BY <2>3, <2>4
<1>4. QED BY <1>2, <1>3 DEF EditRead, EditSave

\* ... nor a deletion: what it takes was there.
LEMMA UnbornDelete ==
  ASSUME TypeOK, ChainInv, NEW e \in Event, DeleteEvent(e)
  PROVE  \A s \in Run : Unborn(s)' => Unborn(s)
<1> SUFFICES ASSUME NEW s \in Run, Unborn(s)' PROVE Unborn(s)
  OBVIOUS
<1>1. runs'[s] = (IF s[2] = e THEN NoRow ELSE runs[s]) /\ UNCHANGED revived BY DEF DeleteEvent
<1>2. s[4] \in Nat /\ s[2] \in Event /\ revived[s[2]] \in Nat
  BY NextOfRun, ConstantsAssumption DEF TypeOK, Age
<1>3. CASE s[2] # e
  <2>1. event'[s[2]] = event[s[2]] /\ runs'[s] = runs[s]
    BY <1>1, <1>2, <1>3 DEF TypeOK, DeleteEvent
  <2>2. QED BY <1>1, <2>1 DEF Unborn, Present, Live, Stored
<1>4. CASE s[2] = e
  <2>1. ~Live(e)' BY DEF DeleteEvent, Live, TypeOK
  <2>2. s[4] > revived[s[2]] BY <1>1, <1>4, <2>1 DEF Unborn, Present
  <2>3. ~Stored(s) BY <1>2, <2>2 DEF ChainInv, Sound
  <2>4. QED BY <2>2, <2>3 DEF Unborn
<1>5. QED BY <1>3, <1>4

\* A run nobody had yet is in nobody's hands.
LEMMA UnbornHands ==
  ASSUME TypeOK, ChainInv, NEW r \in Run, Unborn(r)
  PROVE  Hands(r) = {} /\ Cardinality(Hands(r)) = 0
<1>1. \A p \in Proc : job[p][r].pc = "idle" BY HeldIsBorn
<1>2. Hands(r) = {} BY <1>1 DEF Hands, Ready
<1>3. QED BY <1>2, FS_EmptySet

\* A run that is left alone, or queued for the first time, stays in its budget.
LEMMA BudgetApart ==
  ASSUME IsFiniteSet(Proc), TypeOK, ChainInv, NEW r \in Run, Budgeted(r),
         hits'[r] = hits[r], reruns'[r] = reruns[r],
         Cardinality(Hands(r))' \in Nat, Cardinality(Hands(r))' <= Cardinality(Hands(r)),
         Queued(r)' <= Queued(r) \/ Unborn(r), Unborn(r)' => Unborn(r)
  PROVE  Budgeted(r)'
<1>1. /\ hits[r] \in Nat /\ reruns[r] \in Nat /\ Queued(r) \in 0..1 /\ Queued(r)' \in 0..1
      /\ Cardinality(Hands(r)) \in Nat
  BY HandsFinite DEF TypeOK, Queued, One
<1>2. hits'[r] + Cardinality(Hands(r))' + Queued(r)' <= 1 + reruns'[r]
  <2>1. CASE Queued(r)' <= Queued(r) BY <1>1, <2>1 DEF Budgeted
  <2>2. CASE Unborn(r)
    <3>1. Cardinality(Hands(r)) = 0 /\ hits[r] = 0 BY <2>2, UnbornHands DEF Budgeted
    <3>2. QED BY <1>1, <3>1
  <2>3. QED BY <2>1, <2>2
<1>3. QED BY <1>2 DEF Budgeted

\* Steps that leave every job alone.
LEMMA BudgetStill ==
  ASSUME IsFiniteSet(Proc), TypeOK, ChainInv, BudgetInv, UNCHANGED <<job, hits, reruns>>,
         \A s \in Run : /\ Queued(s)' <= Queued(s) \/ Unborn(s)
                        /\ Unborn(s)' => Unborn(s)
  PROVE  BudgetInv'
<1>1. \A s \in Run : Hands(s)' = Hands(s) BY DEF Hands, Ready
<1>2. ASSUME NEW s \in Run PROVE Budgeted(s)'
  <2>1. Cardinality(Hands(s)) \in Nat BY HandsFinite
  <2>2. Cardinality(Hands(s))' = Cardinality(Hands(s)) BY <1>1
  <2>3. Budgeted(s) BY DEF BudgetInv
  <2>4. QED BY <2>1, <2>2, <2>3, BudgetApart
<1>3. QED BY <1>2 DEF BudgetInv

\* Process p goes from one phase with run r to another.
LEMMA BudgetPut ==
  ASSUME IsFiniteSet(Proc), TypeOK, TypeOK', ChainInv, BudgetInv,
         NEW p \in Proc, NEW r \in Run, NEW j, job' = Put(p, r, j),
         j.pc # "acking", j.pc = "retrying" => j.row.status = "running", UNCHANGED events,
         \A s \in Run : s # r => /\ hits'[s] = hits[s] /\ reruns'[s] = reruns[s]
                                 /\ Queued(s)' <= Queued(s) \/ Unborn(s),
         \A s \in Run : Stored(s) => Stored(s)',
         \/ hits'[r] + One(Ready(j)) + Queued(r)' + reruns[r]
              <= hits[r] + One(Ready(job[p][r])) + Queued(r) + reruns'[r]
         \/ Unborn(r) /\ hits'[r] = hits[r] /\ reruns'[r] = reruns[r] /\ Queued(r)' = 0,
         hits'[r] = hits[r] \/ ~Unborn(r)
  PROVE  BudgetInv'
<1>0. \A s \in Run : Unborn(s)' => Unborn(s) BY UnbornBefore DEF events
<1>1. /\ \A s \in Run : s # r => Hands(s)' = Hands(s)
      /\ Cardinality(Hands(r))' + One(Ready(job[p][r])) = Cardinality(Hands(r)) + One(Ready(j))
  BY HandsPut
<1>2. ASSUME NEW s \in Run, s # r PROVE Budgeted(s)'
  <2>1. Cardinality(Hands(s)) \in Nat BY HandsFinite
  <2>2. Cardinality(Hands(s))' = Cardinality(Hands(s)) BY <1>1, <1>2
  <2>3. Budgeted(s) BY DEF BudgetInv
  <2>4. QED BY <1>0, <1>2, <2>1, <2>2, <2>3, BudgetApart
<1>3. Budgeted(r)'
  <2>1. Budgeted(r) BY DEF BudgetInv
  <2>2. IsFiniteSet(Proc)' BY DEF Proc
  <2>3. Cardinality(Hands(r)) \in Nat BY HandsFinite
  <2>4. /\ hits[r] \in Nat /\ reruns[r] \in Nat /\ hits'[r] \in Nat /\ reruns'[r] \in Nat
        /\ Queued(r) \in 0..1 /\ Queued(r)' \in 0..1
        /\ One(Ready(j)) \in 0..1 /\ One(Ready(job[p][r])) \in 0..1
    BY DEF TypeOK, Queued, One
  <2>5. Cardinality(Hands(r))' \in Int
    <3>1. IsFiniteSet(Hands(r)')
      <4>1. Hands(r)' \subseteq Proc BY DEF Hands
      <4>2. QED BY <4>1, FS_Subset
    <3>2. Cardinality(Hands(r)') \in Nat BY <3>1, FS_CardinalityType
    <3>3. QED BY <3>2
  <2>6. hits'[r] + Cardinality(Hands(r))' + Queued(r)' <= 1 + reruns'[r]
    <3>1. CASE hits'[r] + One(Ready(j)) + Queued(r)' + reruns[r]
                 <= hits[r] + One(Ready(job[p][r])) + Queued(r) + reruns'[r]
      BY <1>1, <2>1, <2>3, <2>4, <2>5, <3>1 DEF Budgeted
    <3>2. CASE Unborn(r) /\ hits'[r] = hits[r] /\ reruns'[r] = reruns[r] /\ Queued(r)' = 0
      <4>1. Cardinality(Hands(r)) = 0 /\ hits[r] = 0 BY <2>1, <3>2, UnbornHands DEF Budgeted
      <4>2. QED BY <1>1, <2>4, <2>5, <3>2, <4>1
    <3>3. QED BY <3>1, <3>2
  <2>7. Unborn(r)' => Unborn(r) BY <1>0
  <2>8. QED BY <2>1, <2>6, <2>7 DEF Budgeted
<1>4. \A q \in Proc, s \in Run : /\ job'[q][s].pc # "acking"
                                 /\ job'[q][s].pc = "retrying" => job'[q][s].row.status = "running"
  BY PutAway DEF BudgetInv
<1>5. QED BY <1>2, <1>3, <1>4 DEF BudgetInv

LEMMA QueuedRange ==
  \A r \in Run : Queued(r) \in 0..1 /\ (Queued(r))' \in 0..1 /\ Queued(r) <= Queued(r)
BY DEF Queued, One

\* What an insert of a queued row does to the table.
LEMMA InsertQueued ==
  ASSUME TypeOK, NEW r \in Run, NEW row \in Row, runs' = Insert(r, row), row.status # "absent",
         r[4] = revived[r[2]]
  PROVE  \A s \in Run : /\ Stored(s) => Stored(s)'
                        /\ Queued(s)' <= Queued(s) \/ Unborn(s)
                        /\ s # r => runs'[s] = runs[s]
<1> SUFFICES ASSUME NEW s \in Run
             PROVE  /\ Stored(s) => Stored(s)'
                    /\ Queued(s)' <= Queued(s) \/ Unborn(s)
                    /\ s # r => runs'[s] = runs[s]
  OBVIOUS
<1>1. CASE runs'[s] = runs[s]
  <2>1. Queued(s)' = Queued(s) BY <1>1 DEF Queued
  <2>2. QED BY <1>1, <2>1, QueuedRange DEF Stored
<1>2. CASE runs'[s] # runs[s]
  <2>1. runs' = [runs EXCEPT ![r] = row] /\ Live(r[2]) /\ ~Stored(r) BY <1>2 DEF Insert
  <2>a. s = r /\ Unborn(s) /\ runs'[s] = row BY <1>2, <2>1 DEF TypeOK, Unborn, Present
  <2>2. QED BY <2>a DEF Stored
<1>3. QED BY <1>1, <1>2

LEMMA BudgetExecute ==
  ASSUME IsFiniteSet(Proc), TypeOK, TypeOK', ChainInv, BudgetInv, NEW p \in Proc, NEW r \in Run, Execute(p, r)
  PROVE  BudgetInv'
<1>0. /\ job[p][r] \in Job /\ job[p][r].row \in Row /\ NoJob.pc = "idle"
      /\ hits[r] \in Nat /\ reruns[r] \in Nat
      /\ Queued(r) \in 0..1 /\ \A s \in Run : Queued(s) <= Queued(s)
  <2>1. Queued(r) \in 0..1 /\ \A s \in Run : Queued(s) <= Queued(s) BY QueuedRange
  <2>2. QED BY <2>1 DEF TypeOK, Job, NoJob
<1>1. CASE Begin(p, r)
  <2>1. PICK j : job' = Put(p, r, j) /\ j.pc \in {"handling", "saving"}
    BY <1>1 DEF Begin, events
  <2>2. UNCHANGED <<runs, events, hits, reruns>> BY <1>1 DEF Begin, history
  <2>3. One(Ready(job[p][r])) = 1 /\ One(Ready(j)) \in 0..1 BY <1>1 DEF Begin, Ready, One, events
  <2>4. \A s \in Run : Queued(s)' = Queued(s) /\ (Stored(s) => Stored(s)')
    BY <2>2 DEF Queued, Stored
  <2>5. hits'[r] + One(Ready(j)) + Queued(r)' + reruns[r]
          <= hits[r] + One(Ready(job[p][r])) + Queued(r) + reruns'[r]
    BY <1>0, <2>2, <2>3, <2>4
  <2>6. QED BY <1>0, <2>1, <2>2, <2>4, <2>5, BudgetPut
<1>2. CASE Succeed(p, r)
  <2>1. job' = Put(p, r, [job[p][r] EXCEPT !.pc = "saving",
                                           !.row = [job[p][r].row EXCEPT !.status = "succeeded"]])
    BY <1>2 DEF Succeed, events
  <2>2. PICK j : job' = Put(p, r, j) /\ j.pc = "saving" /\ j.row.status = "succeeded"
    <3>1. PICK row \in Row : row = [job[p][r].row EXCEPT !.status = "succeeded"]
      BY <1>0, RowUpdates DEF RowStatus
    <3>2. row.status = "succeeded" BY <1>0, <3>1 DEF Row
    <3>3. /\ [job[p][r] EXCEPT !.pc = "saving", !.row = row].pc = "saving"
          /\ [job[p][r] EXCEPT !.pc = "saving", !.row = row].row = row
      BY <1>0, JobFields DEF Phase
    <3>4. QED BY <2>1, <3>1, <3>2, <3>3
  <2>3. /\ job[p][r].pc = "handling" /\ hits' = [hits EXCEPT ![r] = @ + 1]
        /\ UNCHANGED <<runs, events, reruns>>
    BY <1>2 DEF Succeed
  <2>4. One(Ready(job[p][r])) = 1 /\ One(Ready(j)) = 0 BY <2>2, <2>3 DEF Ready, One
  <2>5. hits'[r] = hits[r] + 1 /\ \A s \in Run : s # r => hits'[s] = hits[s]
    BY <2>3 DEF TypeOK
  <2>6. \A s \in Run : Queued(s)' = Queued(s) /\ (Stored(s) => Stored(s)')
    BY <2>3 DEF Queued, Stored
  <2>7. hits'[r] + One(Ready(j)) + Queued(r)' + reruns[r]
          <= hits[r] + One(Ready(job[p][r])) + Queued(r) + reruns'[r]
    BY <1>0, <2>3, <2>4, <2>5, <2>6
  <2>8. ~Unborn(r) BY <2>3, HeldIsBorn
  <2>9. QED BY <1>0, <2>2, <2>3, <2>5, <2>6, <2>7, <2>8, BudgetPut
<1>3. CASE Err(p, r)
  <2>1. PICK j : job' = Put(p, r, j) /\ j.pc = "saving"
    <3>1. PICK row \in Row : row = AfterError(job[p][r].row) BY <1>0, JobTypes
    <3>2. [job[p][r] EXCEPT !.pc = "saving", !.row = row].pc = "saving"
      BY <1>0, JobFields DEF Phase
    <3>3. QED BY <1>3, <3>1, <3>2 DEF Err, events
  <2>2. job[p][r].pc = "handling" /\ UNCHANGED <<runs, events, hits, reruns>>
    BY <1>3 DEF Err, history
  <2>3. One(Ready(job[p][r])) = 1 /\ One(Ready(j)) \in 0..1 BY <2>2 DEF Ready, One
  <2>4. \A s \in Run : Queued(s)' = Queued(s) /\ (Stored(s) => Stored(s)')
    BY <2>2 DEF Queued, Stored
  <2>5. hits'[r] + One(Ready(j)) + Queued(r)' + reruns[r]
          <= hits[r] + One(Ready(job[p][r])) + Queued(r) + reruns'[r]
    BY <1>0, <2>2, <2>3, <2>4
  <2>6. QED BY <1>0, <2>1, <2>2, <2>4, <2>5, BudgetPut
<1>4. CASE Save(p, r)
  <2>1. PICK j : job' = Put(p, r, j) /\ j.pc \in {"following", "idle"}
    <3>1. AfterSave(job[p][r]).pc \in {"following", "idle"}
      BY <1>0, JobFields DEF AfterSave, Phase
    <3>2. QED BY <1>4, <3>1 DEF Save, events
  <2>2. job[p][r].pc = "saving" /\ UNCHANGED <<events, hits, reruns>>
    BY <1>4 DEF Save, history
  <2>3. One(Ready(j)) = 0 /\ One(Ready(job[p][r])) = One(job[p][r].row.status = "pending")
    BY <2>1, <2>2 DEF Ready, One
  <2>4. /\ \A s \in Run : s # r => runs'[s] = runs[s]
        /\ runs'[r] = runs[r] \/ runs'[r] = job[p][r].row
    BY <1>4 DEF Save, SaveRow, TypeOK, events
  <2>5. \A s \in Run : s # r => Queued(s)' <= Queued(s)
    <3>1. \A s \in Run : s # r => Queued(s)' = Queued(s) BY <2>4 DEF Queued
    <3>2. QED BY <3>1, QueuedRange
  <2>6. Queued(r)' <= Queued(r) + One(job[p][r].row.status = "pending")
    <3>1. CASE runs'[r] = runs[r] BY <3>1 DEF Queued, One
    <3>2. CASE runs'[r] = job[p][r].row BY <3>2 DEF Queued, One
    <3>3. QED BY <2>4, <3>1, <3>2
  <2>7. \A s \in Run : Stored(s) => Stored(s)'
    <3>1. job[p][r].row.status # "absent" BY <2>2 DEF ChainInv, HandOK
    <3>2. QED BY <2>4, <3>1 DEF Stored
  <2>8. hits'[r] + One(Ready(j)) + Queued(r)' + reruns[r]
          <= hits[r] + One(Ready(job[p][r])) + Queued(r) + reruns'[r]
    <3>1. One(job[p][r].row.status = "pending") \in 0..1 BY DEF One
    <3>2. QED BY <1>0, <2>2, <2>3, <2>6, <3>1, QueuedRange
  <2>9. QED BY <2>1, <2>2, <2>5, <2>7, <2>8, BudgetPut
<1>5. CASE ScheduleNext(p, r)
  <2>1. \A s \in Run : /\ Stored(s) => Stored(s)'
                       /\ Queued(s)' <= Queued(s) \/ Unborn(s)
                       /\ s # NextOf(r) => runs'[s] = runs[s]
    <3>1. CASE UNCHANGED runs
      <4>1. \A s \in Run : Queued(s)' = Queued(s) BY <3>1 DEF Queued
      <4>2. QED BY <3>1, <4>1, QueuedRange DEF Stored
    <3>2. CASE NextOf(r) \in Run /\ runs' = Insert(NextOf(r), PendingRow(job[p][r].row.max))
      <4>1. /\ PendingRow(job[p][r].row.max) \in Row
            /\ PendingRow(job[p][r].row.max).status # "absent"
            /\ NextOf(r)[4] = revived[NextOf(r)[2]]
        BY <1>0, ConstantTypes, PendingStatus, NextOfRun DEF Row
      <4>2. QED BY <3>2, <4>1, InsertQueued
    <3>3. QED BY <1>5, <3>1, <3>2 DEF ScheduleNext, events
  <2>2. job' = Put(p, r, NoJob) /\ job[p][r].pc = "following" /\ UNCHANGED <<events, hits, reruns>>
    BY <1>5 DEF ScheduleNext, history
  <2>3. One(Ready(NoJob)) = 0 /\ One(Ready(job[p][r])) = 0 BY <1>0, <2>2 DEF Ready, One
  <2>4. r # NextOf(r) BY NextOfRun
  <2>5. Queued(r)' = Queued(r) BY <2>1, <2>4 DEF Queued
  <2>6. hits'[r] + One(Ready(NoJob)) + Queued(r)' + reruns[r]
          <= hits[r] + One(Ready(job[p][r])) + Queued(r) + reruns'[r]
    BY <1>0, <2>2, <2>3, <2>5
  <2>7. NoJob.pc # "acking" /\ NoJob.pc # "retrying" BY <1>0
  <2>8. QED BY <2>1, <2>2, <2>6, <2>7, BudgetPut
<1>6. QED BY <1>1, <1>2, <1>3, <1>4, <1>5 DEF Execute

LEMMA BudgetRetry ==
  ASSUME IsFiniteSet(Proc), TypeOK, TypeOK', ChainInv, BudgetInv, NEW q \in Request, NEW r \in Run,
         RetryRead(q, r) \/ RetrySave(q, r)
  PROVE  BudgetInv'
<1>0. /\ q \in Proc /\ NoJob \in Job /\ NoJob.pc = "idle" /\ runs[r] \in Row
      /\ hits[r] \in Nat /\ reruns[r] \in Nat /\ Queued(r) \in 0..1
      /\ \A s \in Run : Queued(s) <= Queued(s)
  <2>1. Queued(r) \in 0..1 /\ \A s \in Run : Queued(s) <= Queued(s) BY QueuedRange
  <2>2. QED BY <2>1, ConstantTypes DEF Proc, NoJob, TypeOK
<1>1. CASE RetryRead(q, r)
  <2>1. PICK taken \in Row : /\ taken = [runs[r] EXCEPT !.status = "running", !.attempt = 0]
                             /\ taken.status = "running"
    <3>1. [runs[r] EXCEPT !.status = "running", !.attempt = 0] \in Row
      BY <1>0, RowUpdates DEF RowStatus
    <3>2. [runs[r] EXCEPT !.status = "running", !.attempt = 0].status = "running" BY <1>0 DEF Row
    <3>3. QED BY <3>1, <3>2
  <2>2. PICK j : job' = Put(q, r, j) /\ j.pc = "retrying" /\ j.row.status = "running"
    <3>1. job' = Put(q, r, [NoJob EXCEPT !.pc = "retrying", !.row = taken])
      BY <1>1, <2>1 DEF RetryRead, events
    <3>2. /\ [NoJob EXCEPT !.pc = "retrying", !.row = taken].pc = "retrying"
          /\ [NoJob EXCEPT !.pc = "retrying", !.row = taken].row = taken
      BY <1>0, JobFields DEF Phase
    <3>3. QED BY <2>1, <3>1, <3>2
  <2>3. job[q][r].pc = "idle" /\ UNCHANGED <<runs, events, hits, reruns>>
    BY <1>0, <1>1 DEF RetryRead, Idle, history
  <2>4. One(Ready(j)) = 0 /\ One(Ready(job[q][r])) = 0 BY <2>2, <2>3 DEF Ready, One
  <2>5. \A s \in Run : Queued(s)' = Queued(s) /\ (Stored(s) => Stored(s)')
    BY <2>3 DEF Queued, Stored
  <2>6. hits'[r] + One(Ready(j)) + Queued(r)' + reruns[r]
          <= hits[r] + One(Ready(job[q][r])) + Queued(r) + reruns'[r]
    BY <1>0, <2>3, <2>4, <2>5
  <2>7. QED BY <1>0, <2>2, <2>3, <2>5, <2>6, BudgetPut
<1>2. CASE RetrySave(q, r)
  <2>1. /\ job[q][r].pc = "retrying" /\ job[q][r] \in Job /\ job[q][r].row.status = "running"
        /\ UNCHANGED <<events, hits>>
    BY <1>0, <1>2 DEF RetrySave, TypeOK, BudgetInv
  <2>2. One(Ready(job[q][r])) = 0 BY <2>1 DEF Ready, One
  <2>3. CASE job' = Put(q, r, NoJob) /\ UNCHANGED <<runs, reruns>>
    <3>1. One(Ready(NoJob)) = 0 BY <1>0 DEF Ready, One
    <3>2. \A s \in Run : Queued(s)' = Queued(s) /\ (Stored(s) => Stored(s)')
      BY <2>3 DEF Queued, Stored
    <3>3. hits'[r] + One(Ready(NoJob)) + Queued(r)' + reruns[r]
            <= hits[r] + One(Ready(job[q][r])) + Queued(r) + reruns'[r]
      BY <1>0, <2>1, <2>2, <2>3, <3>1, <3>2
    <3>4. NoJob.pc # "acking" /\ NoJob.pc # "retrying" BY <1>0
    <3>5. QED BY <1>0, <2>1, <2>3, <3>2, <3>3, <3>4, BudgetPut
  <2>4. CASE /\ runs' = SaveRow(r, job[q][r].row) /\ Writable(r)
             /\ job' = Put(q, r, [job[q][r] EXCEPT !.pc = "claimed"])
             /\ reruns' = [reruns EXCEPT ![r] = @ + 1]
    <3>1. PICK j : job' = Put(q, r, j) /\ j.pc = "claimed"
      <4>1. [job[q][r] EXCEPT !.pc = "claimed"].pc = "claimed" BY <2>1 DEF Job
      <4>2. QED BY <2>4, <4>1
    <3>2. One(Ready(j)) = 1 BY <3>1 DEF Ready, One
    <3>3. /\ \A s \in Run : s # r => runs'[s] = runs[s]
          /\ runs'[r].status = "running"
      BY <2>1, <2>4 DEF SaveRow, TypeOK
    <3>4. /\ \A s \in Run : s # r => Queued(s)' = Queued(s)
          /\ \A s \in Run : Stored(s) => Stored(s)'
          /\ Queued(r)' = 0
      BY <3>3 DEF Queued, Stored, One
    <3>5. reruns'[r] = reruns[r] + 1 /\ \A s \in Run : s # r => reruns'[s] = reruns[s]
      BY <2>4 DEF TypeOK
    <3>6. hits'[r] + One(Ready(j)) + Queued(r)' + reruns[r]
            <= hits[r] + One(Ready(job[q][r])) + Queued(r) + reruns'[r]
      BY <1>0, <2>1, <2>2, <3>2, <3>4, <3>5
    <3>7. QED BY <1>0, <2>1, <3>1, <3>4, <3>5, <3>6, BudgetPut
  <2>5. QED BY <1>2, <2>3, <2>4 DEF RetrySave, events
<1>3. QED BY <1>1, <1>2

LEMMA BudgetClaim ==
  ASSUME IsFiniteSet(Proc), TypeOK, TypeOK', ChainInv, BudgetInv, NEW w \in Worker, Claim(w)
  PROVE  BudgetInv'
<1>1. PICK R \in SUBSET Due :
        /\ runs' = [r \in Run |-> IF r \in R THEN [runs[r] EXCEPT !.status = "running"] ELSE runs[r]]
        /\ job' = [job EXCEPT ![w] = [r \in Run |-> IF r \in R
                                                    THEN [NoJob EXCEPT !.pc = "claimed", !.row = runs[r]]
                                                    ELSE NoJob]]
  BY DEF Claim, events
<1>2. w \in Proc /\ Idle(w) /\ UNCHANGED <<event, revived, hits, reruns>> BY DEF Claim, Proc, history, events
<1>3. /\ \A q \in Proc, s \in Run : q # w => job'[q][s] = job[q][s]
      /\ \A s \in Run : job'[w][s] = IF s \in R THEN [NoJob EXCEPT !.pc = "claimed", !.row = runs[s]] ELSE NoJob
  BY <1>1, <1>2 DEF TypeOK
<1>4. \A s \in Run : [NoJob EXCEPT !.pc = "claimed", !.row = runs[s]].pc = "claimed" BY DEF NoJob
<1>5. NoJob.pc = "idle" /\ \A s \in Run : job[w][s].pc = "idle" BY <1>2 DEF NoJob, Idle
<1>6. ASSUME NEW s \in Run PROVE Budgeted(s)'
  <2>1. Budgeted(s) /\ IsFiniteSet(Hands(s)) /\ Cardinality(Hands(s)) \in Nat /\ w \notin Hands(s)
    BY <1>5, HandsFinite DEF BudgetInv, Hands, Ready
  <2>2. Unborn(s)' => Unborn(s)
    <3>1. runs'[s] = IF s \in R THEN [runs[s] EXCEPT !.status = "running"] ELSE runs[s] BY <1>1
    <3>2. [runs[s] EXCEPT !.status = "running"].status = "running"
      <4>1. runs[s] \in Row BY DEF TypeOK
      <4>2. QED BY <4>1 DEF Row
    <3>3. runs'[s] = runs[s] \/ runs'[s].status = "running" BY <3>1, <3>2
    <3>4. QED BY <1>2, <3>3, UnbornBefore DEF Stored
  <2>3. hits[s] \in Nat /\ reruns[s] \in Nat BY DEF TypeOK
  <2>4. CASE s \in R
    <3>0. runs[s] \in Row BY DEF TypeOK
    <3>1. runs[s].status = "pending" /\ runs'[s].status = "running"
      <4>1. runs[s].status = "pending" BY <2>4 DEF Due
      <4>2. runs'[s] = [runs[s] EXCEPT !.status = "running"] BY <1>1, <2>4
      <4>3. [runs[s] EXCEPT !.status = "running"].status = "running" BY <3>0 DEF Row
      <4>4. QED BY <4>1, <4>2, <4>3
    <3>2. Queued(s) = 1 /\ Queued(s)' = 0 BY <3>1 DEF Queued, One
    <3>3. Hands(s)' = Hands(s) \cup {w}
      <4>1. job'[w][s].pc = "claimed" BY <1>3, <1>4, <2>4
      <4>2. \A q \in Proc : q # w => job'[q][s] = job[q][s] BY <1>3
      <4>3. QED BY <1>2, <4>1, <4>2 DEF Hands, Ready
    <3>4. Cardinality(Hands(s) \cup {w}) = Cardinality(Hands(s)) + 1 BY <2>1, FS_AddElement
    <3>5. Cardinality(Hands(s))' = Cardinality(Hands(s)) + 1 BY <3>3, <3>4
    <3>6. QED BY <1>2, <2>1, <2>2, <2>3, <3>2, <3>5 DEF Budgeted
  <2>5. CASE s \notin R
    <3>1. runs'[s] = runs[s] BY <1>1, <2>5
    <3>2. job'[w][s].pc = "idle" BY <1>3, <1>5, <2>5
    <3>3. Hands(s)' = Hands(s)
      <4>1. \A q \in Proc : q # w => job'[q][s] = job[q][s] BY <1>3
      <4>2. QED BY <1>5, <3>2, <4>1 DEF Hands, Ready
    <3>4. Queued(s)' = Queued(s) BY <3>1 DEF Queued
    <3>5. Cardinality(Hands(s))' = Cardinality(Hands(s)) BY <3>3
    <3>6. QED BY <1>2, <2>1, <2>2, <3>4, <3>5 DEF Budgeted
  <2>6. QED BY <2>4, <2>5
<1>7. \A s \in Run : job'[w][s].pc \in {"claimed", "idle"} BY <1>3, <1>4, <1>5
<1>8. \A q \in Proc, s \in Run : /\ job'[q][s].pc # "acking"
                                 /\ job'[q][s].pc = "retrying" => job'[q][s].row.status = "running"
  <2>1. \A s \in Run : job'[w][s].pc # "acking" /\ job'[w][s].pc # "retrying" BY <1>7
  <2>2. \A q \in Proc, s \in Run : q # w =>
          /\ job'[q][s].pc # "acking"
          /\ job'[q][s].pc = "retrying" => job'[q][s].row.status = "running"
    <3>1. ASSUME NEW q \in Proc, NEW s \in Run, q # w
          PROVE  /\ job'[q][s].pc # "acking"
                 /\ job'[q][s].pc = "retrying" => job'[q][s].row.status = "running"
      <4>1. job'[q][s] = job[q][s] BY <1>3, <3>1
      <4>2. /\ job[q][s].pc # "acking"
            /\ job[q][s].pc = "retrying" => job[q][s].row.status = "running"
        BY DEF BudgetInv
      <4>3. QED BY <4>1, <4>2
    <3>2. QED BY <3>1
  <2>3. QED BY <2>1, <2>2
<1>9. QED BY <1>6, <1>8 DEF BudgetInv

LEMMA BudgetTest ==
  ASSUME IsFiniteSet(Proc), TypeOK, TypeOK', ChainInv, BudgetInv,
         NEW q \in Request, NEW m \in Match, NEW e \in Event, TestEvent(q, m, e)
  PROVE  BudgetInv'
<1>1. PICK x \in Run, j \in Job :
        /\ x[2] = e /\ x[4] = revived[e] /\ Live(e) /\ ~Stored(x)
        /\ runs' = [runs EXCEPT ![x] = TestRow]
        /\ job' = Put(q, x, j) /\ j.pc = "claimed"
        /\ UNCHANGED <<events, hits, reruns>>
  BY TestCreates DEF events
<1>2. Unborn(x) /\ q \in Proc BY <1>1 DEF Unborn, Present, Proc
<1>3. TestRow \in Row /\ TestRow.status = "running" BY ConstantTypes, UnackedRows
<1>4. runs'[x] = TestRow /\ \A s \in Run : s # x => runs'[s] = runs[s] BY <1>1 DEF TypeOK
<1>5. /\ Queued(x)' = 0
      /\ \A s \in Run : s # x => Queued(s)' = Queued(s)
      /\ \A s \in Run : Stored(s) => Stored(s)'
  BY <1>3, <1>4 DEF Queued, One, Stored
<1>6. \A s \in Run : Queued(s) <= Queued(s) BY QueuedRange
<1>7. QED BY <1>1, <1>2, <1>5, <1>6, BudgetPut

LEMMA BudgetRest ==
  ASSUME IsFiniteSet(Proc), TypeOK, ChainInv, BudgetInv,
         \/ \E m \in Match : ScheduleEvents(m) \/ PollerCrash(m)
         \/ \E m \in Match, e \in Event : ScheduleEvent(m, e)
         \/ \E q \in Request, r \in Run : Cancel(q, r)
         \/ \E e \in Event : EditRead(e) \/ EditSave(e) \/ DeleteEvent(e)
         \/ \E r \in Run : Elapse(r)
  PROVE  BudgetInv'
<1>0. ASSUME UNCHANGED runs
      PROVE  \A s \in Run : Queued(s)' <= Queued(s) /\ (Stored(s) => Stored(s)')
  <2>1. \A s \in Run : Queued(s)' = Queued(s) BY <1>0 DEF Queued
  <2>2. QED BY <1>0, <2>1, QueuedRange DEF Stored
<1>1. CASE \E m \in Match : ScheduleEvents(m) \/ PollerCrash(m)
  <2>1. UNCHANGED <<runs, job, events, hits, reruns>> BY <1>1 DEF ScheduleEvents, PollerCrash, history
  <2>2. QED BY <1>0, <2>1, BudgetStill, UnbornBefore DEF events
<1>2. CASE \E m \in Match, e \in Event : ScheduleEvent(m, e)
  <2>1. PICK m \in Match, e \in Event : ScheduleEvent(m, e) BY <1>2
  <2>2. PICK x \in Run : x = Fresh(m, e, 1) /\ x[4] = revived[x[2]]
    BY FreshOfRun, FirstOccurrence
  <2>3. PendingRow(MaxAttempts) \in Row /\ PendingRow(MaxAttempts).status # "absent"
    BY ConstantTypes, ConstantsAssumption, PendingStatus
  <2>4. UNCHANGED <<job, events, hits, reruns>> BY <2>1 DEF ScheduleEvent, history
  <2>5. UNCHANGED runs \/ runs' = Insert(x, PendingRow(MaxAttempts)) BY <2>1, <2>2 DEF ScheduleEvent
  <2>6. \A s \in Run : (Queued(s)' <= Queued(s) \/ Unborn(s)) /\ (Stored(s) => Stored(s)')
    BY <1>0, <2>2, <2>3, <2>5, InsertQueued
  <2>7. QED BY <2>4, <2>6, BudgetStill, UnbornBefore DEF events
<1>3. CASE \E q \in Request, r \in Run : Cancel(q, r)
  <2>1. PICK q \in Request, r \in Run : Cancel(q, r) BY <1>3
  <2>2. \A s \in Run : runs'[s] = runs[s] \/ runs'[s].status = "cancelled"
    BY <2>1 DEF Cancel, CancelPendingAfter, TypeOK, Row, events
  <2>3. \A s \in Run : Queued(s)' = Queued(s) \/ Queued(s)' = 0 BY <2>2 DEF Queued, One
  <2>4. \A s \in Run : Queued(s)' <= Queued(s) BY <2>3, QueuedRange
  <2>5. \A s \in Run : Stored(s) => Stored(s)' BY <2>2 DEF Stored
  <2>6. UNCHANGED <<job, events, hits, reruns>> BY <2>1 DEF Cancel
  <2>7. QED BY <2>4, <2>5, <2>6, BudgetStill, UnbornBefore DEF events
<1>4. CASE \E e \in Event : EditRead(e) \/ EditSave(e)
  <2>1. UNCHANGED <<runs, job, hits, reruns>> BY <1>4 DEF EditRead, EditSave, history
  <2>2. QED BY <1>0, <1>4, <2>1, BudgetStill, UnbornEdit
<1>5. CASE \E e \in Event : DeleteEvent(e)
  <2>1. PICK e \in Event : DeleteEvent(e) BY <1>5
  <2>2. \A s \in Run : runs'[s] = IF s[2] = e THEN NoRow ELSE runs[s] BY <2>1 DEF DeleteEvent
  <2>3. UNCHANGED <<job, hits, reruns>> BY <2>1 DEF DeleteEvent
  <2>4. \A s \in Run : Queued(s)' = Queued(s) \/ Queued(s)' = 0
    BY <2>2, UnackedRows DEF Queued, One
  <2>5. \A s \in Run : Queued(s)' <= Queued(s) BY <2>4, QueuedRange
  <2>6. QED BY <2>1, <2>3, <2>5, BudgetStill, UnbornDelete
<1>6. CASE \E r \in Run : Elapse(r)
  <2>1. PICK r \in Run : Elapse(r) BY <1>6
  <2>2. \A s \in Run : runs'[s].status = runs[s].status BY <2>1 DEF Elapse, TypeOK, Row, events
  <2>3. \A s \in Run : Queued(s)' = Queued(s) /\ (Stored(s) => Stored(s)') BY <2>2 DEF Queued, Stored
  <2>4. \A s \in Run : Queued(s)' <= Queued(s) BY <2>3, QueuedRange
  <2>5. UNCHANGED <<job, events, hits, reruns>> BY <2>1 DEF Elapse, history
  <2>6. QED BY <2>3, <2>4, <2>5, BudgetStill, UnbornBefore DEF events
<1>7. QED BY <1>1, <1>2, <1>3, <1>4, <1>5, <1>6

LEMMA BudgetCrash ==
  ASSUME IsFiniteSet(Proc), TypeOK, ChainInv, BudgetInv, NEW p \in Proc, Crash(p)
  PROVE  BudgetInv'
<1>1. \A q \in Proc, s \in Run : job'[q][s] = job[q][s] \/ job'[q][s] = NoJob BY DEF Crash, TypeOK, events
<1>2. NoJob.pc = "idle" /\ UNCHANGED <<runs, event, revived, hits, reruns>> BY DEF Crash, NoJob, history, events
<1>3. ASSUME NEW s \in Run PROVE Budgeted(s)'
  <2>1. Hands(s)' \subseteq Hands(s) BY <1>1, <1>2 DEF Hands, Ready
  <2>2. IsFiniteSet(Hands(s)) /\ Cardinality(Hands(s)) \in Nat BY HandsFinite
  <2>3. IsFiniteSet(Hands(s)') /\ Cardinality(Hands(s)') <= Cardinality(Hands(s))
    BY <2>1, <2>2, FS_Subset
  <2>4. Cardinality(Hands(s)') \in Nat BY <2>3, FS_CardinalityType
  <2>5. Cardinality(Hands(s))' \in Nat /\ Cardinality(Hands(s))' <= Cardinality(Hands(s))
    BY <2>3, <2>4
  <2>6. Queued(s)' = Queued(s) BY <1>2 DEF Queued
  <2>7. Queued(s)' <= Queued(s) BY <2>6, QueuedRange
  <2>8. Budgeted(s) /\ (Unborn(s)' => Unborn(s))
    BY <1>2, UnbornBefore DEF BudgetInv, Stored
  <2>9. QED BY <1>2, <2>5, <2>7, <2>8, BudgetApart
<1>4. \A q \in Proc, s \in Run : /\ job'[q][s].pc # "acking"
                                 /\ job'[q][s].pc = "retrying" => job'[q][s].row.status = "running"
  BY <1>1, <1>2 DEF BudgetInv
<1>5. QED BY <1>3, <1>4 DEF BudgetInv

LEMMA NextBudget ==
  IsFiniteSet(Proc) /\ "ack" \notin Allowed /\ TypeOK /\ ChainInv /\ BudgetInv /\ [Next]_vars => BudgetInv'
<1> SUFFICES ASSUME IsFiniteSet(Proc), "ack" \notin Allowed, TypeOK, ChainInv, BudgetInv, [Next]_vars
             PROVE  BudgetInv'
  OBVIOUS
<1>0. TypeOK' BY NextType
<1>1. CASE UNCHANGED vars
  <2>1. UNCHANGED <<runs, job, events, hits, reruns>> BY <1>1 DEF vars, events
  <2>2. \A s \in Run : Queued(s)' = Queued(s) BY <2>1 DEF Queued
  <2>3. \A s \in Run : Queued(s)' <= Queued(s) BY <2>2, QueuedRange
  <2>4. QED BY <2>1, <2>3, BudgetStill, UnbornBefore DEF Stored, events
<1>2. CASE \E w \in Worker : Claim(w) BY <1>0, <1>2, BudgetClaim
<1>3. CASE \E p \in Proc, r \in Run : Execute(p, r) BY <1>0, <1>3, BudgetExecute
<1>4. CASE \E q \in Request : Serve(q)
  <2>1. PICK q \in Request : Serve(q) BY <1>4
  <2>2. q \in Proc BY DEF Proc
  <2>3. \A r \in Run : ~AckRead(q, r) /\ ~AckSave(q, r) BY <2>2 DEF BudgetInv, AckRead, AckSave, events
  <2>4. CASE \E r \in Run : RetryRead(q, r) \/ RetrySave(q, r) BY <1>0, <2>4, BudgetRetry
  <2>5. CASE \E r \in Run : Cancel(q, r) BY <2>5, BudgetRest
  <2>6. CASE \E m \in Match, e \in Event : TestEvent(q, m, e) BY <1>0, <2>6, BudgetTest
  <2>7. QED BY <2>1, <2>3, <2>4, <2>5, <2>6 DEF Serve
<1>5. CASE \/ \E m \in Match : ScheduleEvents(m) \/ PollerCrash(m)
           \/ \E m \in Match, e \in Event : ScheduleEvent(m, e)
           \/ \E e \in Event : EditRead(e) \/ EditSave(e) \/ DeleteEvent(e)
           \/ \E r \in Run : Elapse(r)
  BY <1>5, BudgetRest
<1>6. CASE \E p \in Proc : Crash(p) BY <1>6, BudgetCrash
<1>7. QED BY <1>1, <1>2, <1>3, <1>4, <1>5, <1>6 DEF Next

LEMMA InitBudget == IsFiniteSet(Proc) /\ Init => BudgetInv
<1> SUFFICES ASSUME IsFiniteSet(Proc), Init PROVE BudgetInv
  OBVIOUS
<1>1. NoJob.pc = "idle" /\ NoRow.status = "absent" BY UnackedRows DEF NoJob
<1>2. \A p \in Proc, r \in Run : job[p][r].pc = "idle" BY <1>1 DEF Init
<1>3. ASSUME NEW r \in Run PROVE Budgeted(r)
  <2>1. Hands(r) = {} BY <1>2 DEF Hands, Ready
  <2>2. Cardinality(Hands(r)) = 0 BY <2>1, FS_EmptySet
  <2>3. Queued(r) = 0 /\ hits[r] = 0 /\ reruns[r] = 0 BY <1>1 DEF Init, Queued, One
  <2>4. QED BY <2>2, <2>3 DEF Budgeted
<1>4. QED BY <1>2, <1>3 DEF BudgetInv

\* Retry against the claim of Tick: a run's handler succeeds at most once for
\* its schedule and once for each retry written, whatever crashes, writes that
\* fail, cancellations, edits, deletions and test runs there are, for any finite
\* number of processes, as long as nobody acknowledges a run.
THEOREM SentOncePerRequest ==
  ASSUME "ack" \notin Allowed, IsFiniteSet(Proc)
  PROVE  Spec => []OncePerRequest
<1>1. TypeOK /\ BudgetInv => OncePerRequest
  <2> SUFFICES ASSUME TypeOK, BudgetInv, NEW r \in Run PROVE hits[r] <= 1 + reruns[r]
    BY DEF OncePerRequest
  <2>1. Cardinality(Hands(r)) \in Nat BY HandsFinite
  <2>2. Queued(r) \in 0..1 BY QueuedRange
  <2>3. hits[r] \in Nat /\ reruns[r] \in Nat BY DEF TypeOK
  <2>4. Budgeted(r) BY DEF BudgetInv
  <2>5. QED BY <2>1, <2>2, <2>3, <2>4 DEF Budgeted
<1>2. Init => BudgetInv BY InitBudget
<1>3. TypeOK /\ ChainInv /\ BudgetInv /\ [Next]_vars => BudgetInv' BY NextBudget
<1>4. QED BY <1>1, <1>2, <1>3, TypeCorrect, ChainInvariant, PTL DEF Spec

-----------------------------------------------------------------------------
(* The queue implements RunLifecycle, as long as nobody retries or           *)
(* acknowledges.  A run that waits has had no effect; who holds it knows     *)
(* whether it had one.                                                       *)

Waiting(r) == runs[r].status = "pending" \/ Unborn(r)

\* A step that leaves the events alone and r's row too.
LEMMA WaitingSame ==
  ASSUME UNCHANGED <<event, revived>>, NEW r \in Run, UNCHANGED runs[r]
  PROVE  Waiting(r)' <=> Waiting(r)
BY DEF Waiting, Unborn, Stored, Present, Live

\* What the job j for a run says of its successes, which are h.
Told(j, h) ==
  /\ j.pc \in {"claimed", "handling"} => h = 0
  /\ j.pc = "saving" => \/ j.row.status = "succeeded" /\ h = 1
                        \/ j.row.status \in {"pending", "failed"} /\ h = 0
  /\ j.pc = "following" => h = 1

LifeInv ==
  /\ \A r \in Run : Waiting(r) => hits[r] = 0
  /\ \A p \in Proc, r \in Run : Told(job[p][r], hits[r])

Held(r) == \E p \in Proc : InFlight(p, r)

Shown(r) == IF ~Stored(r) /\ Held(r) THEN "orphaned" ELSE runs[r].status

LEMMA ShownStatus == lifeStatus = [r \in Run |-> Shown(r)]
BY DEF lifeStatus, Shown, Held

LEMMA ShownStatusNext == lifeStatus' = [r \in Run |-> Shown(r)']
BY DEF lifeStatus, Shown, Held

LEMMA LifeSame ==
  ASSUME \A x \in Run : Shown(x)' = Shown(x)
  PROVE  lifeStatus' = lifeStatus
BY ShownStatus, ShownStatusNext

LEMMA LifeBecomes ==
  ASSUME NEW r \in Run, NEW s, Shown(r)' = s, \A x \in Run : x # r => Shown(x)' = Shown(x)
  PROVE  Life!Become(r, s)
BY ShownStatus, ShownStatusNext DEF Life!Become

\* Runs that are stored, or that nobody holds, are as the table says.
LEMMA ShownIsStored ==
  ASSUME FlightInv, NEW r \in Run
  PROVE  /\ Stored(r) \/ ~Held(r) => Shown(r) = runs[r].status
         /\ ~Stored(r) /\ Held(r) => Shown(r) = "orphaned"
         /\ Held(r) => Shown(r) \in {"running", "orphaned"}
         /\ Held(r) /\ Stored(r) => runs[r].status = "running"
<1>1. Held(r) /\ Stored(r) => runs[r].status = "running" BY DEF Held, FlightInv
<1>2. QED BY <1>1 DEF Shown

\* Nobody who holds a run but one, who puts j in its place.
LEMMA LifePut ==
  ASSUME TypeOK, LifeInv, NEW p \in Proc, NEW r \in Run, NEW j, job' = Put(p, r, j),
         Told(j, hits'[r]), \A q \in Proc : q # p => Told(job[q][r], hits'[r]),
         \A s \in Run : s # r => hits'[s] = hits[s],
         \A s \in Run : Waiting(s)' => hits'[s] = 0
  PROVE  LifeInv'
<1>1. \A q \in Proc, s \in Run : job'[q][s] = IF q = p /\ s = r THEN j ELSE job[q][s]
  <2>1. job'[p][r] = j /\ \A q \in Proc, s \in Run : q # p \/ s # r => job'[q][s] = job[q][s]
    BY PutAway
  <2>2. QED BY <2>1
<1>2. ASSUME NEW q \in Proc, NEW s \in Run PROVE Told(job'[q][s], hits'[s])
  <2>1. CASE s = r /\ q = p BY <1>1, <2>1
  <2>2. CASE s = r /\ q # p
    <3>1. job'[q][s] = job[q][r] BY <1>1, <2>2
    <3>2. QED BY <2>2, <3>1
  <2>3. CASE s # r
    <3>1. job'[q][s] = job[q][s] /\ hits'[s] = hits[s] BY <1>1, <2>3
    <3>2. Told(job[q][s], hits[s]) BY DEF LifeInv
    <3>3. QED BY <3>1, <3>2
  <2>4. QED BY <2>1, <2>2, <2>3
<1>3. \A q \in Proc, s \in Run : Told(job[q][s], hits[s])' BY <1>2 DEF Told
<1>4. QED BY <1>3 DEF LifeInv

LEMMA LifeStill ==
  ASSUME LifeInv, UNCHANGED hits,
         \A p \in Proc, r \in Run : job'[p][r] = job[p][r] \/ job'[p][r].pc \in {"idle", "retrying", "acking"},
         \A s \in Run : Waiting(s)' => Waiting(s)
  PROVE  LifeInv'
<1>1. \A p \in Proc, r \in Run : Told(job[p][r], hits[r])' BY DEF LifeInv, Told
<1>2. QED BY <1>1 DEF LifeInv

Step == Life!Next \/ UNCHANGED Life!vars

\* The handler's turn, and what it makes of the row in hand.
LEMMA LifeHandle ==
  ASSUME TypeOK, ChainInv, FlightInv, LifeInv, NEW p \in Proc, NEW r \in Run,
         Begin(p, r) \/ Succeed(p, r) \/ Err(p, r)
  PROVE  LifeInv' /\ Step
<1>0. /\ job[p][r] \in Job /\ job[p][r].row \in Row /\ hits[r] \in Nat /\ r[2] \in Event
  BY NextOfRun DEF TypeOK, Job
<1>1. InFlight(p, r) /\ hits[r] = 0 /\ UNCHANGED <<runs, event, revived>>
  BY DEF Begin, Succeed, Err, InFlight, LifeInv, Told, history, events
<1>2. Held(r) BY <1>1 DEF Held
<1>3. ~Waiting(r)
  <2>1. ~Unborn(r) BY <1>1, HeldIsBorn DEF InFlight
  <2>2. QED BY <1>2, <2>1, ShownIsStored DEF Waiting, Stored
<1>4. PICK j : job' = Put(p, r, j) /\ j.pc \in {"handling", "saving"}
               /\ Told(j, hits'[r])
               /\ (hits' = hits \/ (hits' = [hits EXCEPT ![r] = 1]))
  <2>1. CASE Begin(p, r)
    <3>1. PICK j : job' = Put(p, r, j) /\ (j.pc = "handling" \/ (j.pc = "saving" /\ j.row.status = "failed"))
      <4>1. PICK b : /\ b = [job[p][r].row EXCEPT !.attempt = @ + 1, !.status = "running"]
                     /\ [b EXCEPT !.status = "failed"].status = "failed"
        BY <1>0 DEF Row
      <4>2. PICK f : f = [b EXCEPT !.status = "failed"] OBVIOUS
      <4>3. \/ job' = Put(p, r, [pc |-> "handling", row |-> b, ev |-> event[r[2]]])
            \/ job' = Put(p, r, [pc |-> "saving", row |-> f, ev |-> NoConfig])
        BY <2>1, <4>1, <4>2 DEF Begin, events
      <4>4. f.status = "failed" BY <4>1, <4>2
      <4>5. [pc |-> "handling", row |-> b, ev |-> event[r[2]]].pc = "handling" OBVIOUS
      <4>6. /\ [pc |-> "saving", row |-> f, ev |-> NoConfig].pc = "saving"
            /\ [pc |-> "saving", row |-> f, ev |-> NoConfig].row = f
        OBVIOUS
      <4>7. QED BY <4>3, <4>4, <4>5, <4>6
    <3>2. UNCHANGED hits BY <2>1 DEF Begin, history, events
    <3>3. QED BY <1>1, <3>1, <3>2 DEF Told
  <2>2. CASE Succeed(p, r)
    <3>1. PICK row : row = [job[p][r].row EXCEPT !.status = "succeeded"] OBVIOUS
    <3>2. row.status = "succeeded" BY <1>0, <3>1, UnackedRows DEF RowStatus
    <3>9. row \in Row BY <1>0, <3>1, RowUpdates DEF RowStatus
    <3>3. PICK j : j = [job[p][r] EXCEPT !.pc = "saving", !.row = row] OBVIOUS
    <3>4. j.pc = "saving" /\ j.row = row BY <1>0, <3>3, <3>9, JobFields DEF Phase
    <3>5. job' = Put(p, r, j) BY <2>2, <3>1, <3>3 DEF Succeed, events
    <3>6. hits' = [hits EXCEPT ![r] = 1] BY <1>1, <2>2 DEF Succeed, events
    <3>7. hits'[r] = 1 BY <3>6 DEF TypeOK
    <3>8. QED BY <3>2, <3>4, <3>5, <3>6, <3>7 DEF Told
  <2>3. CASE Err(p, r)
    <3>1. PICK row : row = AfterError(job[p][r].row) OBVIOUS
    <3>2. row.status \in {"pending", "failed"} BY <1>0, <3>1 DEF AfterError, Row
    <3>3. PICK j : j = [job[p][r] EXCEPT !.pc = "saving", !.row = row] OBVIOUS
    <3>4. j.pc = "saving" /\ j.row = row BY <1>0, <3>3 DEF Job
    <3>5. job' = Put(p, r, j) BY <2>3, <3>1, <3>3 DEF Err, events
    <3>6. UNCHANGED hits BY <2>3 DEF Err, history, events
    <3>7. QED BY <1>1, <3>2, <3>4, <3>5, <3>6 DEF Told
  <2>4. QED BY <2>1, <2>2, <2>3
<1>5. hits \in [Run -> Nat] BY DEF TypeOK
<1>6. \A s \in Run : s # r => hits'[s] = hits[s] BY <1>4, <1>5
<1>7. \A q \in Proc, s \in Run : job'[q][s] = IF q = p /\ s = r THEN j ELSE job[q][s]
  <2>1. job'[p][r] = j /\ \A q \in Proc, s \in Run : q # p \/ s # r => job'[q][s] = job[q][s]
    BY <1>4, PutAway
  <2>2. QED BY <2>1
<1>8. LifeInv'
  <2>1. ASSUME NEW q \in Proc, q # p PROVE Told(job[q][r], hits'[r])
    <3>1. ~InFlight(q, r) BY <1>1, <2>1 DEF FlightInv, Exclusive
    <3>2. Told(job[q][r], 0) BY <1>1 DEF LifeInv
    <3>3. job[q][r].pc # "following" BY <3>2 DEF Told
    <3>4. QED BY <3>1, <3>3 DEF Told, InFlight
  <2>2. \A s \in Run : Waiting(s)' => hits'[s] = 0
    <3>1. \A s \in Run : Waiting(s)' <=> Waiting(s) BY <1>1, WaitingSame
    <3>2. QED BY <1>3, <1>6, <3>1 DEF LifeInv
  <2>3. QED BY <1>4, <1>6, <2>1, <2>2, LifePut
<1>9. \A s \in Run : Shown(s)' = Shown(s)
  <2>1. \A q \in Proc, s \in Run : InFlight(q, s)' <=> InFlight(q, s) BY <1>1, <1>4, <1>7 DEF InFlight
  <2>2. \A s \in Run : Held(s)' <=> Held(s) BY <2>1 DEF Held
  <2>3. QED BY <1>1, <2>2 DEF Shown, Stored
<1>10. UNCHANGED lifeStatus BY <1>9, LifeSame
<1>11. CASE hits' = hits BY <1>8, <1>10, <1>11 DEF Step, Life!vars
<1>12. CASE hits' = [hits EXCEPT ![r] = 1]
  <2>1. Shown(r) \in {"running", "orphaned"} BY <1>2, ShownIsStored
  <2>2. lifeStatus[r] \in {"running", "orphaned"} BY <2>1, ShownStatus
  <2>3. Life!Send(r) BY <1>1, <1>10, <1>12, <2>2 DEF Life!Send
  <2>4. QED BY <1>8, <2>3 DEF Step, Life!Next
<1>13. QED BY <1>4, <1>11, <1>12

\* Runs that are in nobody's hand any more.
LEMMA LifeEnds ==
  ASSUME NEW R \in SUBSET Run, \A x \in R : Shown(x) = "orphaned" /\ Shown(x)' = "absent",
         \A x \in Run : x \notin R => Shown(x)' = Shown(x), UNCHANGED hits
  PROVE  Step
<1>1. R \in SUBSET {x \in Run : lifeStatus[x] = "orphaned"} BY ShownStatus
<1>2. lifeStatus' = [x \in Run |-> IF x \in R THEN "absent" ELSE lifeStatus[x]]
  BY ShownStatus, ShownStatusNext
<1>3. Life!End BY <1>1, <1>2 DEF Life!End
<1>4. QED BY <1>3 DEF Step, Life!Next

\* An outcome is written, or the write fails, or the event is gone.
LEMMA LifeSave ==
  ASSUME TypeOK, ChainInv, FlightInv, LifeInv, NEW p \in Proc, NEW r \in Run, Save(p, r)
  PROVE  LifeInv' /\ Step
<1>0. /\ job[p][r] \in Job /\ r[2] \in Event /\ NoJob.pc = "idle"
  BY NextOfRun DEF TypeOK, NoJob
<1>1. PICK row : row = job[p][r].row OBVIOUS
<1>2. PICK j : j = AfterSave(job[p][r]) OBVIOUS
<1>3. j.pc = "idle" \/ (j.pc = "following" /\ row.status = "succeeded")
  BY <1>0, <1>1, <1>2, JobFields DEF AfterSave, Phase
<1>4. /\ InFlight(p, r) /\ UNCHANGED <<event, revived, hits>> /\ job' = Put(p, r, j)
      /\ runs' = SaveRow(r, row) \/ UNCHANGED runs
  BY <1>1, <1>2 DEF Save, InFlight, history, events
<1>5. \/ row.status = "succeeded" /\ hits[r] = 1
      \/ row.status \in {"pending", "failed"} /\ hits[r] = 0
  BY <1>1 DEF Save, LifeInv, Told
<1>6. /\ \A s \in Run : s # r => runs'[s] = runs[s]
      /\ runs'[r] = runs[r] \/ runs'[r] = row
  BY <1>4 DEF SaveRow, TypeOK
<1>7. job'[p][r] = j /\ \A q \in Proc, s \in Run : q # p \/ s # r => job'[q][s] = job[q][s]
  BY <1>4, PutAway
<1>8. LifeInv'
  <2>1. Told(j, hits'[r]) BY <1>3, <1>4, <1>5 DEF Told
  <2>2. \A s \in Run : Waiting(s)' => hits'[s] = 0
    <3>1. \A s \in Run : runs'[s] = runs[s] => (Waiting(s)' <=> Waiting(s))
      BY <1>4, WaitingSame
    <3>2. runs'[r] = row /\ Waiting(r)' => hits[r] = 0 BY <1>5 DEF Waiting, Unborn, Stored
    <3>3. QED BY <1>4, <1>6, <3>1, <3>2 DEF LifeInv
  <2>3. QED BY <1>4, <2>1, <2>2, LifePut DEF LifeInv
<1>9. /\ ~Held(r)'
      /\ \A s \in Run : s # r => (Held(s)' <=> Held(s))
  <2>1. \A q \in Proc : ~InFlight(q, r)'
    <3>1. ~InFlight(p, r)' BY <1>3, <1>7 DEF InFlight
    <3>2. \A q \in Proc : q # p => ~InFlight(q, r) BY <1>4 DEF FlightInv, Exclusive
    <3>3. \A q \in Proc : q # p => ~InFlight(q, r)' BY <1>7, <3>2 DEF InFlight
    <3>4. QED BY <3>1, <3>3
  <2>2. \A q \in Proc, s \in Run : s # r => (InFlight(q, s)' <=> InFlight(q, s))
    BY <1>7 DEF InFlight
  <2>3. QED BY <2>1, <2>2 DEF Held
<1>10. /\ \A s \in Run : s # r => Shown(s)' = Shown(s)
       /\ Shown(r)' = runs'[r].status
  BY <1>6, <1>9 DEF Shown, Stored
<1>11. Held(r) BY <1>4 DEF Held
<1>12. CASE runs'[r] = row
  <2>1. lifeStatus[r] \in {"running", "orphaned"} BY <1>11, ShownIsStored, ShownStatus
  <2>2. Life!Become(r, row.status) BY <1>10, <1>12, LifeBecomes
  <2>3. Life!Succeed(r) \/ Life!Retreat(r)
    BY <1>4, <1>5, <2>1, <2>2 DEF Life!Succeed, Life!Retreat
  <2>4. QED BY <1>8, <2>3 DEF Step, Life!Next
<1>13. CASE runs'[r] = runs[r] /\ Stored(r)
  <2>1. Shown(r)' = Shown(r) BY <1>10, <1>13, ShownIsStored
  <2>2. \A x \in Run : Shown(x)' = Shown(x) BY <1>10, <2>1
  <2>3. QED BY <1>4, <1>8, <2>2, LifeSame DEF Step, Life!vars
<1>14. CASE runs'[r] = runs[r] /\ ~Stored(r)
  <2>1. \A x \in {r} : Shown(x) = "orphaned" /\ Shown(x)' = "absent"
    BY <1>10, <1>11, <1>14, ShownIsStored DEF Stored
  <2>2. \A x \in Run : x \notin {r} => Shown(x)' = Shown(x) BY <1>10
  <2>3. {r} \in SUBSET Run /\ UNCHANGED hits BY <1>4
  <2>4. Step BY <2>1, <2>2, <2>3, LifeEnds
  <2>5. QED BY <1>8, <2>4
<1>15. QED BY <1>6, <1>12, <1>13, <1>14

\* A row is inserted where there was none, and nobody takes or lets go of a run
\* but of that one.
LEMMA LifeInsert ==
  ASSUME TypeOK, ChainInv, FlightInv, NEW r \in Run, NEW row, row.status # "absent",
         r[4] = revived[r[2]], runs' = Insert(r, row), UNCHANGED <<event, revived>>,
         \A s \in Run : s # r => (Held(s)' <=> Held(s)),
         UNCHANGED runs => (Held(r)' <=> Held(r))
  PROVE  /\ \A s \in Run : Waiting(s)' => Waiting(s)
         /\ UNCHANGED runs => UNCHANGED lifeStatus
         /\ ~UNCHANGED runs => lifeStatus[r] = "absent" /\ Life!Become(r, row.status)
<1>1. CASE runs' = [runs EXCEPT ![r] = row] /\ Live(r[2]) /\ ~Stored(r)
  <2>1. runs'[r] = row /\ \A s \in Run : s # r => runs'[s] = runs[s]
    BY <1>1 DEF TypeOK
  <2>2. Shown(r)' = row.status BY <2>1 DEF Shown, Stored
  <2>3. \A s \in Run : s # r => Shown(s)' = Shown(s) BY <2>1 DEF Shown, Stored
  <2>4. ~Held(r) BY <1>1, FreshIsFree DEF Present, Unheld, Held
  <2>5. lifeStatus[r] = "absent" BY <1>1, <2>4, ShownIsStored, ShownStatus DEF Stored
  <2>6. \A s \in Run : s # r => (Waiting(s)' <=> Waiting(s)) BY <2>1, WaitingSame
  <2>7. Waiting(r) BY <1>1 DEF Waiting, Unborn, Present
  <2>8. ~UNCHANGED runs BY <1>1, <2>1 DEF Stored
  <2>9. QED BY <2>2, <2>3, <2>5, <2>6, <2>7, <2>8, LifeBecomes
<1>2. CASE UNCHANGED runs
  <2>1. \A s \in Run : Shown(s)' = Shown(s) BY <1>2 DEF Shown, Stored
  <2>2. \A s \in Run : Waiting(s)' <=> Waiting(s) BY <1>2, WaitingSame
  <2>3. QED BY <1>2, <2>1, <2>2, LifeSame
<1>3. QED BY <1>1, <1>2 DEF Insert

\* scheduleNext.
LEMMA LifeNext ==
  ASSUME TypeOK, ChainInv, FlightInv, LifeInv, NEW p \in Proc, NEW r \in Run, ScheduleNext(p, r)
  PROVE  LifeInv' /\ Step
<1>0. job[p][r] \in Job /\ NoJob.pc = "idle" /\ r[2] \in Event BY NextOfRun DEF TypeOK, NoJob
<1>1. /\ job[p][r].pc = "following" /\ job' = Put(p, r, NoJob) /\ UNCHANGED <<event, revived, hits>>
      /\ hits[r] = 1
  BY DEF ScheduleNext, history, LifeInv, Told, events
<1>2. \A q \in Proc, s \in Run : job'[q][s] = job[q][s] \/ job'[q][s].pc = "idle"
  BY <1>0, <1>1, PutAway
<1>3. \A q \in Proc, s \in Run : InFlight(q, s)' <=> InFlight(q, s)
  BY <1>0, <1>1, PutAway DEF InFlight
<1>4. \A s \in Run : Held(s)' <=> Held(s) BY <1>3 DEF Held
<1>5. CASE UNCHANGED runs
  <2>1. \A s \in Run : Shown(s)' = Shown(s) BY <1>4, <1>5 DEF Shown, Stored
  <2>2. \A s \in Run : Waiting(s)' <=> Waiting(s) BY <1>1, <1>5, WaitingSame
  <2>3. QED BY <1>1, <1>2, <2>1, <2>2, LifeStill, LifeSame DEF Step, Life!vars
<1>6. CASE NextOf(r) \in Run /\ runs' = Insert(NextOf(r), PendingRow(job[p][r].row.max)) /\ ~UNCHANGED runs
  <2>1. PICK row : row = PendingRow(job[p][r].row.max) /\ row.status = "pending"
    BY <1>0, PendingStatus DEF Job, Row
  <2>2. PICK n \in Run : n = NextOf(r) BY <1>6
  <2>3. n[4] = revived[n[2]] /\ Follows(r, n) BY <2>2, NextOfRun DEF Follows, SameChain
  <2>4. /\ \A s \in Run : Waiting(s)' => Waiting(s)
        /\ lifeStatus[n] = "absent" /\ Life!Become(n, row.status)
    BY <1>1, <1>4, <1>6, <2>1, <2>2, <2>3, LifeInsert
  <2>5. LifeInv' BY <1>1, <1>2, <2>4, LifeStill
  <2>6. Life!Follow(r, n) BY <1>1, <2>1, <2>4 DEF Life!Follow
  <2>7. PICK x \in Successive : x = <<r, n>> BY <2>3 DEF Successive
  <2>8. Life!Follow(x[1], x[2]) BY <2>6, <2>7
  <2>9. QED BY <2>5, <2>8 DEF Step, Life!Next
<1>7. QED BY <1>5, <1>6 DEF ScheduleNext, events

\* The claim: the pending runs of a batch start together.
LEMMA LifeClaim ==
  ASSUME TypeOK, ChainInv, FlightInv, LifeInv, NEW w \in Worker, Claim(w)
  PROVE  LifeInv' /\ Step
<1>1. PICK R \in SUBSET Due :
        /\ runs' = [r \in Run |-> IF r \in R THEN [runs[r] EXCEPT !.status = "running"] ELSE runs[r]]
        /\ job' = [job EXCEPT ![w] = [r \in Run |-> IF r \in R
                                                    THEN [NoJob EXCEPT !.pc = "claimed", !.row = runs[r]]
                                                    ELSE NoJob]]
  BY DEF Claim, events
<1>2. w \in Proc /\ UNCHANGED <<event, revived, hits>> /\ \A s \in Run : job[w][s] = NoJob
  BY DEF Claim, Proc, history, Idle, events
<1>3. /\ \A q \in Proc, s \in Run : q # w => job'[q][s] = job[q][s]
      /\ \A s \in Run : job'[w][s] = IF s \in R THEN [NoJob EXCEPT !.pc = "claimed", !.row = runs[s]] ELSE NoJob
  BY <1>1, <1>2 DEF TypeOK
<1>4. \A s \in Run : [NoJob EXCEPT !.pc = "claimed", !.row = runs[s]].pc = "claimed" BY DEF NoJob
<1>5. \A q \in Proc, s \in Run : job'[q][s] = job[q][s] \/ (s \in R /\ job'[q][s].pc = "claimed")
  <2>1. \A s \in Run : s \in R => job'[w][s].pc = "claimed" BY <1>3, <1>4
  <2>2. \A s \in Run : s \notin R => job'[w][s] = job[w][s] BY <1>2, <1>3
  <2>3. QED BY <1>3, <2>1, <2>2
<1>6. \A s \in Run : /\ s \in R => runs[s].status = "pending" /\ runs'[s].status = "running"
                     /\ s \notin R => runs'[s] = runs[s]
  BY <1>1 DEF Due, TypeOK, Row
<1>7. LifeInv'
  <2>1. \A s \in R : Waiting(s) BY <1>6 DEF Waiting, Due
  <2>2. \A q \in Proc, s \in Run : Told(job'[q][s], hits[s])
    BY <1>5, <2>1 DEF LifeInv, Told, Due
  <2>3. \A s \in Run : Waiting(s)' => Waiting(s)
    <3>1. \A s \in Run : s \in R => ~Waiting(s)' BY <1>6 DEF Waiting, Unborn, Stored
    <3>2. QED BY <1>2, <1>6, <3>1, WaitingSame
  <2>4. \A q \in Proc, s \in Run : Told(job[q][s], hits[s])' BY <1>2, <2>2 DEF Told
  <2>5. \A s \in Run : Waiting(s)' => hits'[s] = 0 BY <1>2, <2>3 DEF LifeInv
  <2>6. QED BY <2>4, <2>5 DEF LifeInv
<1>8. \A s \in Run : s \in R => Shown(s) = "pending" /\ Shown(s)' = "running"
  BY <1>6 DEF Shown, Stored
<1>9. \A s \in Run : s \notin R => Shown(s)' = Shown(s)
  <2>1. \A q \in Proc, s \in Run : s \notin R => (InFlight(q, s)' <=> InFlight(q, s))
    BY <1>5 DEF InFlight
  <2>2. \A s \in Run : s \notin R => (Held(s)' <=> Held(s)) BY <2>1 DEF Held
  <2>3. QED BY <1>6, <2>2 DEF Shown, Stored
<1>10. R \in SUBSET {x \in Run : lifeStatus[x] = "pending"} BY <1>8, ShownStatus DEF Due
<1>11. lifeStatus' = [x \in Run |-> IF x \in R THEN "running" ELSE lifeStatus[x]]
  BY <1>8, <1>9, ShownStatus, ShownStatusNext
<1>12. Life!Turn("running") BY <1>2, <1>10, <1>11 DEF Life!Turn
<1>13. QED BY <1>7, <1>12 DEF Step, Life!Next

\* Cancel: the pending runs of a chain end together.
LEMMA LifeCancel ==
  ASSUME TypeOK, LifeInv, NEW q \in Request, NEW r \in Run, Cancel(q, r)
  PROVE  LifeInv' /\ Step
<1>1. /\ runs' = CancelPendingAfter(runs, r, r[3]) /\ UNCHANGED <<job, event, revived, hits>> BY DEF Cancel, events
<1> DEFINE R == {s \in Run : SameChain(s, r) /\ s[3] >= r[3] /\ runs[s].status = "pending"}
<1>2. \A s \in Run : /\ s \in R => runs[s].status = "pending" /\ runs'[s].status = "cancelled"
                     /\ s \notin R => runs'[s] = runs[s]
  BY <1>1 DEF CancelPendingAfter, TypeOK, Row
<1>3. \A s \in Run : Waiting(s)' => Waiting(s)
  <2>1. \A s \in Run : s \in R => ~Waiting(s)' BY <1>2 DEF Waiting, Unborn, Stored
  <2>2. QED BY <1>1, <1>2, <2>1, WaitingSame
<1>4. LifeInv' BY <1>1, <1>3, LifeStill
<1>5. \A s \in Run : s \in R => Shown(s) = "pending" /\ Shown(s)' = "cancelled"
  BY <1>2 DEF Shown, Stored
<1>6. \A s \in Run : Held(s)' <=> Held(s) BY <1>1 DEF Held, InFlight
<1>7. \A s \in Run : s \notin R => Shown(s)' = Shown(s) BY <1>2, <1>6 DEF Shown, Stored
<1>8. R \in SUBSET {x \in Run : lifeStatus[x] = "pending"} BY <1>5, ShownStatus
<1>9. lifeStatus' = [x \in Run |-> IF x \in R THEN "cancelled" ELSE lifeStatus[x]]
  BY <1>5, <1>7, ShownStatus, ShownStatusNext
<1>10. Life!Turn("cancelled") BY <1>1, <1>8, <1>9 DEF Life!Turn
<1>11. QED BY <1>4, <1>10 DEF Step, Life!Next

\* A test run begins to run where there was none.
LEMMA LifeTest ==
  ASSUME TypeOK, ChainInv, FlightInv, LifeInv,
         NEW q \in Request, NEW m \in Match, NEW e \in Event, TestEvent(q, m, e)
  PROVE  LifeInv' /\ Step
<1>1. PICK r \in Run, j \in Job :
        /\ r[2] = e /\ r[3] >= TestBase /\ r[4] = revived[e]
        /\ Live(e) /\ ~Stored(r) /\ ~Taken(r)
        /\ runs' = [runs EXCEPT ![r] = TestRow]
        /\ job' = Put(q, r, j) /\ j.pc = "claimed"
        /\ UNCHANGED <<event, revived, hits>>
  BY TestCreates
<1>2. q \in Proc /\ Unborn(r) BY <1>1 DEF Proc, Unborn, Present
<1>3. hits[r] = 0 BY <1>2 DEF LifeInv, Waiting
<1>4. job'[q][r] = j /\ \A p \in Proc, s \in Run : p # q \/ s # r => job'[p][s] = job[p][s]
  BY <1>1, <1>2, PutAway
<1>5. \A s \in Run : s # r => (Held(s)' <=> Held(s))
  <2>1. \A p \in Proc, s \in Run : s # r => (InFlight(p, s)' <=> InFlight(p, s)) BY <1>4 DEF InFlight
  <2>2. QED BY <2>1 DEF Held
<1>6. TestRow.status = "running" BY DEF TestRow, NoRow
<1>7. runs' = Insert(r, TestRow) BY <1>1 DEF Insert
<1>8. runs'[r] = TestRow BY <1>1 DEF TypeOK
<1>9. ~UNCHANGED runs BY <1>1, <1>6, <1>8 DEF Stored
<1>10. /\ \A s \in Run : Waiting(s)' => Waiting(s)
       /\ lifeStatus[r] = "absent" /\ Life!Become(r, "running")
  BY <1>1, <1>5, <1>6, <1>7, <1>9, LifeInsert
<1>11. LifeInv'
  <2>1. Told(j, hits'[r]) BY <1>1, <1>3 DEF Told
  <2>2. \A s \in Run : Waiting(s)' => hits'[s] = 0 BY <1>1, <1>10 DEF LifeInv
  <2>3. QED BY <1>1, <1>2, <2>1, <2>2, LifePut DEF LifeInv
<1>12. r \in Tests BY <1>1 DEF Tests
<1>13. Life!Fire(r) BY <1>1, <1>10, <1>12 DEF Life!Fire
<1>14. QED BY <1>11, <1>13 DEF Step, Life!Next

\* The pipeline schedules occurrence 1.
LEMMA LifeSchedule ==
  ASSUME TypeOK, ChainInv, FlightInv, LifeInv, NEW m \in Match, NEW e \in Event, ScheduleEvent(m, e)
  PROVE  LifeInv' /\ Step
<1>1. UNCHANGED <<job, event, revived, hits>> BY DEF ScheduleEvent, history, events
<1>2. \A s \in Run : Held(s)' <=> Held(s) BY <1>1 DEF Held, InFlight
<1>3. CASE UNCHANGED runs
  <2>1. \A s \in Run : Shown(s)' = Shown(s) BY <1>2, <1>3 DEF Shown, Stored
  <2>2. \A s \in Run : Waiting(s)' <=> Waiting(s) BY <1>1, <1>3, WaitingSame
  <2>3. QED BY <1>1, <2>1, <2>2, LifeStill, LifeSame DEF Step, Life!vars
<1>4. CASE runs' = Insert(Fresh(m, e, 1), PendingRow(MaxAttempts)) /\ ~UNCHANGED runs
  <2>1. PICK row : row = PendingRow(MaxAttempts) /\ row.status = "pending"
    BY ConstantsAssumption, PendingStatus
  <2>2. PICK r \in Run : r = Fresh(m, e, 1) /\ r[4] = revived[r[2]] /\ r[3] = 1
    BY FreshOfRun, FirstOccurrence
  <2>3. /\ \A s \in Run : Waiting(s)' => Waiting(s)
        /\ lifeStatus[r] = "absent" /\ Life!Become(r, row.status)
    BY <1>1, <1>2, <1>4, <2>1, <2>2, LifeInsert
  <2>4. LifeInv' BY <1>1, <2>3, LifeStill
  <2>5. r \in Scheduled BY <2>2 DEF Scheduled
  <2>6. Life!Schedule(r) BY <1>1, <2>1, <2>3, <2>5 DEF Life!Schedule
  <2>7. QED BY <2>4, <2>6 DEF Step, Life!Next
<1>5. QED BY <1>3, <1>4 DEF ScheduleEvent, events

\* Deleting an event: what is in flight is orphaned, the rest is gone.
LEMMA LifeDelete ==
  ASSUME TypeOK, ChainInv, FlightInv, LifeInv, NEW e \in Event, DeleteEvent(e)
  PROVE  LifeInv' /\ Step
<1>1. /\ UNCHANGED <<job, hits>>
      /\ \A s \in Run : runs'[s] = IF s[2] = e THEN NoRow ELSE runs[s]
  BY DEF DeleteEvent
<1>2. NoRow.status = "absent" BY UnackedRows
<1>3. \A s \in Run : Waiting(s)' => Waiting(s) BY <1>1, <1>2, UnbornDelete DEF Waiting
<1>4. LifeInv' BY <1>1, <1>3, LifeStill
<1>5. \A s \in Run : Held(s)' <=> Held(s) BY <1>1 DEF Held, InFlight
<1>6. ASSUME NEW s \in Run
      PROVE  Shown(s)' \in {Shown(s), "absent"} \/ (Shown(s) = "running" /\ Shown(s)' = "orphaned")
  <2>1. CASE s[2] # e BY <1>1, <1>5, <2>1 DEF Shown, Stored
  <2>2. CASE s[2] = e
    <3>1. ~Stored(s)' /\ runs'[s].status = "absent" BY <1>1, <1>2, <2>2 DEF Stored
    <3>2. Shown(s)' = IF Held(s) THEN "orphaned" ELSE "absent" BY <1>5, <3>1 DEF Shown
    <3>3. QED BY <3>2, ShownIsStored
  <2>3. QED BY <2>1, <2>2
<1>7. ASSUME NEW s \in Run PROVE Shown(s)' \in Life!Status
  <2>1. runs[s].status \in RowStatus /\ NoRow.status \in RowStatus
    BY <1>2 DEF TypeOK, Row, RowStatus
  <2>2. runs'[s].status \in RowStatus BY <1>1, <2>1
  <2>3. QED BY <2>2 DEF Shown, RowStatus, Life!Status
<1>8. lifeStatus' \in [Run -> Life!Status] BY <1>7, ShownStatusNext
<1>9. Life!Delete BY <1>1, <1>6, <1>8, ShownStatus, ShownStatusNext DEF Life!Delete
<1>10. QED BY <1>4, <1>9 DEF Step, Life!Next

\* A process stops: the orphans it held are gone.
LEMMA LifeCrash ==
  ASSUME TypeOK, LifeInv, NEW p \in Proc, Crash(p)
  PROVE  LifeInv' /\ Step
<1>1. \A q \in Proc, s \in Run : job'[q][s] = job[q][s] \/ job'[q][s] = NoJob BY DEF Crash, TypeOK, events
<1>2. NoJob.pc = "idle" /\ UNCHANGED <<runs, event, revived, hits>> BY DEF Crash, NoJob, history, events
<1>3. \A s \in Run : Waiting(s)' <=> Waiting(s) BY <1>2, WaitingSame
<1>4. LifeInv' BY <1>1, <1>2, <1>3, LifeStill
<1>5. \A s \in Run : Held(s)' => Held(s)
  <2>1. \A q \in Proc, s \in Run : InFlight(q, s)' => InFlight(q, s) BY <1>1, <1>2 DEF InFlight
  <2>2. QED BY <2>1 DEF Held
<1> DEFINE R == {s \in Run : ~Stored(s) /\ Held(s) /\ ~Held(s)'}
<1>6. \A s \in R : Shown(s) = "orphaned" /\ Shown(s)' = "absent" BY <1>2 DEF Shown, Stored
<1>7. \A s \in Run : s \notin R => Shown(s)' = Shown(s) BY <1>2, <1>5 DEF Shown, Stored
<1>8. R \in SUBSET Run OBVIOUS
<1>9. Step
  <2> HIDE DEF R
  <2>1. QED BY <1>2, <1>6, <1>7, <1>8, LifeEnds
<1>10. QED BY <1>4, <1>9

\* Steps that neither store nor take a run.
LEMMA LifeIdle ==
  ASSUME TypeOK, LifeInv, UNCHANGED <<job, hits>>,
         \A s \in Run : runs'[s].status = runs[s].status /\ (Unborn(s)' => Unborn(s))
  PROVE  LifeInv' /\ Step
<1>2. \A s \in Run : Waiting(s)' => Waiting(s) BY DEF Waiting
<1>3. LifeInv' BY <1>2, LifeStill
<1>4. \A s \in Run : Held(s)' <=> Held(s) BY DEF Held, InFlight
<1>5. \A s \in Run : Shown(s)' = Shown(s) BY <1>4 DEF Shown, Stored
<1>6. QED BY <1>3, <1>5, LifeSame DEF Step, Life!vars

LEMMA LifeRest ==
  ASSUME TypeOK, LifeInv,
         \/ \E m \in Match : ScheduleEvents(m) \/ PollerCrash(m)
         \/ \E e \in Event : EditRead(e) \/ EditSave(e)
         \/ \E r \in Run : Elapse(r)
  PROVE  LifeInv' /\ Step
<1>1. CASE \E m \in Match : ScheduleEvents(m) \/ PollerCrash(m)
  <2>1. UNCHANGED <<runs, job, event, revived, hits>>
    BY <1>1 DEF ScheduleEvents, PollerCrash, history, events
  <2>2. QED BY <2>1, LifeIdle, UnbornBefore DEF Stored
<1>2. CASE \E e \in Event : EditRead(e) \/ EditSave(e)
  <2>1. UNCHANGED <<runs, job, hits>> BY <1>2 DEF EditRead, EditSave, history
  <2>2. QED BY <1>2, <2>1, LifeIdle, UnbornEdit
<1>3. CASE \E r \in Run : Elapse(r)
  <2>1. PICK r \in Run : Elapse(r) BY <1>3
  <2>2. runs[r] \in Row BY DEF TypeOK
  <2>3. [runs[r] EXCEPT !.due = TRUE].status = runs[r].status BY <2>2 DEF Row
  <2>4. \A s \in Run : runs'[s].status = runs[s].status BY <2>1, <2>3 DEF Elapse, TypeOK
  <2>5. UNCHANGED <<job, event, revived, hits>> BY <2>1 DEF Elapse, history, events
  <2>6. QED BY <2>4, <2>5, LifeIdle, UnbornBefore DEF Stored
<1>4. QED BY <1>1, <1>2, <1>3

LEMMA NextLife ==
  Unassisted /\ TypeOK /\ ChainInv /\ FlightInv /\ LifeInv /\ [Next]_vars => LifeInv' /\ Step
<1> SUFFICES ASSUME Unassisted, TypeOK, ChainInv, FlightInv, LifeInv, [Next]_vars PROVE LifeInv' /\ Step
  OBVIOUS
<1>1. CASE UNCHANGED vars
  <2>1. UNCHANGED <<runs, job, event, revived, hits>> BY <1>1 DEF vars
  <2>2. QED BY <2>1, LifeIdle, UnbornBefore DEF Stored
<1>2. CASE \E w \in Worker : Claim(w) BY <1>2, LifeClaim
<1>3. CASE \E p \in Proc, r \in Run : Execute(p, r)
  BY <1>3, LifeHandle, LifeSave, LifeNext DEF Execute
<1>4. CASE \E q \in Request : Serve(q)
  <2>1. PICK q \in Request : Serve(q) BY <1>4
  <2>2. q \in Proc BY DEF Proc
  <2>3. \A r \in Run : ~RetryRead(q, r) /\ ~RetrySave(q, r) /\ ~AckRead(q, r) /\ ~AckSave(q, r)
    BY <2>2 DEF Unassisted, FlightInv, RetryRead, RetrySave, AckRead, AckSave, events
  <2>4. CASE \E r \in Run : Cancel(q, r) BY <2>4, LifeCancel
  <2>5. CASE \E m \in Match, e \in Event : TestEvent(q, m, e) BY <2>5, LifeTest
  <2>6. QED BY <2>1, <2>3, <2>4, <2>5 DEF Serve
<1>5. CASE \E m \in Match, e \in Event : ScheduleEvent(m, e) BY <1>5, LifeSchedule
<1>6. CASE \E e \in Event : DeleteEvent(e) BY <1>6, LifeDelete
<1>7. CASE \E p \in Proc : Crash(p) BY <1>7, LifeCrash
<1>8. CASE \/ \E m \in Match : ScheduleEvents(m) \/ PollerCrash(m)
           \/ \E e \in Event : EditRead(e) \/ EditSave(e)
           \/ \E r \in Run : Elapse(r)
  BY <1>8, LifeRest
<1>9. QED BY <1>1, <1>2, <1>3, <1>4, <1>5, <1>6, <1>7, <1>8 DEF Next

LEMMA InitLife == Init => LifeInv /\ Life!Init
<1> SUFFICES ASSUME Init PROVE LifeInv /\ Life!Init
  OBVIOUS
<1>1. NoJob.pc = "idle" /\ NoRow.status = "absent" BY UnackedRows DEF NoJob
<1>2. \A p \in Proc, r \in Run : job[p][r].pc = "idle" BY <1>1 DEF Init
<1>3. LifeInv BY <1>2 DEF LifeInv, Told, Init
<1>4. \A r \in Run : Shown(r) = "absent" BY <1>1, <1>2 DEF Shown, Held, InFlight, Init
<1>5. Life!Init BY <1>4, ShownStatus DEF Life!Init, Init
<1>6. QED BY <1>3, <1>5

\* The queue implements RunLifecycle: whatever the workers, crashes, failed
\* writes, cancellations, edits, deletions and test runs, every step of it is a
\* step of the life of its runs or changes none, as long as nobody retries or
\* acknowledges one.
THEOREM QueueImplementsLifecycle ==
  ASSUME Unassisted
  PROVE  Spec => LifeSpec
<1>1. TypeOK /\ ChainInv /\ FlightInv /\ [Next]_vars => FlightInv' BY NextFlight
<1>2. TypeOK /\ ChainInv /\ FlightInv /\ LifeInv /\ [Next]_vars => LifeInv' BY NextLife
<1>3. TypeOK /\ ChainInv /\ FlightInv /\ LifeInv /\ [Next]_vars => [Life!Next]_Life!vars
  BY NextLife DEF Step
<1>4. QED
  BY <1>1, <1>2, <1>3, InitFlight, InitLife, TypeCorrect, ChainInvariant, PTL
     DEF Spec, LifeSpec, Life!Spec
-----------------------------------------------------------------------------
(* QuietStopEndsChain.  Once a chain at rest has been told to stop, nothing  *)
(* of it waits or is held from there on, except the run whose               *)
(* acknowledgement stopped it: an Ack that had read it as pending puts it    *)
(* back.  That run is executed with its acknowledgement, and does not repeat *)
(* as long as the event goes on stopping on one.  Whatever is held of such a  *)
(* chain has its row, so no save brings one back.                            *)

StopsHold == "edit" \notin Allowed \/ "ack" \notin Allowed

EditsInv == editing # {} => "edit" \in Allowed

\* The occurrences a chain that was told to stop after s may not go on to.
Ends(r, s) == SameChain(r, s) /\ r[3] >= s[3] /\ r[3] < TestBase

\* The row of r carries the acknowledgement that stopped its chain.
Heeded(r, s, row) ==
  "ack" \in Allowed /\ r = s /\ row.acked /\ event[s[2]].stopOnAck

\* The job j that a process has for r neither queues it again nor repeats it.
Spares(j, r, s) ==
  /\ j.pc = "acking" /\ j.row.status = "pending" => Heeded(r, s, j.row)
  /\ j.pc = "claimed" => Heeded(r, s, j.row)
  /\ \/ j.pc \in {"handling", "following"}
     \/ j.pc = "saving" /\ j.row.status # "failed"
     => Heeded(r, s, j.row) /\ j.ev.stopOnAck

Rests(r, s) == runs[r].status = "pending" => Heeded(r, s, runs[r])

HandlesOne ==
  /\ \A q \in Request, r, x \in Run : job[q][r] # NoJob /\ job[q][x] # NoJob => r = x
  /\ \A p \in Proc, r \in Run : job[p][r].pc = "acking" => p \in Request /\ "ack" \in Allowed

StopInv ==
  /\ HandlesOne
  /\ \A s \in quiet : Live(s[2]) /\ Stored(s)
  /\ \A s \in quiet, r \in Run : SameChain(r, s) =>
       \A p \in Proc : job[p][r] # NoJob => Stored(r)
  /\ \A s \in quiet, r \in Run : Ends(r, s) => Rests(r, s) /\ \A p \in Proc : Spares(job[p][r], r, s)

\* What a step may do of which QuietStopEndsChain speaks.
Quieted ==
  \A r \in Run : ~Stored(r) /\ Stored(r)' /\ r[3] < TestBase =>
    \A s \in quiet : SameChain(r, s) => r[3] <= s[3]

\* The events of stopped chains stay, and go on stopping on acknowledgement.
Heeds == \A s \in quiet' : Live(s[2])' /\ ("ack" \notin Allowed \/ event'[s[2]] = event[s[2]])

\* A row that waits after a step waited before it.
Waited(r) == runs'[r].status = "pending" =>
                runs[r].status = "pending" /\ (runs[r].acked => runs'[r].acked)

LEMMA HeededStays ==
  ASSUME Heeds, NEW r \in Run, NEW s \in quiet', NEW row, NEW new, Heeded(r, s, row), row.acked => new.acked
  PROVE  Heeded(r, s, new)'
BY DEF Heeds, Heeded

LEMMA SparesStays ==
  ASSUME Heeds, NEW r \in Run, NEW s \in quiet', NEW j, Spares(j, r, s)
  PROVE  Spares(j, r, s)'
<1>1. Heeded(r, s, j.row) => Heeded(r, s, j.row)' BY HeededStays
<1>2. QED BY <1>1 DEF Spares

LEMMA NothingSpared == \A r \in Run, s \in Run : Spares(NoJob, r, s) /\ Spares(NoJob, r, s)'
BY DEF Spares, NoJob

LEMMA HeedsStill ==
  ASSUME StopInv, UNCHANGED event, quiet' \subseteq quiet
  PROVE  Heeds
BY DEF StopInv, Heeds, Live

\* A step that stops no further chain.
LEMMA StopKeeps ==
  ASSUME TypeOK, StopInv, Heeds, quiet' \subseteq quiet, HandlesOne',
         \A s \in quiet', r \in Run : SameChain(r, s) =>
           /\ Stored(r) => Stored(r)'
           /\ \A p \in Proc : job'[p][r] = job[p][r] \/ job'[p][r] = NoJob \/ Stored(r)',
         \A s \in quiet', r \in Run : Ends(r, s) =>
           /\ Waited(r) \/ Rests(r, s)'
           /\ \A p \in Proc : job'[p][r] = job[p][r] \/ Spares(job[p][r], r, s)'
  PROVE  StopInv'
<1>1. \A s \in quiet' : s \in quiet /\ s \in Run BY DEF TypeOK
<1>2. \A s \in quiet' : Live(s[2])' /\ Stored(s)' BY <1>1 DEF StopInv, Heeds, SameChain
<1>3. \A s \in quiet', r \in Run : SameChain(r, s) => \A p \in Proc : job'[p][r] # NoJob => Stored(r)'
  BY <1>1 DEF StopInv
<1>4. ASSUME NEW s \in quiet', NEW r \in Run, Ends(r, s)
      PROVE  Rests(r, s)' /\ \A p \in Proc : Spares(job[p][r], r, s)'
  <2>1. Rests(r, s) /\ \A p \in Proc : Spares(job[p][r], r, s) BY <1>1, <1>4 DEF StopInv
  <2>2. Rests(r, s)'
    <3>1. CASE Waited(r)
      <4>1. runs'[r].status = "pending" => Heeded(r, s, runs[r]) /\ (runs[r].acked => runs'[r].acked)
        BY <2>1, <3>1 DEF Rests, Waited
      <4>2. PICK row, new : row = runs[r] /\ new = runs'[r] OBVIOUS
      <4>3. Heeded(r, s, row) /\ (row.acked => new.acked) => Heeded(r, s, new)' BY HeededStays
      <4>4. QED BY <4>1, <4>2, <4>3 DEF Rests, Heeded
    <3>2. QED BY <1>4, <3>1
  <2>3. ASSUME NEW p \in Proc PROVE Spares(job[p][r], r, s)'
    <3>1. CASE job'[p][r] = job[p][r]
      <4>1. PICK j : j = job[p][r] OBVIOUS
      <4>2. Spares(j, r, s)' BY <2>1, <4>1, SparesStays
      <4>3. QED BY <3>1, <4>1, <4>2 DEF Spares, Heeded
    <3>2. QED BY <1>4, <3>1
  <2>4. QED BY <2>2, <2>3
<1>5. QED BY <1>2, <1>3, <1>4 DEF StopInv, Ends, SameChain

\* Process p holds j for run r from now on.
LEMMA StopPut ==
  ASSUME TypeOK, StopInv, NEW p \in Proc, NEW r \in Run, NEW j \in Job, job' = Put(p, r, j),
         UNCHANGED event, quiet' \subseteq quiet,
         j = NoJob \/ job[p][r] # NoJob \/ (Idle(p) /\ Stored(r)'),
         j.pc = "acking" => p \in Request /\ "ack" \in Allowed,
         \A x \in Run : Stored(x) => Stored(x)',
         \A s \in quiet', x \in Run : Ends(x, s) => Waited(x) \/ Rests(x, s)',
         \A s \in quiet' : Ends(r, s) => Spares(j, r, s)
  PROVE  StopInv'
<1>1. \A q \in Proc, s \in Run : job'[q][s] = IF q = p /\ s = r THEN j ELSE job[q][s]
  BY PutType DEF TypeOK
<1>2. Heeds BY HeedsStill
<1>3. HandlesOne'
  <2>1. \A q \in Request : q \in Proc BY DEF Proc
  <2>2. ASSUME NEW q \in Request, NEW x \in Run, NEW y \in Run, job'[q][x] # NoJob, job'[q][y] # NoJob
        PROVE  x = y
    <3>1. CASE q # p BY <1>1, <2>1, <2>2, <3>1 DEF StopInv, HandlesOne
    <3>2. CASE q = p /\ j = NoJob BY <1>1, <2>1, <2>2, <3>2 DEF StopInv, HandlesOne
    <3>3. CASE q = p /\ job[p][r] # NoJob BY <1>1, <2>1, <2>2, <3>3 DEF StopInv, HandlesOne
    <3>4. CASE q = p /\ Idle(p) BY <1>1, <2>1, <2>2, <3>4 DEF Idle
    <3>5. QED BY <3>1, <3>2, <3>3, <3>4
  <2>3. \A q \in Proc, x \in Run : job'[q][x].pc = "acking" => q \in Request /\ "ack" \in Allowed
    BY <1>1 DEF StopInv, HandlesOne
  <2>4. QED BY <2>2, <2>3 DEF HandlesOne
<1>4. ASSUME NEW s \in quiet', NEW x \in Run, Ends(x, s), NEW q \in Proc
      PROVE  job'[q][x] = job[q][x] \/ Spares(job[q][x], x, s)'
  <2>1. CASE q = p /\ x = r
    <3>1. Spares(j, r, s) BY <1>4, <2>1
    <3>2. Spares(j, r, s)' BY <1>2, <3>1, SparesStays
    <3>3. job'[q][x] = j BY <1>1, <2>1
    <3>4. QED BY <2>1, <3>2, <3>3 DEF Spares, Heeded
  <2>2. QED BY <1>1, <2>1
<1>5. ASSUME NEW s \in quiet', NEW x \in Run, SameChain(x, s), NEW q \in Proc
      PROVE  job'[q][x] = job[q][x] \/ job'[q][x] = NoJob \/ Stored(x)'
  <2>1. CASE q = p /\ x = r /\ job[p][r] # NoJob
    <3>1. Stored(r) BY <1>5, <2>1 DEF StopInv
    <3>2. QED BY <2>1, <3>1
  <2>2. QED BY <1>1, <2>1
<1>6. QED BY <1>2, <1>3, <1>4, <1>5, StopKeeps

\* Steps that leave every job alone and stop no chain.
LEMMA StopStill ==
  ASSUME TypeOK, StopInv, Heeds, UNCHANGED <<job, quiet>>,
         \A x \in Run : (Stored(x) => Stored(x)') /\ Waited(x)
  PROVE  StopInv'
<1>1. HandlesOne' BY DEF StopInv, HandlesOne
<1>2. QED BY <1>1, StopKeeps

LEMMA NoneAppear == (\A r \in Run : Stored(r)' => Stored(r)) => Quieted
BY DEF Quieted

\* What process p holds and saves is there already, if its chain is stopped.
LEMMA HeldAppears ==
  ASSUME StopInv, NEW p \in Proc, NEW r \in Run, job[p][r] # NoJob,
         \A x \in Run : Stored(x)' => Stored(x) \/ x = r
  PROVE  Quieted
BY DEF Quieted, StopInv

LEMMA StopBegin ==
  ASSUME TypeOK, StopInv, NEW p \in Proc, NEW r \in Run, Begin(p, r)
  PROVE  StopInv' /\ Quieted
<1> DEFINE row == job[p][r].row
<1> DEFINE begun == [row EXCEPT !.attempt = @ + 1, !.status = "running"]
<1> DEFINE failed == [begun EXCEPT !.status = "failed"]
<1> DEFINE good == [pc |-> "handling", row |-> begun, ev |-> event[r[2]]]
<1> DEFINE bad == [pc |-> "saving", row |-> failed, ev |-> NoConfig]
<1>1. job[p][r].pc = "claimed" /\ UNCHANGED <<runs, event, quiet>> BY DEF Begin, history, events
<1>2. row \in Row /\ job[p][r] # NoJob BY <1>1 DEF TypeOK, Job, NoJob
<1>3. row.attempt + 1 \in Nat BY <1>2 DEF Row
<1>4. begun \in Row BY <1>2, <1>3, RowUpdates DEF RowStatus
<1>5. begun.acked = row.acked BY <1>2 DEF Row
<1>6. failed.status = "failed" BY <1>4 DEF Row
<1>7. (Live(r[2]) /\ job' = Put(p, r, good)) \/ job' = Put(p, r, bad) BY DEF Begin, events
<1> HIDE DEF begun, failed
<1>8. good.pc = "handling" /\ good.row = begun /\ good.ev = event[r[2]] OBVIOUS
<1>9. bad.pc = "saving" /\ bad.row = failed OBVIOUS
<1> HIDE DEF good, bad, row
<1>10. ASSUME NEW s \in quiet, Ends(r, s)
       PROVE  (Live(r[2]) => Spares(good, r, s)) /\ Spares(bad, r, s)
  <2>1. Heeded(r, s, row)
    <3>1. Spares(job[p][r], r, s) BY <1>10 DEF StopInv
    <3>2. QED BY <1>1, <3>1 DEF Spares, row
  <2>2. Heeded(r, s, begun) /\ (Live(r[2]) => event[r[2]].stopOnAck) BY <1>5, <2>1 DEF Heeded
  <2>3. QED BY <1>6, <1>8, <1>9, <2>2 DEF Spares
<1>11. PICK j : job' = Put(p, r, j) /\ j.pc \in {"handling", "saving"}
               /\ \A s \in quiet : Ends(r, s) => Spares(j, r, s)
  BY <1>7, <1>8, <1>9, <1>10
<1>12. j \in Job
  <2>1. TypeOK' BY NextType DEF Next, Execute
  <2>2. j = job'[p][r] BY <1>11, PutAt DEF TypeOK
  <2>3. QED BY <2>1, <2>2 DEF TypeOK
<1>13. (\A x \in Run : Stored(x) <=> Stored(x)') /\ \A x \in Run : Waited(x) BY <1>1 DEF Stored, Waited
<1>14. QED BY <1>1, <1>2, <1>11, <1>12, <1>13, StopPut, NoneAppear

LEMMA StopHandle ==
  ASSUME TypeOK, StopInv, NEW p \in Proc, NEW r \in Run, Succeed(p, r) \/ Err(p, r)
  PROVE  StopInv' /\ Quieted
<1>1. job[p][r].pc = "handling" /\ UNCHANGED <<runs, event, quiet>> BY DEF Succeed, Err, history, events
<1>2. job[p][r] \in Job /\ job[p][r].row \in Row /\ job[p][r] # NoJob BY <1>1 DEF TypeOK, Job, NoJob
<1>3. PICK row \in Row : /\ job' = Put(p, r, [job[p][r] EXCEPT !.pc = "saving", !.row = row])
                         /\ row.acked = job[p][r].row.acked
  <2>1. CASE Succeed(p, r)
    <3>1. [job[p][r].row EXCEPT !.status = "succeeded"] \in Row BY <1>2, RowUpdates DEF RowStatus
    <3>2. QED BY <1>2, <2>1, <3>1, UnackedRows DEF Succeed, RowStatus, events
  <2>2. CASE Err(p, r)
    <3>1. AfterError(job[p][r].row) \in Row BY <1>2, JobTypes
    <3>2. QED BY <1>2, <2>2, <3>1, UnackedRows DEF Err, events
  <2>3. QED BY <2>1, <2>2
<1>4. PICK j \in Job : job' = Put(p, r, j) /\ j.pc = "saving" /\ j.row = row /\ j.ev = job[p][r].ev
  <2>1. [job[p][r] EXCEPT !.pc = "saving", !.row = row] \in Job BY <1>2, JobUpdates DEF Phase
  <2>2. /\ [job[p][r] EXCEPT !.pc = "saving", !.row = row].pc = "saving"
        /\ [job[p][r] EXCEPT !.pc = "saving", !.row = row].row = row
        /\ [job[p][r] EXCEPT !.pc = "saving", !.row = row].ev = job[p][r].ev
    BY <1>2, JobFields DEF Phase
  <2>3. QED BY <1>3, <2>1, <2>2
<1>5. ASSUME NEW s \in quiet, Ends(r, s) PROVE Spares(j, r, s)
  <2>1. Spares(job[p][r], r, s) BY <1>5 DEF StopInv
  <2>2. Heeded(r, s, job[p][r].row) /\ job[p][r].ev.stopOnAck BY <1>1, <2>1 DEF Spares
  <2>3. Heeded(r, s, row) BY <1>3, <2>2 DEF Heeded
  <2>4. QED BY <1>4, <2>2, <2>3 DEF Spares
<1>6. (\A x \in Run : Stored(x) <=> Stored(x)') /\ \A x \in Run : Waited(x) BY <1>1 DEF Stored, Waited
<1>7. QED BY <1>1, <1>2, <1>4, <1>5, <1>6, StopPut, NoneAppear

LEMMA StopSave ==
  ASSUME TypeOK, ChainInv, StopInv, NEW p \in Proc, NEW r \in Run, Save(p, r)
  PROVE  StopInv' /\ Quieted
<1> DEFINE row == job[p][r].row
<1>1. /\ job[p][r].pc = "saving" /\ UNCHANGED <<event, quiet>>
      /\ job' = Put(p, r, AfterSave(job[p][r]))
      /\ UNCHANGED runs \/ runs' = SaveRow(r, row)
  BY DEF Save, history, events
<1>2. job[p][r] \in Job /\ row \in Row /\ job[p][r] # NoJob BY <1>1 DEF TypeOK, Job, NoJob
<1>3. row.status # "absent" BY <1>1 DEF ChainInv, HandOK
<1>4. \A x \in Run : (Stored(x) => Stored(x)') /\ (Stored(x)' => Stored(x) \/ x = r)
  <2>1. CASE UNCHANGED runs BY <2>1 DEF Stored
  <2>2. CASE runs' = SaveRow(r, row)
    <3>1. \A x \in Run : SaveRow(r, row)[x].status # "absent" <=>
                           Stored(x) \/ (x = r /\ Writable(r))
      BY <1>2, <1>3, KeysKept
    <3>2. QED BY <2>2, <3>1 DEF Stored
  <2>3. QED BY <1>1, <2>1, <2>2
<1>5. \A x \in Run : runs'[x] = runs[x] \/ (x = r /\ runs'[x] = row)
  BY <1>1 DEF SaveRow, TypeOK
<1> HIDE DEF row
<1>6. PICK j \in Job : /\ job' = Put(p, r, j)
                       /\ j = NoJob \/ (/\ j.pc = "following" /\ j.row = row /\ j.ev = job[p][r].ev
                                        /\ row.status = "succeeded")
  <2>1. AfterSave(job[p][r]) \in Job BY <1>2, JobTypes
  <2>2. CASE row.status = "succeeded"
    <3>1. AfterSave(job[p][r]) = [job[p][r] EXCEPT !.pc = "following"] BY <2>2 DEF AfterSave, row
    <3>2. /\ [job[p][r] EXCEPT !.pc = "following"].pc = "following"
          /\ [job[p][r] EXCEPT !.pc = "following"].row = job[p][r].row
          /\ [job[p][r] EXCEPT !.pc = "following"].ev = job[p][r].ev
      BY <1>2 DEF Job
    <3>3. QED BY <1>1, <2>1, <2>2, <3>1, <3>2 DEF row
  <2>3. CASE row.status # "succeeded" BY <1>1, <2>1, <2>3 DEF AfterSave, row
  <2>4. QED BY <2>2, <2>3
<1>7. ASSUME NEW s \in quiet, Ends(r, s)
      PROVE  /\ row.status # "failed" => Heeded(r, s, row)
             /\ Spares(j, r, s)
  <2>1. Spares(job[p][r], r, s) BY <1>7 DEF StopInv
  <2>2. row.status # "failed" => Heeded(r, s, row) /\ job[p][r].ev.stopOnAck BY <1>1, <2>1 DEF Spares, row
  <2>3. CASE j = NoJob
    <3>1. s \in Run BY DEF TypeOK
    <3>2. QED BY <2>2, <2>3, <3>1, NothingSpared
  <2>4. CASE j # NoJob BY <1>6, <2>2, <2>4 DEF Spares
  <2>5. QED BY <2>2, <2>3, <2>4
<1>8. ASSUME NEW s \in quiet, NEW x \in Run, Ends(x, s) PROVE Waited(x) \/ Rests(x, s)'
  <2>1. CASE runs'[x] = runs[x] BY <2>1 DEF Waited
  <2>2. CASE x = r /\ runs'[x] = row
    <3>1. row.status = "pending" => Heeded(r, s, row) BY <1>7, <1>8, <2>2
    <3>2. QED BY <1>1, <2>2, <3>1 DEF Rests, Heeded
  <2>3. QED BY <1>5, <2>1, <2>2
<1>9. j.pc # "acking" BY <1>6 DEF NoJob
<1>10. StopInv' BY <1>1, <1>2, <1>4, <1>6, <1>7, <1>8, <1>9, StopPut
<1>11. QED BY <1>2, <1>4, <1>10, HeldAppears

LEMMA StopNext ==
  ASSUME TypeOK, ChainInv, StopInv, NEW p \in Proc, NEW r \in Run, ScheduleNext(p, r)
  PROVE  StopInv' /\ Quieted
<1> DEFINE row == job[p][r].row
           n == NextOf(r)
<1>1. job' = Put(p, r, NoJob) /\ UNCHANGED <<event, quiet>> /\ job[p][r].pc = "following"
  BY DEF ScheduleNext, history, events
<1>2. job[p][r] \in Job /\ row \in Row /\ NoJob \in Job /\ NoJob.pc = "idle" BY ConstantTypes DEF TypeOK, Job, NoJob
<1>3. \A s \in quiet : s \in Run /\ Spares(NoJob, r, s) BY NothingSpared DEF TypeOK
<1>4. CASE UNCHANGED runs
  <2>1. (\A x \in Run : Stored(x) <=> Stored(x)') /\ \A x \in Run : Waited(x) BY <1>4 DEF Stored, Waited
  <2>2. QED BY <1>1, <1>2, <1>3, <2>1, StopPut, NoneAppear
<1>5. CASE Repeats(r, row, job[p][r].ev) /\ n \in Run /\ runs' = Insert(n, PendingRow(row.max))
  <2>1. PendingRow(row.max) \in Row BY <1>2, ConstantTypes DEF Row
  <2>2. \A x \in Run : runs'[x] = runs[x] \/ (x = n /\ runs'[x] = PendingRow(row.max))
    BY <1>5, <2>1, InsertRunning
  <2>3. \A x \in Run : Stored(x) => runs'[x] = runs[x]
    <3>1. n[4] = revived[n[2]] BY NextOfRun
    <3>2. QED BY <1>5, <2>1, <3>1, InsertKeeps DEF Stored
  <2>4. ~(~Taken(n) /\ ~Stored(n)) => UNCHANGED runs BY <1>5 DEF Insert
  <2>5. n[1] = r[1] /\ n[2] = r[2] /\ n[3] = r[3] + 1 /\ r[3] \in Nat BY NextOfRun
  <2> HIDE DEF n
  <2>6. ASSUME NEW s \in quiet, SameChain(n, s), n[3] < TestBase PROVE n[3] <= s[3]
    <3>1. s[3] \in Nat BY <1>3, NextOfRun
    <3>2. TestBase \in Nat BY ConstantsAssumption
    <3>3. SUFFICES ASSUME r[3] >= s[3] PROVE FALSE BY <2>5, <3>1
    <3>4. Ends(r, s) BY <2>5, <2>6, <3>1, <3>2, <3>3 DEF Ends, SameChain
    <3>5. Spares(job[p][r], r, s) BY <3>4 DEF StopInv
    <3>6. row.acked /\ job[p][r].ev.stopOnAck BY <1>1, <3>5 DEF Spares, Heeded
    <3>7. QED BY <1>5, <3>6 DEF Repeats
  <2>7. ASSUME NEW s \in quiet, NEW x \in Run, Ends(x, s) PROVE Waited(x)
    <3>1. CASE runs'[x] = runs[x] BY <3>1 DEF Waited
    <3>2. CASE x = n /\ runs'[x] # runs[x]
      <4>1. ~Taken(n) /\ ~Stored(n) BY <2>4, <3>2
      <4>2. n[3] = s[3]
        <5>1. s[3] \in Nat /\ n[3] \in Nat BY <1>3, <3>2, NextOfRun
        <5>2. n[3] <= s[3] /\ n[3] >= s[3] BY <2>6, <2>7, <3>2 DEF Ends
        <5>3. QED BY <5>1, <5>2
      <4>3. SameKey(s, n) BY <2>7, <3>2, <4>2 DEF Ends, SameKey, SameChain
      <4>4. QED BY <1>3, <4>1, <4>3 DEF StopInv, Taken
    <3>3. QED BY <2>2, <3>1, <3>2
  <2>8. StopInv' BY <1>1, <1>2, <1>3, <2>3, <2>7, StopPut DEF Stored
  <2>9. Quieted
    <3>1. \A x \in Run : ~Stored(x) /\ Stored(x)' => x = n BY <2>2 DEF Stored
    <3>2. QED BY <2>6, <3>1 DEF Quieted
  <2>10. QED BY <2>8, <2>9
<1>6. QED BY <1>4, <1>5 DEF ScheduleNext, events

LEMMA StopExecute ==
  ASSUME TypeOK, ChainInv, StopInv, NEW p \in Proc, NEW r \in Run, Execute(p, r)
  PROVE  StopInv' /\ Quieted
BY StopBegin, StopHandle, StopSave, StopNext DEF Execute

\* A claim takes rows that wait, and their acknowledgements with them.
LEMMA StopClaim ==
  ASSUME TypeOK, StopInv, NEW w \in Worker, Claim(w)
  PROVE  StopInv' /\ Quieted
<1>1. PICK R \in SUBSET Due :
        /\ runs' = [r \in Run |-> IF r \in R THEN [runs[r] EXCEPT !.status = "running"] ELSE runs[r]]
        /\ job' = [job EXCEPT ![w] = [r \in Run |-> IF r \in R
                                                    THEN [NoJob EXCEPT !.pc = "claimed", !.row = runs[r]]
                                                    ELSE NoJob]]
  BY DEF Claim, events
<1>2. w \in Proc /\ w \notin Request /\ Idle(w) /\ UNCHANGED <<event, quiet>>
  BY ConstantsAssumption DEF Claim, Proc, history, events
<1>3. /\ \A q \in Proc, s \in Run : q # w => job'[q][s] = job[q][s]
      /\ \A s \in Run : job'[w][s] = IF s \in R THEN [NoJob EXCEPT !.pc = "claimed", !.row = runs[s]] ELSE NoJob
  BY <1>1, <1>2 DEF TypeOK
<1>4. \A s \in Run : /\ [NoJob EXCEPT !.pc = "claimed", !.row = runs[s]].pc = "claimed"
                     /\ [NoJob EXCEPT !.pc = "claimed", !.row = runs[s]].row = runs[s]
  BY DEF NoJob
<1>5. NoJob.pc = "idle" BY DEF NoJob
<1>6. \A x \in Run : (Stored(x) <=> Stored(x)') /\ Waited(x)
  BY <1>1 DEF TypeOK, Row, Stored, Waited, Due
<1>7. Heeds BY <1>2, HeedsStill
<1>8. HandlesOne'
  <2>1. \A q \in Request : q \in Proc /\ q # w BY <1>2 DEF Proc
  <2>2. \A q \in Request, r \in Run : job'[q][r] = job[q][r] BY <1>3, <2>1
  <2>3. \A r \in Run : job'[w][r].pc # "acking" BY <1>3, <1>4, <1>5
  <2>4. \A p \in Proc, r \in Run : job'[p][r].pc = "acking" => p \in Request /\ "ack" \in Allowed
    BY <1>3, <2>3 DEF StopInv, HandlesOne
  <2>5. QED BY <2>2, <2>4 DEF StopInv, HandlesOne
<1>9. ASSUME NEW s \in quiet, NEW r \in Run, Ends(r, s)
      PROVE  Spares(job[w][r], r, s)'
  <2>1. s \in Run BY DEF TypeOK
  <2>2. PICK j : j = job'[w][r] OBVIOUS
  <2>3. Spares(j, r, s)
    <3>1. CASE r \in R
      <4>1. runs[r].status = "pending" BY <3>1 DEF Due
      <4>2. Heeded(r, s, runs[r]) BY <1>9, <4>1 DEF StopInv, Rests
      <4>3. j.pc = "claimed" /\ j.row = runs[r] BY <1>3, <1>4, <2>2, <3>1
      <4>4. QED BY <4>2, <4>3 DEF Spares
    <3>2. CASE r \notin R BY <1>3, <2>1, <2>2, <3>2, NothingSpared
    <3>3. QED BY <3>1, <3>2
  <2>4. Spares(j, r, s)' BY <1>2, <1>7, <2>3, SparesStays
  <2>5. QED BY <2>2, <2>4 DEF Spares, Heeded
<1>10. \A s \in quiet, r \in Run : Ends(r, s) =>
         \A p \in Proc : job'[p][r] = job[p][r] \/ Spares(job[p][r], r, s)'
  BY <1>3, <1>9
<1>a. \A p \in Proc, r \in Run : job'[p][r] = job[p][r] \/ job'[p][r] = NoJob \/ Stored(r)'
  <2>1. \A r \in R : Stored(r) BY DEF Due, Stored
  <2>2. QED BY <1>3, <1>6, <2>1
<1>11. StopInv' BY <1>2, <1>6, <1>7, <1>8, <1>10, <1>a, StopKeeps
<1>12. QED BY <1>6, <1>11, NoneAppear

LEMMA StopRetry ==
  ASSUME TypeOK, ChainInv, StopInv, NEW q \in Request, NEW r \in Run, RetryRead(q, r) \/ RetrySave(q, r)
  PROVE  StopInv' /\ Quieted
<1>0. q \in Proc /\ NoJob \in Job /\ NoJob.pc = "idle" BY ConstantTypes DEF Proc, NoJob
<1>1. CASE RetryRead(q, r)
  <2> DEFINE taken == [runs[r] EXCEPT !.status = "running", !.attempt = 0]
  <2>1. taken \in Row
    <3>1. runs[r] \in Row BY DEF TypeOK
    <3>2. QED BY <3>1, RowUpdates DEF RowStatus
  <2>2. /\ job' = Put(q, r, [NoJob EXCEPT !.pc = "retrying", !.row = taken])
        /\ Idle(q) /\ Stored(r) /\ UNCHANGED <<runs, event, quiet>>
    BY <1>1 DEF RetryRead, history, events
  <2> HIDE DEF taken
  <2>3. [NoJob EXCEPT !.pc = "retrying", !.row = taken] \in Job BY <1>0, <2>1, JobUpdates DEF Phase
  <2>4. [NoJob EXCEPT !.pc = "retrying", !.row = taken].pc = "retrying"
    BY <1>0, <2>1, JobFields DEF Phase
  <2>5. PICK j \in Job : job' = Put(q, r, j) /\ j.pc = "retrying" BY <2>2, <2>3, <2>4
  <2>6. \A s \in quiet : Spares(j, r, s) BY <2>5 DEF Spares
  <2>7. (\A x \in Run : Stored(x) <=> Stored(x)') /\ \A x \in Run : Waited(x) BY <2>2 DEF Stored, Waited
  <2>8. QED BY <1>0, <2>2, <2>5, <2>6, <2>7, StopPut, NoneAppear
<1>2. CASE RetrySave(q, r)
  <2>1. /\ job[q][r] \in Job /\ job[q][r].row \in Row /\ job[q][r].pc = "retrying" /\ UNCHANGED event
        /\ job[q][r].row.status # "absent" /\ job[q][r] # NoJob
    BY <1>0, <1>2 DEF RetrySave, TypeOK, Job, ChainInv, HandOK, events
  <2>2. CASE job' = Put(q, r, NoJob) /\ UNCHANGED <<runs, quiet>>
    <3>1. (\A x \in Run : Stored(x) <=> Stored(x)') /\ \A x \in Run : Waited(x) BY <2>2 DEF Stored, Waited
    <3>2. \A s \in quiet : Spares(NoJob, r, s) BY NothingSpared DEF TypeOK
    <3>3. QED BY <1>0, <2>1, <2>2, <3>1, <3>2, StopPut, NoneAppear
  <2>3. CASE /\ runs' = SaveRow(r, job[q][r].row) /\ job' = Put(q, r, [job[q][r] EXCEPT !.pc = "claimed"])
             /\ quiet' = {s \in quiet : ~SameChain(s, r)}
    <3>1. \A x \in Run : runs'[x] = runs[x] \/ x = r BY <2>3 DEF SaveRow, TypeOK
    <3>2. \A x \in Run : (Stored(x) => Stored(x)') /\ (Stored(x)' => Stored(x) \/ x = r)
      <4>1. \A x \in Run : SaveRow(r, job[q][r].row)[x].status # "absent" <=>
                             Stored(x) \/ (x = r /\ Writable(r))
        BY <2>1, KeysKept
      <4>2. QED BY <2>3, <4>1 DEF Stored
    <3>3. PICK j \in Job : job' = Put(q, r, j) /\ j.pc = "claimed"
      <4>1. [job[q][r] EXCEPT !.pc = "claimed"] \in Job BY <2>1, JobUpdates DEF Phase
      <4>2. [job[q][r] EXCEPT !.pc = "claimed"].pc = "claimed" BY <2>1 DEF Job
      <4>3. QED BY <2>3, <4>1, <4>2
    <3>4. quiet' \subseteq quiet /\ \A s \in quiet' : ~Ends(r, s) BY <2>3 DEF Ends, SameChain
    <3>5. \A s \in quiet', x \in Run : Ends(x, s) => Waited(x) BY <3>1, <3>4 DEF Waited
    <3>6. StopInv' BY <1>0, <2>1, <3>2, <3>3, <3>4, <3>5, StopPut
    <3>7. QED BY <1>0, <2>1, <3>2, <3>6, HeldAppears
  <2>4. QED BY <1>2, <2>2, <2>3 DEF RetrySave, events
<1>3. QED BY <1>1, <1>2

LEMMA StopTest ==
  ASSUME TypeOK, ChainInv, StopInv, NEW q \in Request, NEW m \in Match, NEW e \in Event, TestEvent(q, m, e)
  PROVE  StopInv' /\ Quieted
<1>1. PICK y \in Run, j \in Job :
        /\ y[3] >= TestBase /\ ~Stored(y)
        /\ runs' = [runs EXCEPT ![y] = TestRow]
        /\ job' = Put(q, y, j) /\ j.pc = "claimed"
        /\ UNCHANGED <<event, quiet>>
  BY TestCreates
<1>2. q \in Proc /\ Idle(q) /\ y[3] \in Nat /\ TestBase \in Nat
  BY NextOfRun, ConstantsAssumption DEF Proc, TestEvent
<1>3. runs'[y] = TestRow /\ \A x \in Run : x # y => runs'[x] = runs[x] BY <1>1 DEF TypeOK
<1>4. TestRow.status = "running" BY UnackedRows
<1>5. \A x \in Run : Stored(x) => Stored(x)' BY <1>3, <1>4 DEF Stored
<1>6. Stored(y)' BY <1>3, <1>4 DEF Stored
<1>7. \A x \in Run : Waited(x) BY <1>3, <1>4 DEF Waited
<1>8. ~(y[3] < TestBase) BY <1>1, <1>2
<1>9. \A s \in quiet : ~Ends(y, s) BY <1>8 DEF Ends
<1>10. StopInv' BY <1>1, <1>2, <1>5, <1>6, <1>7, <1>9, StopPut
<1>11. Quieted BY <1>3, <1>8 DEF Quieted, Stored
<1>12. QED BY <1>10, <1>11

\* Process q, which holds at most what it puts away, tells the chain of r to
\* stop after r.
LEMMA StopRecorded ==
  ASSUME TypeOK, StopInv, NEW q \in Proc, NEW r \in Run, UNCHANGED event, RecordStop(q, r),
         \A x \in Run : job'[q][x] = NoJob,
         \A p \in Proc, x \in Run : p # q => job'[p][x] = job[p][x],
         \A x \in Run : Stored(x) => Stored(x)', Live(r[2]), Stored(r)',
         \A x \in Run : Ends(x, r) => Rests(x, r)',
         \A s \in quiet, x \in Run : Ends(x, s) => Waited(x) \/ Rests(x, s)'
  PROVE  StopInv'
<1>1. Heeds
  <2>1. quiet' \subseteq quiet \cup {r} BY DEF RecordStop
  <2>2. QED BY <2>1 DEF Heeds, StopInv, Live
<1>2. NoJob.pc = "idle" BY DEF NoJob
<1>3. HandlesOne'
  <2>1. \A p \in Request : p \in Proc BY DEF Proc
  <2>2. \A p \in Request, y, x \in Run : job'[p][y] # NoJob /\ job'[p][x] # NoJob => y = x
    BY <2>1 DEF StopInv, HandlesOne
  <2>3. \A p \in Proc, y \in Run : job'[p][y].pc = "acking" => p \in Request /\ "ack" \in Allowed
    BY <1>2 DEF StopInv, HandlesOne
  <2>4. QED BY <2>2, <2>3 DEF HandlesOne
<1>4. ASSUME NEW s \in Run, NEW x \in Run PROVE Spares(job[q][x], x, s)'
  <2>1. Spares(NoJob, x, s)' BY NothingSpared
  <2>2. job'[q][x] = NoJob OBVIOUS
  <2>3. QED BY <2>1, <2>2 DEF Spares, Heeded
<1>5. CASE UNCHANGED quiet
  <2>1. \A s \in quiet, x \in Run : Ends(x, s) =>
          \A p \in Proc : job'[p][x] = job[p][x] \/ Spares(job[p][x], x, s)'
    BY <1>4 DEF TypeOK
  <2>2. \A p \in Proc, x \in Run : job'[p][x] = job[p][x] \/ job'[p][x] = NoJob OBVIOUS
  <2>3. QED BY <1>1, <1>3, <1>5, <2>1, <2>2, StopKeeps
<1>6. CASE AtRest(q, r) /\ quiet' = quiet \cup {r}
  <2>1. \A s \in quiet : s \in Run BY DEF TypeOK
  <2>2. \A s \in quiet' : Live(s[2])' /\ Stored(s)' BY <1>6, <2>1 DEF StopInv, Live
  <2>a. ASSUME NEW s \in quiet', NEW x \in Run, SameChain(x, s), NEW p \in Proc, job'[p][x] # NoJob
        PROVE  Stored(x)'
    <3>1. p # q /\ job'[p][x] = job[p][x] BY <2>a
    <3>2. s # r BY <1>6, <2>a, <3>1 DEF AtRest
    <3>3. Stored(x) BY <1>6, <2>a, <3>1, <3>2 DEF StopInv
    <3>4. QED BY <3>3
  <2>3. ASSUME NEW x \in Run, Ends(x, r)
        PROVE  Rests(x, r)' /\ \A p \in Proc : Spares(job[p][x], x, r)'
    <3>1. ASSUME NEW p \in Proc, p # q PROVE Spares(job[p][x], x, r)'
      <4>1. job'[p][x] = NoJob BY <1>6, <2>3, <3>1 DEF AtRest, Ends
      <4>2. Spares(NoJob, x, r)' BY NothingSpared
      <4>3. QED BY <4>1, <4>2 DEF Spares, Heeded
    <3>2. QED BY <1>4, <2>3, <3>1
  <2>4. ASSUME NEW s \in quiet, NEW x \in Run, Ends(x, s)
        PROVE  Rests(x, s)' /\ \A p \in Proc : Spares(job[p][x], x, s)'
    <3>1. Rests(x, s) /\ \A p \in Proc : Spares(job[p][x], x, s) BY <2>4 DEF StopInv
    <3>2. Rests(x, s)'
      <4>1. CASE Waited(x) BY <3>1, <4>1 DEF Rests, Waited, Heeded
      <4>2. QED BY <2>4, <4>1
    <3>3. ASSUME NEW p \in Proc, p # q PROVE Spares(job[p][x], x, s)'
      <4>1. PICK j : j = job[p][x] OBVIOUS
      <4>2. Spares(j, x, s)' BY <1>1, <1>6, <3>1, <4>1, SparesStays
      <4>3. job'[p][x] = j BY <3>3, <4>1
      <4>4. QED BY <4>2, <4>3 DEF Spares, Heeded
    <3>4. QED BY <1>4, <2>1, <3>2, <3>3
  <2>5. QED BY <1>3, <1>6, <2>2, <2>3, <2>4, <2>a DEF StopInv, Ends, SameChain
<1>7. QED BY <1>5, <1>6 DEF RecordStop

LEMMA StopCancel ==
  ASSUME TypeOK, ChainInv, StopInv, NEW q \in Request, NEW r \in Run, Cancel(q, r)
  PROVE  StopInv' /\ Quieted
<1>1. /\ Idle(q) /\ Stored(r) /\ runs' = CancelPendingAfter(runs, r, r[3])
      /\ RecordStop(q, r) /\ UNCHANGED <<event, job>> /\ q \in Proc
  BY DEF Cancel, Proc, events
<1>2. \A x \in Run : Stored(x) <=> Stored(x)'
  <2>1. \A x \in Run : CancelPendingAfter(runs, r, r[3])[x].status = "absent" <=> runs[x].status = "absent"
    BY NextOfRun, CancelKeeps DEF TypeOK
  <2>2. QED BY <1>1, <2>1 DEF Stored
<1>3. \A x \in Run : \/ runs'[x] = runs[x] /\ ~(Ends(x, r) /\ runs[x].status = "pending")
                     \/ runs'[x].status = "cancelled"
  BY <1>1 DEF CancelPendingAfter, TypeOK, Row, Ends
<1>4. \A x \in Run : Waited(x) /\ (Ends(x, r) => Rests(x, r)') BY <1>3 DEF Waited, Rests
<1>5. \A x \in Run : job'[q][x] = NoJob BY <1>1 DEF Idle
<1>6. Live(r[2]) BY <1>1 DEF ChainInv
<1>7. StopInv' BY <1>1, <1>2, <1>4, <1>5, <1>6, StopRecorded
<1>8. QED BY <1>2, <1>7, NoneAppear

LEMMA StopAckRead ==
  ASSUME TypeOK, StopInv, NEW q \in Request, NEW r \in Run, AckRead(q, r)
  PROVE  StopInv' /\ Quieted
<1>0. q \in Proc /\ NoJob \in Job /\ runs[r] \in Row BY ConstantTypes DEF Proc, TypeOK
<1>1. /\ "ack" \in Allowed /\ Idle(q) /\ Stored(r) /\ UNCHANGED <<runs, event, quiet>>
      /\ job' = Put(q, r, [NoJob EXCEPT !.pc = "acking", !.row = runs[r]])
  BY DEF AckRead, history, events
<1>2. PICK j \in Job : job' = Put(q, r, j) /\ j.pc = "acking" /\ j.row = runs[r]
  <2>1. [NoJob EXCEPT !.pc = "acking", !.row = runs[r]] \in Job BY <1>0, JobUpdates DEF Phase
  <2>2. /\ [NoJob EXCEPT !.pc = "acking", !.row = runs[r]].pc = "acking"
        /\ [NoJob EXCEPT !.pc = "acking", !.row = runs[r]].row = runs[r]
    BY <1>0, JobFields DEF Phase
  <2>3. QED BY <1>1, <2>1, <2>2
<1>3. \A s \in quiet : Ends(r, s) => Spares(j, r, s) BY <1>2 DEF StopInv, Rests, Spares
<1>4. (\A x \in Run : Stored(x) <=> Stored(x)') /\ \A x \in Run : Waited(x) BY <1>1 DEF Stored, Waited
<1>5. QED BY <1>0, <1>1, <1>2, <1>3, <1>4, StopPut, NoneAppear

LEMMA StopAckSave ==
  ASSUME TypeOK, ChainInv, StopInv, NEW q \in Request, NEW r \in Run, AckSave(q, r)
  PROVE  StopInv' /\ Quieted
<1> DEFINE old == job[q][r].row
           row == [old EXCEPT !.acked = TRUE]
           acked == SaveRow(r, row)
<1>0. q \in Proc /\ NoJob \in Job /\ NoJob.pc = "idle" BY ConstantTypes DEF Proc, NoJob
<1>1. job[q][r].pc = "acking" /\ job' = Put(q, r, NoJob) /\ UNCHANGED event BY DEF AckSave, events
<1>2. /\ job[q][r] # NoJob /\ old \in Row /\ old.status # "absent"
      /\ "ack" \in Allowed
  BY <1>0, <1>1 DEF TypeOK, Job, ChainInv, HandOK, StopInv, HandlesOne
<1>3. row \in Row /\ row.status = old.status /\ row.acked BY <1>2, RowUpdates, AckedFields DEF Row
<1> HIDE DEF old, row
<1>4. acked \in [Run -> Row] BY <1>3, TableTypes DEF TypeOK
<1>5. \A x \in Run : acked[x].status # "absent" <=> Stored(x) \/ (x = r /\ Writable(r))
  BY <1>2, <1>3, KeysKept
<1>6. \A x \in Run : acked[x] = runs[x] \/ (x = r /\ acked[x] = row) BY DEF SaveRow, TypeOK
<1>7. Writable(r) => acked[r] = row BY DEF SaveRow, TypeOK
<1> HIDE DEF acked
<1>8. \/ runs' = acked /\ UNCHANGED quiet
      \/ /\ Writable(r) /\ event[r[2]].stopOnAck
         /\ runs' = CancelPendingAfter(acked, r, r[3] + 1) /\ RecordStop(q, r)
  BY DEF AckSave, acked, row, old, events
<1>9. \A x \in Run : runs'[x] = acked[x] \/ runs'[x].status = "cancelled"
  BY <1>4, <1>8 DEF CancelPendingAfter, Row
<1>10. \A x \in Run : Stored(x)' <=> Stored(x) \/ (x = r /\ Writable(r))
  <2>1. CASE runs' = acked BY <1>5, <2>1 DEF Stored
  <2>2. CASE runs' = CancelPendingAfter(acked, r, r[3] + 1)
    <3>1. r[3] + 1 \in Nat BY NextOfRun
    <3>2. \A x \in Run : runs'[x].status = "absent" <=> acked[x].status = "absent"
      BY <1>4, <2>2, <3>1, CancelKeeps
    <3>3. QED BY <1>5, <3>2 DEF Stored
  <2>3. QED BY <1>8, <2>1, <2>2
<1>11. ASSUME NEW s \in quiet, NEW x \in Run, Ends(x, s) PROVE Waited(x) \/ Rests(x, s)'
  <2>1. CASE runs'[x] = runs[x] \/ runs'[x].status = "cancelled" BY <2>1 DEF Waited
  <2>2. CASE x = r /\ runs'[x] = row
    <3>1. Spares(job[q][r], r, s) BY <1>0, <1>11, <2>2 DEF StopInv
    <3>2. row.status = "pending" => Heeded(r, s, row) BY <1>1, <1>3, <3>1 DEF Spares, Heeded, old
    <3>3. QED BY <1>1, <2>2, <3>2 DEF Rests, Heeded
  <2>3. QED BY <1>6, <1>9, <2>1, <2>2
<1>12. \A p \in Proc, x \in Run : job'[p][x] = IF p = q /\ x = r THEN NoJob ELSE job[p][x]
  BY <1>0, <1>1, PutType DEF TypeOK
<1>13. CASE UNCHANGED quiet
  <2>1. \A s \in quiet : Spares(NoJob, r, s) BY NothingSpared DEF TypeOK
  <2>2. StopInv' BY <1>0, <1>1, <1>2, <1>10, <1>11, <1>13, <2>1, StopPut
  <2>3. QED BY <1>0, <1>2, <1>10, <2>2, HeldAppears
<1>14. CASE /\ Writable(r) /\ event[r[2]].stopOnAck
            /\ runs' = CancelPendingAfter(acked, r, r[3] + 1) /\ RecordStop(q, r)
  <2>1. \A x \in Run : job'[q][x] = NoJob BY <1>0, <1>2, <1>12 DEF StopInv, HandlesOne
  <2>2. \A p \in Proc, x \in Run : p # q => job'[p][x] = job[p][x] BY <1>12
  <2>3. ASSUME NEW x \in Run, Ends(x, r) PROVE Rests(x, r)'
    <3>1. CASE x = r
      <4>1. runs'[r] = row \/ runs'[r].status = "cancelled" BY <1>7, <1>9, <1>14
      <4>2. QED BY <1>1, <1>2, <1>3, <1>14, <3>1, <4>1 DEF Rests, Heeded
    <3>2. CASE x # r /\ x[3] = r[3]
      <4>1. SameKey(x, r) BY <2>3, <3>2 DEF Ends, SameKey
      <4>2. ~Stored(x) BY <1>14, <3>2, <4>1 DEF Writable, Taken
      <4>3. ~Stored(x)' BY <1>10, <3>2, <4>2
      <4>4. QED BY <4>3 DEF Rests, Stored
    <3>3. CASE x[3] # r[3]
      <4>1. x[3] # r[3] BY <3>3
      <4>2. x[3] >= r[3] + 1
        <5>1. x[3] \in Nat /\ r[3] \in Nat /\ x[3] >= r[3] BY <2>3, NextOfRun DEF Ends
        <5>2. QED BY <4>1, <5>1
      <4>3. SameChain(x, r) BY <2>3 DEF Ends
      <4>4. runs'[x].status # "pending" BY <1>4, <1>14, <4>2, <4>3 DEF CancelPendingAfter, Row
      <4>5. QED BY <4>4 DEF Rests
    <3>4. QED BY <3>1, <3>2, <3>3
  <2>a. Live(r[2]) /\ Stored(r)' BY <1>10, <1>14 DEF Writable
  <2>4. StopInv' BY <1>0, <1>1, <1>10, <1>11, <1>14, <2>1, <2>2, <2>3, <2>a, StopRecorded
  <2>5. QED BY <1>0, <1>2, <1>10, <2>4, HeldAppears
<1>15. QED BY <1>8, <1>13, <1>14

\* The pipeline: only the first occurrence is created there, and a chain that
\* was told to stop after its first one still has the row.
LEMMA StopSchedule ==
  ASSUME TypeOK, ChainInv, StopInv, NEW m \in Match, NEW e \in Event, ScheduleEvent(m, e)
  PROVE  StopInv' /\ Quieted
<1>1. UNCHANGED <<event, job, quiet>> /\ (UNCHANGED runs \/ runs' = Insert(Fresh(m, e, 1), PendingRow(MaxAttempts)))
  BY DEF ScheduleEvent, history, events
<1>2. Heeds BY <1>1, HeedsStill
<1>3. CASE UNCHANGED runs
  <2>1. (\A x \in Run : Stored(x) <=> Stored(x)') /\ \A x \in Run : Waited(x) BY <1>3 DEF Stored, Waited
  <2>2. QED BY <1>1, <1>2, <2>1, StopStill, NoneAppear
<1>4. CASE runs' = Insert(Fresh(m, e, 1), PendingRow(MaxAttempts))
  <2>1. PICK n \in Run : n = Fresh(m, e, 1) /\ n[3] = 1 /\ n[4] = revived[n[2]]
    BY FreshOfRun, FirstOccurrence
  <2>2. PendingRow(MaxAttempts) \in Row BY ConstantTypes, ConstantsAssumption
  <2>3. \A x \in Run : runs'[x] = runs[x] \/ x = n BY <1>4, <2>1, <2>2, InsertRunning
  <2>4. \A x \in Run : Stored(x) => runs'[x] = runs[x] BY <1>4, <2>1, <2>2, InsertKeeps DEF Stored
  <2>5. ~(~Taken(n) /\ ~Stored(n)) => UNCHANGED runs BY <1>4, <2>1 DEF Insert
  <2>6. n[3] = 1 BY <2>1
  <2>7. \A s \in quiet : s \in Run /\ s[3] \in Nat /\ s[3] >= 1
    <3>1. \A s \in Run : s[3] \in 1..MaxOccurrence BY NextOfRun
    <3>2. QED BY <3>1, ConstantsAssumption DEF TypeOK
  <2>8. ASSUME NEW s \in quiet, NEW x \in Run, Ends(x, s) PROVE Waited(x)
    <3>1. CASE runs'[x] = runs[x] BY <3>1 DEF Waited
    <3>2. CASE x = n /\ runs'[x] # runs[x]
      <4>1. ~Taken(n) /\ ~Stored(n) BY <2>5, <3>2
      <4>2. n[3] = s[3] BY <2>6, <2>7, <2>8, <3>2 DEF Ends
      <4>3. SameKey(s, n) BY <2>8, <3>2, <4>2 DEF Ends, SameKey, SameChain
      <4>4. QED BY <2>7, <4>1, <4>3 DEF StopInv, Taken
    <3>3. QED BY <2>3, <3>1, <3>2
  <2>9. \A x \in Run : Stored(x) => Stored(x)' BY <2>4 DEF Stored
  <2>10. HandlesOne' BY <1>1 DEF StopInv, HandlesOne
  <2>11. StopInv' BY <1>1, <1>2, <2>8, <2>9, <2>10, StopKeeps DEF Ends
  <2>12. Quieted BY <2>3, <2>6, <2>7 DEF Quieted, Stored
  <2>13. QED BY <2>11, <2>12
<1>5. QED BY <1>1, <1>3, <1>4

\* A crash lets go of what the process held.
LEMMA StopCrash ==
  ASSUME TypeOK, StopInv, NEW p \in Proc, Crash(p)
  PROVE  StopInv' /\ Quieted
<1>1. UNCHANGED <<runs, event, quiet>> BY DEF Crash, history, events
<1>2. \A q \in Proc, r \in Run : job'[q][r] = IF q = p THEN NoJob ELSE job[q][r] BY DEF Crash, TypeOK, events
<1>3. NoJob.pc = "idle" BY DEF NoJob
<1>4. Heeds BY <1>1, HeedsStill
<1>5. (\A x \in Run : Stored(x) <=> Stored(x)') /\ \A x \in Run : Waited(x) BY <1>1 DEF Stored, Waited
<1>6. HandlesOne'
  <2>1. \A q \in Request : q \in Proc BY DEF Proc
  <2>2. \A q \in Request, r \in Run : job'[q][r] # NoJob => job'[q][r] = job[q][r] BY <1>2, <2>1
  <2>3. \A q \in Proc, r \in Run : job'[q][r].pc = "acking" => q \in Request /\ "ack" \in Allowed
    BY <1>2, <1>3 DEF StopInv, HandlesOne
  <2>4. QED BY <2>2, <2>3 DEF StopInv, HandlesOne
<1>7. ASSUME NEW s \in quiet', NEW r \in Run, NEW q \in Proc
      PROVE  job'[q][r] = job[q][r] \/ Spares(job[q][r], r, s)'
  <2>1. CASE q = p
    <3>1. job'[q][r] = NoJob BY <1>2, <2>1
    <3>2. Spares(NoJob, r, s)' BY <1>1, NothingSpared DEF TypeOK
    <3>3. QED BY <3>1, <3>2 DEF Spares, Heeded
  <2>2. QED BY <1>2, <2>1
<1>8. StopInv'
  <2>1. \A q \in Proc, r \in Run : job'[q][r] = job[q][r] \/ job'[q][r] = NoJob BY <1>2
  <2>2. QED BY <1>1, <1>4, <1>5, <1>6, <1>7, <2>1, StopKeeps
<1>9. QED BY <1>5, <1>8, NoneAppear

\* Users' edits and deletions, and time.
LEMMA StopRest ==
  ASSUME StopsHold, TypeOK, EditsInv, StopInv,
         \/ \E m \in Match : ScheduleEvents(m) \/ PollerCrash(m)
         \/ \E e \in Event : EditRead(e) \/ EditSave(e) \/ DeleteEvent(e)
         \/ \E r \in Run : Elapse(r)
  PROVE  StopInv' /\ Quieted
<1>0. ASSUME UNCHANGED runs
      PROVE  (\A x \in Run : Stored(x) <=> Stored(x)') /\ \A x \in Run : Waited(x)
  BY <1>0 DEF Stored, Waited
<1>1. CASE (\E m \in Match : ScheduleEvents(m) \/ PollerCrash(m)) \/ \E e \in Event : EditRead(e)
  <2>1. UNCHANGED <<runs, event, job, quiet>>
    BY <1>1 DEF ScheduleEvents, PollerCrash, EditRead, history, events
  <2>2. Heeds BY <2>1, HeedsStill
  <2>3. QED BY <1>0, <2>1, <2>2, StopStill, NoneAppear
<1>2. CASE \E e \in Event : EditSave(e)
  <2>1. PICK e \in Event : EditSave(e) BY <1>2
  <2>2. UNCHANGED <<runs, job, quiet>> /\ "ack" \notin Allowed
    BY <2>1 DEF EditSave, history, StopsHold, EditsInv
  <2>3. ASSUME NEW x \in Event, Live(x) PROVE Live(x)'
    <3>1. CASE UNCHANGED event BY <2>3, <3>1 DEF Live
    <3>2. CASE \E config \in Configs : event' = [event EXCEPT ![e] = config]
      BY <2>3, <3>2, ConstantsAssumption DEF Live, TypeOK
    <3>3. QED BY <2>1, <3>1, <3>2 DEF EditSave
  <2>4. Heeds BY <2>2, <2>3, NextOfRun DEF Heeds, StopInv, TypeOK
  <2>5. QED BY <1>0, <2>2, <2>4, StopStill, NoneAppear
<1>3. CASE \E e \in Event : DeleteEvent(e)
  <2>1. PICK e \in Event : DeleteEvent(e) BY <1>3
  <2>2. UNCHANGED job /\ quiet' = {s \in quiet : s[2] # e} /\ event' = [event EXCEPT ![e] = Gone]
    BY <2>1 DEF DeleteEvent
  <2>3. \A s \in quiet' : s \in quiet /\ s[2] # e /\ s[2] \in Event BY <2>2, NextOfRun DEF TypeOK
  <2>4. \A s \in quiet' : event'[s[2]] = event[s[2]] BY <2>2, <2>3 DEF TypeOK
  <2>5. Heeds BY <2>3, <2>4 DEF Heeds, StopInv, Live
  <2>6. \A x \in Run : runs'[x] = IF x[2] = e THEN NoRow ELSE runs[x] BY <2>1 DEF DeleteEvent
  <2>7. NoRow.status = "absent" BY DEF NoRow
  <2>8. \A s \in quiet', x \in Run : SameChain(x, s) => runs'[x] = runs[x]
    BY <2>3, <2>6 DEF SameChain
  <2>9. HandlesOne' BY <2>2 DEF StopInv, HandlesOne
  <2>10. quiet' \subseteq quiet BY <2>2
  <2>11. StopInv' BY <2>2, <2>5, <2>8, <2>9, <2>10, StopKeeps DEF Ends, Waited, Stored
  <2>12. \A x \in Run : Stored(x)' => Stored(x) BY <2>6, <2>7 DEF Stored
  <2>13. QED BY <2>11, <2>12, NoneAppear
<1>4. CASE \E r \in Run : Elapse(r)
  <2>1. PICK r \in Run : Elapse(r) BY <1>4
  <2>2. UNCHANGED <<job, event, quiet>> BY <2>1 DEF Elapse, history, events
  <2>3. \A x \in Run : runs'[x].status = runs[x].status /\ runs'[x].acked = runs[x].acked
    BY <2>1 DEF Elapse, TypeOK, Row
  <2>4. Heeds BY <2>2, HeedsStill
  <2>5. (\A x \in Run : Stored(x) <=> Stored(x)') /\ \A x \in Run : Waited(x) BY <2>3 DEF Stored, Waited
  <2>6. QED BY <2>2, <2>4, <2>5, StopStill, NoneAppear
<1>5. QED BY <1>1, <1>2, <1>3, <1>4

LEMMA NextEdits == EditsInv /\ [Next]_vars => EditsInv'
<1> SUFFICES ASSUME EditsInv, [Next]_vars PROVE EditsInv'
  OBVIOUS
<1>1. CASE UNCHANGED editing BY <1>1 DEF EditsInv
<1>2. CASE \E e \in Event : EditRead(e) \/ EditSave(e) BY <1>2 DEF EditsInv, EditRead, EditSave
<1>3. \A p \in Proc, r \in Run : Execute(p, r) => UNCHANGED editing
  BY DEF Execute, Begin, Succeed, Err, Save, ScheduleNext, events
<1>4. \A q \in Request : Serve(q) => UNCHANGED editing
  BY DEF Serve, RetryRead, RetrySave, Cancel, AckRead, AckSave, TestEvent, events
<1>5. /\ \A m \in Match : ScheduleEvents(m) \/ PollerCrash(m) => UNCHANGED editing
      /\ \A m \in Match, e \in Event : ScheduleEvent(m, e) => UNCHANGED editing
      /\ \A e \in Event : DeleteEvent(e) => UNCHANGED editing
  BY DEF ScheduleEvents, PollerCrash, ScheduleEvent, DeleteEvent, events
<1>6. /\ \A w \in Worker : Claim(w) => UNCHANGED editing
      /\ \A p \in Proc : Crash(p) => UNCHANGED editing
      /\ \A r \in Run : Elapse(r) => UNCHANGED editing
  BY DEF Claim, Crash, Elapse, events
<1>7. CASE ~UNCHANGED editing /\ Next
  <2>1. \E e \in Event : EditRead(e) \/ EditSave(e) \/ DeleteEvent(e)
    BY <1>3, <1>4, <1>5, <1>6, <1>7 DEF Next
  <2>2. QED BY <1>2, <1>5, <1>7, <2>1
<1>8. QED BY <1>1, <1>7 DEF vars

LEMMA NextStop ==
  ASSUME StopsHold
  PROVE  /\ TypeOK /\ ChainInv /\ EditsInv /\ StopInv /\ [Next]_vars => StopInv'
         /\ TypeOK /\ ChainInv /\ EditsInv /\ StopInv /\ Next => Quieted
<1>1. ASSUME TypeOK, ChainInv, EditsInv, StopInv, Next PROVE StopInv' /\ Quieted
  <2>1. CASE \E w \in Worker : Claim(w) BY <1>1, <2>1, StopClaim
  <2>2. CASE \E p \in Proc, r \in Run : Execute(p, r) BY <1>1, <2>2, StopExecute
  <2>3. CASE \E q \in Request : Serve(q)
    <3>1. PICK q \in Request : Serve(q) BY <2>3
    <3>2. CASE \E r \in Run : RetryRead(q, r) \/ RetrySave(q, r) BY <1>1, <3>2, StopRetry
    <3>3. CASE \E r \in Run : Cancel(q, r) BY <1>1, <3>3, StopCancel
    <3>4. CASE \E r \in Run : AckRead(q, r) BY <1>1, <3>4, StopAckRead
    <3>5. CASE \E r \in Run : AckSave(q, r) BY <1>1, <3>5, StopAckSave
    <3>6. CASE \E m \in Match, e \in Event : TestEvent(q, m, e) BY <1>1, <3>6, StopTest
    <3>7. QED BY <3>1, <3>2, <3>3, <3>4, <3>5, <3>6 DEF Serve
  <2>4. CASE \E m \in Match, e \in Event : ScheduleEvent(m, e) BY <1>1, <2>4, StopSchedule
  <2>5. CASE \E p \in Proc : Crash(p) BY <1>1, <2>5, StopCrash
  <2>6. CASE \/ \E m \in Match : ScheduleEvents(m) \/ PollerCrash(m)
             \/ \E e \in Event : EditRead(e) \/ EditSave(e) \/ DeleteEvent(e)
             \/ \E r \in Run : Elapse(r)
    BY <1>1, <2>6, StopRest
  <2>7. QED BY <1>1, <2>1, <2>2, <2>3, <2>4, <2>5, <2>6 DEF Next
<1>2. ASSUME TypeOK, StopInv, UNCHANGED vars PROVE StopInv'
  <2>1. UNCHANGED <<runs, event, job, quiet>> BY <1>2 DEF vars
  <2>2. Heeds BY <1>2, <2>1, HeedsStill
  <2>3. \A x \in Run : (Stored(x) => Stored(x)') /\ Waited(x) BY <2>1 DEF Stored, Waited
  <2>4. QED BY <1>2, <2>1, <2>2, <2>3, StopStill
<1>3. QED BY <1>1, <1>2

LEMMA InitStop == Init => StopInv
<1> SUFFICES ASSUME Init PROVE StopInv
  OBVIOUS
<1>1. NoJob.pc = "idle" BY DEF NoJob
<1>2. quiet = {} /\ \A p \in Proc, r \in Run : job[p][r] = NoJob BY DEF Init
<1>3. HandlesOne
  <2>1. \A q \in Request : q \in Proc BY DEF Proc
  <2>2. QED BY <1>1, <1>2, <2>1 DEF HandlesOne
<1>4. QED BY <1>2, <1>3 DEF StopInv

LEMMA InitEdits == Init => EditsInv
BY DEF Init, EditsInv

\* A chain that was at rest when Cancel or an Ack with stop_on_ack ended it
\* creates no later occurrence, whatever is claimed, executed, acknowledged
\* again or edited afterwards, through crashes and failed writes; a retry starts
\* the chain over, and a deletion that an edit undoes.  stop_on_ack must not be edited away between the
\* acknowledgement and the execution of the acknowledged run, so events are
\* edited or runs acknowledged, not both.
THEOREM StopsEndChains ==
  ASSUME StopsHold
  PROVE  Spec => QuietStopEndsChain
<1>1. TypeOK /\ ChainInv /\ EditsInv /\ StopInv /\ [Next]_vars => StopInv' BY NextStop
<1>2. TypeOK /\ ChainInv /\ EditsInv /\ StopInv /\ [Next]_vars
        => [\A r \in Run : ~Stored(r) /\ Stored(r)' /\ r[3] < TestBase =>
              \A s \in quiet : SameChain(r, s) => r[3] <= s[3]]_vars
  BY NextStop DEF Quieted
<1>3. QED
  BY <1>1, <1>2, NextEdits, InitEdits, InitStop, TypeCorrect, ChainInvariant, PTL
     DEF Spec, QuietStopEndsChain
=============================================================================
