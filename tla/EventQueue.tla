----------------------------- MODULE EventQueue -----------------------------
(***************************************************************************)
(* The run queue: table event_runs, the worker processes that claim due    *)
(* rows and execute them, the HTTP requests that retry, acknowledge,       *)
(* cancel and test runs, and the pipeline's scheduling of occurrence 1.    *)
(*                                                                         *)
(* A run is one row: its unique key (matched email, watcher event,         *)
(* occurrence) and its age, which stands for its id.  An edit that         *)
(* overlaps a deletion saves the event back, and a later run may have the  *)
(* key of one that went with it; the age says how often the event had been *)
(* brought back when the row was created.  A chain is the sequence of      *)
(* occurrences of one (match, event).  Every database call of the code is  *)
(* one step, so whatever a process read earlier may be stale when it       *)
(* writes.                                                                 *)
(***************************************************************************)
EXTENDS Integers, FiniteSets

CONSTANTS
  Match,          \* matched emails
  Event,          \* watcher events
  Worker,         \* worker processes, each with one dispatcher loop
  Request,        \* HTTP requests that may be in flight at once
  Configs,        \* the watcher_events rows a user may write
  Gone,           \* in place of a row: the event was deleted
  Batch,          \* dispatcher batch size: the limit of one claim
  Concurrency,    \* runs of one batch in flight at once
  MaxAttempts,    \* max_attempts of a scheduled run (3 in the code)
  TestBase,       \* first occurrence number of test runs (1000 in the code)
  MaxOccurrence,  \* bound: occurrences above it are not created
  MaxReruns,      \* bound: retries of one run, and successes before the last ack
  MaxRevivals,    \* bound: how often an edit brings a deleted event back
  Allowed         \* the operations and faults this instance includes

Operations == {"cancel", "retry", "ack", "test", "edit", "delete",
               "crash", "dberror"}

EventConfig == [enabled: BOOLEAN, recurring: BOOLEAN, repeatMax: Nat,
                until: BOOLEAN, stopOnAck: BOOLEAN]

ASSUME ConstantsAssumption ==
  /\ Configs \subseteq EventConfig
  /\ Gone \notin EventConfig
  /\ Batch \in Nat \ {0}
  /\ Concurrency \in Nat \ {0}
  /\ MaxAttempts \in Nat \ {0}
  /\ TestBase \in Nat \ {0, 1}
  /\ MaxOccurrence \in Nat \ {0}
  /\ MaxReruns \in Nat
  /\ MaxRevivals \in Nat
  /\ Allowed \subseteq Operations
  /\ Worker \cap Request = {}

Proc == Worker \cup Request

Age == 0..MaxRevivals

Run == Match \X Event \X (1..MaxOccurrence) \X Age

SameChain(r, s) == r[1] = s[1] /\ r[2] = s[2]

\* s repeats r; two rows have the same unique key.
Follows(r, s) == SameChain(r, s) /\ s[3] = r[3] + 1

SameKey(r, s) == SameChain(r, s) /\ s[3] = r[3]

\* repeatMax 0 stands for a null repeat_max; recurring stands for run_mode
\* recurring with a positive interval (a cron expression never repeats).
NoConfig == [enabled |-> FALSE, recurring |-> FALSE, repeatMax |-> 0,
             until |-> FALSE, stopOnAck |-> FALSE]

RowStatus == {"absent", "pending", "running", "succeeded", "failed", "cancelled"}

\* One event_runs row.  due stands for scheduled_at <= now.
Row == [status: RowStatus, attempt: Nat, max: Nat, acked: BOOLEAN, due: BOOLEAN]

NoRow == [status |-> "absent", attempt |-> 0, max |-> MaxAttempts,
          acked |-> FALSE, due |-> FALSE]

PendingRow(max) == [NoRow EXCEPT !.status = "pending", !.max = max]

TestRow == [NoRow EXCEPT !.status = "running", !.max = 1, !.due = TRUE]

Phase == {"idle", "claimed", "handling", "saving", "following",
          "retrying", "acking"}

\* What a process holds in memory for one run: the phase it is in, the row as
\* it read and changed it, and the watcher event as it read it.
Job == [pc: Phase, row: Row, ev: EventConfig]

NoJob == [pc |-> "idle", row |-> NoRow, ev |-> NoConfig]

VARIABLES
  runs,     \* event_runs: the row of each run, NoRow when there is none
  event,    \* watcher_events: a configuration, or Gone once deleted
  revived,  \* how often an edit brought the event back after a deletion
  editing,  \* the events a request has read and may still save
  stored,   \* the matched emails recorded so far
  todo,     \* per match, the events its poller has still to schedule
  job,      \* job[p][r]: what process p holds for run r
  hits,     \* history: successful handler executions of each run
  reruns,   \* history: retries written for each run
  quiet     \* history: runs cancelled, or acknowledged with stop_on_ack, while
            \* their chain was at rest

vars == <<runs, event, revived, editing, stored, todo, job, hits, reruns, quiet>>

events == <<event, revived, editing>>

history == <<hits, reruns, quiet>>

TypeOK ==
  /\ runs \in [Run -> Row]
  /\ event \in [Event -> Configs \cup {Gone}]
  /\ revived \in [Event -> Age]
  /\ editing \subseteq Event
  /\ stored \subseteq Match
  /\ todo \in [Match -> SUBSET Event]
  /\ job \in [Proc -> [Run -> Job]]
  /\ hits \in [Run -> Nat]
  /\ reruns \in [Run -> Nat]
  /\ quiet \subseteq Run

Init ==
  /\ runs = [r \in Run |-> NoRow]
  /\ event \in [Event -> Configs]
  /\ revived = [e \in Event |-> 0]
  /\ editing = {}
  /\ stored = {}
  /\ todo = [m \in Match |-> {}]
  /\ job = [p \in Proc |-> [r \in Run |-> NoJob]]
  /\ hits = [r \in Run |-> 0]
  /\ reruns = [r \in Run |-> 0]
  /\ quiet = {}

-----------------------------------------------------------------------------
(* The table.                                                              *)

Stored(r) == runs[r].status # "absent"

Live(e) == event[e] # Gone

\* The unique index refuses r: another row has its key.
Taken(r) == \E s \in Run : s # r /\ SameKey(s, r) /\ Stored(s)

\* The row of this key that would be created now, and r's next occurrence.
Fresh(m, e, n) == <<m, e, n, revived[e]>>

NextOf(r) == Fresh(r[1], r[2], r[3] + 1)

\* Faults a maintainer could introduce; each breaks a property below.
CancelRunningToo(t, r, n) ==
  [s \in Run |->
     IF SameChain(s, r) /\ s[3] >= n /\ t[s].status \in {"pending", "running"}
       THEN [t[s] EXCEPT !.status = "cancelled"] ELSE t[s]]

CancelOneLate(t, r, n) ==
  [s \in Run |->
     IF SameChain(s, r) /\ s[3] > n /\ t[s].status = "pending"
       THEN [t[s] EXCEPT !.status = "cancelled"] ELSE t[s]]

DueOrRunning == {r \in Run : runs[r].status \in {"pending", "running"} /\ runs[r].due}

AfterErrorOnceMore(row) ==
  IF row.attempt <= row.max
    THEN [row EXCEPT !.status = "pending", !.due = FALSE]
    ELSE [row EXCEPT !.status = "failed"]

AfterErrorStillRunning(row) ==
  IF row.attempt < row.max
    THEN [row EXCEPT !.due = FALSE]
    ELSE [row EXCEPT !.status = "failed"]

AfterSaveOfAnyOutcome(j) ==
  IF j.row.status # "pending" THEN [j EXCEPT !.pc = "following"] ELSE NoJob

AfterSaveOfFirstAttempt(j) ==
  IF j.row.status = "succeeded" /\ j.row.attempt = 1
    THEN [j EXCEPT !.pc = "following"] ELSE NoJob

\* Repository.Create: the unique index refuses a second row with the same key
\* and the foreign key a row whose event is gone.
Insert(r, row) ==
  IF Live(r[2]) /\ ~Stored(r) /\ ~Taken(r) THEN [runs EXCEPT ![r] = row] ELSE runs

\* Repository.Update is GORM's Save: every column is written by primary key,
\* and a row that is no longer there is inserted again, which the foreign key
\* refuses while the event is gone and the unique index once the key is taken.
Writable(r) == Live(r[2]) /\ ~Taken(r)

SaveRow(r, row) ==
  IF Writable(r) THEN [runs EXCEPT ![r] = row] ELSE runs

\* The table t with the pending runs of r's chain from occurrence n cancelled.
CancelPendingAfter(t, r, n) ==
  [s \in Run |->
     IF SameChain(s, r) /\ s[3] >= n /\ t[s].status = "pending"
       THEN [t[s] EXCEPT !.status = "cancelled"] ELSE t[s]]

\* The jobs once process p holds j for run r.
Put(p, r, j) == [job EXCEPT ![p][r] = j]

Idle(p) == \A r \in Run : job[p][r] = NoJob

\* A process has the run in hand and will execute it or is executing it.
InFlight(p, r) == job[p][r].pc \in {"claimed", "handling", "saving"}

\* No process other than p holds anything of r's chain.
AtRest(p, r) ==
  \A q \in Proc \ {p}, s \in Run : SameChain(s, r) => job[q][s] = NoJob

-----------------------------------------------------------------------------
(* The pipeline's side: ScheduleEvents.                                    *)

\* A match is recorded and its watcher's enabled events are read.
ScheduleEvents(m) ==
  /\ m \notin stored
  /\ stored' = stored \cup {m}
  /\ todo' = [todo EXCEPT ![m] = {e \in Event : Live(e) /\ event[e].enabled}]
  /\ UNCHANGED <<runs, events, job, history>>

\* Occurrence 1 of one of them is created; a failed insert is only logged.
ScheduleEvent(m, e) ==
  /\ e \in todo[m]
  /\ todo' = [todo EXCEPT ![m] = @ \ {e}]
  /\ \/ runs' = Insert(Fresh(m, e, 1), PendingRow(MaxAttempts))
     \/ "dberror" \in Allowed /\ UNCHANGED runs
  /\ UNCHANGED <<events, stored, job, history>>

-----------------------------------------------------------------------------
(* The dispatcher.                                                         *)

Due == {r \in Run : runs[r].status = "pending" /\ runs[r].due}

\* Tick's claim transaction.  Any choice within the limit: ORDER BY
\* scheduled_at is abstracted with the clock, and SKIP LOCKED passes over rows
\* that another transaction holds.
Claim(w) ==
  /\ Idle(w)
  /\ \E R \in SUBSET Due :
       /\ R # {} /\ Cardinality(R) <= Batch
       /\ runs' = [r \in Run |-> IF r \in R
                                   THEN [runs[r] EXCEPT !.status = "running"]
                                   ELSE runs[r]]
       /\ job' = [job EXCEPT ![w] =
                    [r \in Run |-> IF r \in R
                                     THEN [NoJob EXCEPT !.pc = "claimed",
                                                        !.row = runs[r]]
                                     ELSE NoJob]]
  /\ UNCHANGED <<events, stored, todo, history>>

\* The runs of process p that occupy a slot of its pool.
Working(p) == {r \in Run : job[p][r].pc \in {"handling", "saving", "following"}}

\* The first half of execute: count the attempt and load what the run needs.
\* A row that cannot be loaded fails the run for good.
Begin(p, r) ==
  /\ job[p][r].pc = "claimed"
  /\ Cardinality(Working(p)) < Concurrency
  /\ LET begun == [job[p][r].row EXCEPT !.attempt = @ + 1, !.status = "running"]
     IN  \/ /\ Live(r[2])
            /\ job' = Put(p, r, [pc  |-> "handling",
                                 row |-> begun,
                                 ev  |-> event[r[2]]])
         \/ /\ ~Live(r[2]) \/ "dberror" \in Allowed
            /\ job' = Put(p, r, [pc  |-> "saving",
                                 row |-> [begun EXCEPT !.status = "failed"],
                                 ev  |-> NoConfig])
  /\ UNCHANGED <<runs, events, stored, todo, history>>

\* What execute makes of the row when the handler returned an error: another
\* attempt after a backoff, or the end.
AfterError(row) ==
  IF row.attempt < row.max
    THEN [row EXCEPT !.status = "pending", !.due = FALSE]
    ELSE [row EXCEPT !.status = "failed"]

\* The handler's effect on the outside world, and the deliveries it leaves.
Succeed(p, r) ==
  /\ job[p][r].pc = "handling"
  /\ LET done == [job[p][r].row EXCEPT !.status = "succeeded"]
     IN  job' = Put(p, r, [job[p][r] EXCEPT !.pc = "saving", !.row = done])
  /\ hits' = [hits EXCEPT ![r] = @ + 1]
  /\ UNCHANGED <<runs, events, stored, todo, reruns, quiet>>

\* The handler failed, was cut by its deadline or found no usable notifier.
Err(p, r) ==
  /\ job[p][r].pc = "handling"
  /\ LET row == AfterError(job[p][r].row)
     IN  job' = Put(p, r, [job[p][r] EXCEPT !.pc = "saving", !.row = row])
  /\ UNCHANGED <<runs, events, stored, todo, history>>

AfterSave(j) ==
  IF j.row.status = "succeeded" THEN [j EXCEPT !.pc = "following"] ELSE NoJob

\* save: the outcome is written with every other column; a failed write is
\* only logged.  A success goes on to scheduleNext either way.
Save(p, r) ==
  /\ job[p][r].pc = "saving"
  /\ \/ runs' = SaveRow(r, job[p][r].row)
     \/ "dberror" \in Allowed /\ UNCHANGED runs
  /\ job' = Put(p, r, AfterSave(job[p][r]))
  /\ UNCHANGED <<events, stored, todo, history>>

\* scheduleNext decides from the row and the event as execute held them.
Repeats(r, row, ev) ==
  /\ ev.recurring
  /\ ev.repeatMax = 0 \/ r[3] < ev.repeatMax
  /\ ~(row.acked /\ ev.stopOnAck)

ScheduleNext(p, r) ==
  LET row == job[p][r].row
      ev  == job[p][r].ev
  IN /\ job[p][r].pc = "following"
     /\ \/ /\ Repeats(r, row, ev) /\ NextOf(r) \in Run
           /\ runs' = Insert(NextOf(r), PendingRow(row.max))
        \/ /\ \/ ~Repeats(r, row, ev)
              \/ NextOf(r) \notin Run            \* bound of the model
              \/ ev.until                        \* repeat_until has passed
              \/ "dberror" \in Allowed
           /\ UNCHANGED runs
     /\ job' = Put(p, r, NoJob)
     /\ UNCHANGED <<events, stored, todo, history>>

-----------------------------------------------------------------------------
(* The HTTP side.                                                          *)

\* Retry reads the run and refuses one in flight ...
RetryRead(q, r) ==
  /\ "retry" \in Allowed
  /\ \A s \in Run : reruns[s] < MaxReruns     \* bound of the model
  /\ Idle(q) /\ Stored(r)
  /\ runs[r].status # "running"
  /\ LET taken == [runs[r] EXCEPT !.status = "running", !.attempt = 0]
     IN  job' = Put(q, r, [NoJob EXCEPT !.pc = "retrying", !.row = taken])
  /\ UNCHANGED <<runs, events, stored, todo, history>>

\* ... and writes it back as running before it executes it.
RetrySave(q, r) ==
  /\ job[q][r].pc = "retrying"
  /\ \/ /\ Writable(r)
        /\ runs' = SaveRow(r, job[q][r].row)
        /\ job' = Put(q, r, [job[q][r] EXCEPT !.pc = "claimed"])
        /\ reruns' = [reruns EXCEPT ![r] = @ + 1]
        /\ quiet' = {s \in quiet : ~SameChain(s, r)}
     \/ /\ ~Writable(r) \/ "dberror" \in Allowed
        /\ job' = Put(q, r, NoJob)
        /\ UNCHANGED <<runs, reruns, quiet>>
  /\ UNCHANGED <<events, stored, todo, hits>>

\* r's chain has been told to stop after r; p is the process telling it.
RecordStop(p, r) ==
  quiet' = IF AtRest(p, r) THEN quiet \cup {r} ELSE quiet

\* Cancel: one transaction whose only write is CancelPendingAfter.
Cancel(q, r) ==
  /\ "cancel" \in Allowed
  /\ Idle(q) /\ Stored(r)
  /\ runs' = CancelPendingAfter(runs, r, r[3])
  /\ RecordStop(q, r)
  /\ UNCHANGED <<events, stored, todo, job, hits, reruns>>

\* Ack reads the run without locking it ...
AckRead(q, r) ==
  /\ "ack" \in Allowed
  /\ \A s \in Run : hits[s] <= MaxReruns      \* bound of the model
  /\ Idle(q) /\ Stored(r)
  /\ job' = Put(q, r, [NoJob EXCEPT !.pc = "acking", !.row = runs[r]])
  /\ UNCHANGED <<runs, events, stored, todo, history>>

\* ... writes every column of it back, and with stop_on_ack cancels what is
\* pending after it, in one commit.
AckSave(q, r) ==
  /\ job[q][r].pc = "acking"
  /\ job' = Put(q, r, NoJob)
  /\ LET acked == SaveRow(r, [job[q][r].row EXCEPT !.acked = TRUE])
     IN  IF Writable(r) /\ event[r[2]].stopOnAck
           THEN /\ runs' = CancelPendingAfter(acked, r, r[3] + 1)
                /\ RecordStop(q, r)
           ELSE runs' = acked /\ UNCHANGED quiet
  /\ UNCHANGED <<events, stored, todo, hits, reruns>>

\* testOccurrence: above every occurrence of the chain and from TestBase on.
IsTestOccurrence(m, e, n) ==
  LET used == {s[3] : s \in {t \in Run : t[1] = m /\ t[2] = e /\ Stored(t)}}
  IN  /\ n >= TestBase /\ \A k \in used : n > k
      /\ n = TestBase \/ n - 1 \in used

\* Test: a run is created in status running and executed by the request.  The
\* number is read and used in two calls; when two tests pick the same one the
\* unique index refuses the second, which changes nothing.
TestEvent(q, m, e) ==
  /\ "test" \in Allowed
  /\ Idle(q) /\ m \in stored /\ Live(e)
  /\ \E n \in 1..MaxOccurrence :
       /\ IsTestOccurrence(m, e, n)
       /\ runs' = Insert(Fresh(m, e, n), TestRow)
       /\ job' = Put(q, Fresh(m, e, n),
                     [NoJob EXCEPT !.pc = "claimed", !.row = TestRow])
  /\ UNCHANGED <<events, stored, todo, history>>

\* Update reads the event without locking it ...
EditRead(e) ==
  /\ "edit" \in Allowed
  /\ Live(e) /\ e \notin editing
  /\ editing' = editing \cup {e}
  /\ UNCHANGED <<runs, event, revived, stored, todo, job, history>>

\* ... and saves every column of it, which inserts it again when a deletion came
\* in between.  A request that is refused or fails writes nothing.
EditSave(e) ==
  /\ e \in editing
  /\ editing' = editing \ {e}
  /\ \/ /\ Live(e) \/ revived[e] < MaxRevivals    \* bound of the model
        /\ \E config \in Configs : event' = [event EXCEPT ![e] = config]
        /\ revived' = [revived EXCEPT ![e] = IF Live(e) THEN @ ELSE @ + 1]
     \/ UNCHANGED <<event, revived>>
  /\ UNCHANGED <<runs, stored, todo, job, history>>

\* Delete cancels the event's pending runs and deletes it; the foreign key
\* takes every run with it.
DeleteEvent(e) ==
  /\ "delete" \in Allowed
  /\ Live(e)
  /\ event' = [event EXCEPT ![e] = Gone]
  /\ runs' = [r \in Run |-> IF r[2] = e THEN NoRow ELSE runs[r]]
  /\ quiet' = {s \in quiet : s[2] # e}
  /\ UNCHANGED <<revived, editing, stored, todo, job, hits, reruns>>

-----------------------------------------------------------------------------
(* The environment.                                                        *)

\* Time passes scheduled_at.
Elapse(r) ==
  /\ runs[r].status = "pending" /\ ~runs[r].due
  /\ runs' = [runs EXCEPT ![r] = [@ EXCEPT !.due = TRUE]]
  /\ UNCHANGED <<events, stored, todo, job, history>>

\* A process stops: what it held in memory is lost, the table stays.
Crash(p) ==
  /\ "crash" \in Allowed
  /\ ~Idle(p)
  /\ job' = [job EXCEPT ![p] = [r \in Run |-> NoJob]]
  /\ UNCHANGED <<runs, events, stored, todo, history>>

PollerCrash(m) ==
  /\ "crash" \in Allowed
  /\ todo[m] # {}
  /\ todo' = [todo EXCEPT ![m] = {}]
  /\ UNCHANGED <<runs, events, stored, job, history>>

\* One step of an execution, whoever runs it.
Execute(p, r) ==
  \/ Begin(p, r)
  \/ Succeed(p, r)
  \/ Err(p, r)
  \/ Save(p, r)
  \/ ScheduleNext(p, r)

Serve(q) ==
  \/ \E r \in Run : RetryRead(q, r) \/ RetrySave(q, r) \/ Cancel(q, r)
                    \/ AckRead(q, r) \/ AckSave(q, r)
  \/ \E m \in Match, e \in Event : TestEvent(q, m, e)

Next ==
  \/ \E m \in Match : ScheduleEvents(m) \/ PollerCrash(m)
  \/ \E m \in Match, e \in Event : ScheduleEvent(m, e)
  \/ \E w \in Worker : Claim(w)
  \/ \E p \in Proc, r \in Run : Execute(p, r)
  \/ \E q \in Request : Serve(q)
  \/ \E e \in Event : EditRead(e) \/ EditSave(e) \/ DeleteEvent(e)
  \/ \E r \in Run : Elapse(r)
  \/ \E p \in Proc : Crash(p)

Spec == Init /\ [][Next]_vars

\* The loops of cmd/worker tick for as long as the process lives, each batch is
\* joined before the next tick, and time passes.  Users owe nothing.
Fairness ==
  /\ \A m \in Match, e \in Event : WF_vars(ScheduleEvent(m, e))
  /\ \A w \in Worker : WF_vars(Claim(w))
  /\ \A p \in Proc, r \in Run : WF_vars(Execute(p, r))
  /\ \A q \in Request, r \in Run : WF_vars(RetrySave(q, r) \/ AckSave(q, r))
  /\ \A r \in Run : WF_vars(Elapse(r))

FairSpec == Spec /\ Fairness
-----------------------------------------------------------------------------
(* Properties.                                                             *)

\* The attempt counter: the dispatcher stops at max_attempts, no row and no copy
\* of one counts more attempts than its maximum, and a queued run still has one
\* left, whatever stale copies Retry, Ack and the dispatcher write over it.
AttemptsBounded ==
  /\ \A r \in Run :
       /\ runs[r].attempt <= runs[r].max
       /\ runs[r].status = "pending" => runs[r].attempt < runs[r].max
  /\ \A p \in Proc, r \in Run :
       job[p][r].row.attempt <= job[p][r].row.max

\* scheduleNext: a repeat chain never runs ahead of itself.  Occurrence n+1
\* exists only if occurrence n was executed successfully at some time.
ChainInOrder ==
  \A s \in Run : Stored(s) /\ 1 < s[3] /\ s[3] < TestBase =>
    \E r \in Run : Follows(r, s) /\ hits[r] > 0

\* The claim of Tick: no two processes ever execute the same run at once.
Exclusive ==
  \A p, q \in Proc, r \in Run : InFlight(p, r) /\ InFlight(q, r) => p = q

\* execute's exit paths: a row in status running always has a process that will
\* write its outcome.  Such a row is never claimed and Retry refuses it, so
\* without one it is stranded.
RunningIsOwned ==
  \A r \in Run : runs[r].status = "running" => \E p \in Proc : InFlight(p, r)

\* A run's handler succeeds at most once for each time somebody asked for it:
\* once for the schedule, once more for each retry written.  No crash, failed
\* write or race of Retry with the claim sends a notification twice.
OncePerRequest ==
  \A r \in Run : hits[r] <= 1 + reruns[r]

\* CancelPendingAfter touches only pending rows and a claimed row is no longer
\* pending: no outcome is ever written over a cancelled run.
CancelledStaysCancelled ==
  [][\A r \in Run : runs[r].status = "cancelled" =>
                      runs'[r].status \in {"cancelled", "absent"}]_vars

\* Cancel and Ack with stop_on_ack end a chain for good when no process had any
\* of its runs in hand: no later occurrence is created.
QuietStopEndsChain ==
  [][\A r \in Run : ~Stored(r) /\ Stored(r)' /\ r[3] < TestBase =>
       \A s \in quiet : SameChain(r, s) => r[3] <= s[3]]_vars

\* The claim of ScheduleEvents' comment: a schedule is never lost.  A succeeded
\* run that is to repeat has its next occurrence, or a process about to write it.
NextIsScheduled ==
  \A r \in Run :
    /\ runs[r].status = "succeeded" /\ Live(r[2]) /\ NextOf(r) \in Run
    /\ Repeats(r, runs[r], event[r[2]]) /\ ~event[r[2]].until
    => \/ \E s \in Run : Follows(r, s) /\ Stored(s)
       \/ \E p \in Proc : job[p][r].pc = "following"

\* Every run that is queued or in flight is settled in the end.
EveryRunSettles ==
  \A r \in Run : runs[r].status \in {"pending", "running"} ~>
                 runs[r].status \in {"succeeded", "failed", "cancelled", "absent"}

\* A repeating event goes on until repeat_max: a success is followed by the next
\* occurrence's success, failure or cancellation.
EveryRepeatSettles ==
  \A r \in {s \in Run : s[3] < MaxOccurrence} :
    runs[r].status = "succeeded" /\ Repeats(r, runs[r], event[r[2]])
    ~> \E s \in Run : /\ Follows(r, s)
                       /\ runs[s].status \in {"succeeded", "failed", "cancelled"}

-----------------------------------------------------------------------------
(* The queue implements RunLifecycle: a run without a row in the table is  *)
(* orphaned while a process still has it in hand.                          *)

Scheduled == {r \in Run : r[3] = 1}

Tests == {r \in Run : r[3] >= TestBase}

Successive == {x \in Run \X Run : Follows(x[1], x[2])}

lifeStatus ==
  [r \in Run |-> IF ~Stored(r) /\ \E p \in Proc : InFlight(p, r)
                   THEN "orphaned" ELSE runs[r].status]

Life == INSTANCE RunLifecycle WITH
          First     <- Scheduled,
          Manual    <- Tests,
          Successor <- Successive,
          status    <- lifeStatus,
          sent      <- hits

\* What a run may go through, for any workers, crashes and failed writes, as
\* long as nobody retries or acknowledges.
LifeSpec == Life!Spec
=============================================================================
