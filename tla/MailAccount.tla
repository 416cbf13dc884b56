---------------------------- MODULE MailAccount ----------------------------
(***************************************************************************)
(* One table, mail_accounts, and everybody who works on its rows: the      *)
(* pollers that claim due mailboxes and sync them, the credential checkers *)
(* that re-verify stale ones, and the HTTP requests that create, edit,     *)
(* verify, sync and delete them.  A sync evaluates the new messages of the *)
(* mailbox, records matches and schedules their events.                    *)
(*                                                                         *)
(* All of them read a row, work elsewhere and save every column of it.     *)
(* The accounts are those whose connection needs no renewal of a token:    *)
(* Resolve then only reads.                                                *)
(***************************************************************************)
EXTENDS Integers, FiniteSets

CONSTANTS
  Account,
  Watcher,       \* active watchers; messages no filter selects are left out
  Mailbox,       \* the account each watcher is on
  Poller,        \* worker processes, each with one polling loop
  Checker,       \* worker processes, each with one credential checking loop
  Request,       \* HTTP requests that may be in flight at once
  Batch,         \* poll batch and verify batch: the limit of one claim
  Concurrency,   \* syncs of one batch in flight at once
  MaxMessage,    \* bound: messages that arrive in a mailbox
  MaxCredentials,\* bound: credentials entered for one account
  MaxFaults,     \* bound: failures of the provider
  Allowed,       \* the operations and faults this instance includes
  Nobody         \* owner of a sync run whose process died or failed to close it

Operations == {"sync", "verify", "credentials", "disable", "enable", "rename",
               "delete", "crash", "dberror"}

ASSUME AccountAssumption ==
  /\ Mailbox \in [Watcher -> Account]
  /\ Batch \in Nat \ {0}
  /\ Concurrency \in Nat \ {0}
  /\ MaxMessage \in Nat /\ MaxCredentials \in Nat \ {0} /\ MaxFaults \in Nat
  /\ Allowed \subseteq Operations
  /\ Nobody \notin Poller \cup Checker \cup Request

Proc == Poller \cup Checker \cup Request

\* A matched email by its unique key: the watcher and the message.
Match == Watcher \X (1..MaxMessage)

AccountStatus == {"absent", "pending", "verified", "error", "disabled"}

\* One row of mail_accounts.  due stands for next_poll_at <= now, fresh for a
\* last_verified_at within mail.reverify_after, cursor for the last UID in
\* sync_state, creds for the version of credentials and settings.
Row == [status: AccountStatus, cursor: Nat, due: BOOLEAN, fresh: BOOLEAN, creds: Nat]

NoRow == [status |-> "absent", cursor |-> 0, due |-> FALSE, fresh |-> FALSE, creds |-> 0]

NewRow(creds) ==
  [status |-> "pending", cursor |-> 0, due |-> TRUE, fresh |-> FALSE, creds |-> creds]

\* claimed .. closing are the phases of SyncAccount.
Phase == {"idle", "claimed", "fetching", "failing", "evaluating", "scheduling",
          "closing", "checking", "editing"}

\* What a process holds for one account: its copy of the row, the matches still
\* to be tried and the one just recorded, and the cursor the fetch returned.
Job == [pc: Phase, row: Row, work: SUBSET Match, hit: SUBSET Match, top: Nat]

NoJob == [pc |-> "idle", row |-> NoRow, work |-> {}, hit |-> {}, top |-> 0]

Holding(pc, row) == [NoJob EXCEPT !.pc = pc, !.row = row]

VARIABLES
  accounts,   \* mail_accounts: the row of each account, NoRow when there is none
  gone,       \* accounts that were deleted
  arrived,    \* per mailbox, the UID of its newest message
  job,        \* job[p][a]: what process p holds for account a
  open,       \* mail_sync_runs in status running, by owner and account
  matched,    \* matched_emails
  scheduled,  \* how often the events of each match were scheduled
  faults,     \* failures of the provider so far
  entered,    \* the newest version of credentials a user entered
  checked     \* history: the credentials the provider has accepted

vars == <<accounts, gone, arrived, job, open, matched, scheduled, faults,
          entered, checked>>

pipeline == <<arrived, open, matched, scheduled>>
history == <<entered, checked>>

TypeOK ==
  /\ accounts \in [Account -> Row]
  /\ gone \subseteq Account
  /\ arrived \in [Account -> 0..MaxMessage]
  /\ job \in [Proc -> [Account -> Job]]
  /\ open \subseteq (Proc \cup {Nobody}) \X Account
  /\ matched \subseteq Match
  /\ scheduled \in [Match -> Nat]
  /\ faults \in Nat
  /\ entered \in [Account -> Nat]
  /\ checked \subseteq Account \X Nat

Init ==
  /\ accounts = [a \in Account |-> NoRow]
  /\ gone = {}
  /\ arrived = [a \in Account |-> 0]
  /\ job = [p \in Proc |-> [a \in Account |-> NoJob]]
  /\ open = {}
  /\ matched = {}
  /\ scheduled = [x \in Match |-> 0]
  /\ faults = 0
  /\ entered = [a \in Account |-> 0]
  /\ checked = {}

-----------------------------------------------------------------------------
(* The table and the jobs.                                                 *)

Present(a) == accounts[a].status # "absent"

Put(p, a, j) == [job EXCEPT ![p][a] = j]

\* A claim hands p copies of the rows as they were read.
HandOut(p, S, pc) ==
  [job EXCEPT ![p] =
     [a \in Account |-> IF a \in S THEN Holding(pc, accounts[a]) ELSE NoJob]]

Idle(p) == \A a \in Account : job[p][a] = NoJob

At(p, a, pc) == job[p][a].pc = pc

WatchersOf(a) == {w \in Watcher : Mailbox[w] = a}

\* Faults a maintainer could introduce; each breaks a property below.
StaleUnlessBroken ==
  {a \in Account : accounts[a].status \in {"pending", "verified"} /\ ~accounts[a].fresh}

IsNewUnlessInHand(p, x) ==
  x \notin matched \/ \E q \in Proc \ {p}, a \in Account : x \in job[q][a].hit

SyncedToNewest(a, j) == [j.row EXCEPT !.cursor = arrived[a]]

ReenteredKeepingStatus(row, creds) == [row EXCEPT !.creds = creds]

UnwrittenGivesUp(j) == NoJob

RecordedThenSkipped(j, x) == [j EXCEPT !.work = j.work \ {x}]

\* FindDue and FindStale.
DueNow == {a \in Account : accounts[a].status = "verified" /\ accounts[a].due}

Stale == {a \in Account : /\ accounts[a].status \notin {"absent", "disabled"}
                          /\ ~accounts[a].fresh}

\* Repository.Update is GORM's Save: every column is written by primary key, and
\* a row that is no longer there is inserted again.
SaveRow(a, row) == [accounts EXCEPT ![a] = row]

\* CreateIfNew: the unique (watcher, message) index decides.
IsNew(p, x) == x \notin matched

\* finish: p's sync run of a is closed on the way to phase pc.
Closed(p, a, pc) == open \ {<<p, a>>}

\* The sync runs of a process that dies, or fails to close one, stay running.
Orphaned(runs) == (open \ runs) \cup {<<Nobody, x[2]>> : x \in open \cap runs}

\* What finish leaves: its write may fail, and is then only logged.
Finished(p, a, pc) ==
  {Closed(p, a, pc)} \cup IF "dberror" \in Allowed THEN {Orphaned({<<p, a>>})} ELSE {}

\* The row a successful sync saves: its copy, with the cursor of the fetch.
Synced(a, j) == [j.row EXCEPT !.cursor = j.top]

\* New credentials or settings send the account back for verification.
Reentered(row, creds) == [row EXCEPT !.creds = creds, !.status = "pending"]

\* recordMatch inserted x: its events are scheduled next.
Recorded(j, x) == [j EXCEPT !.pc = "scheduling", !.work = j.work \ {x}, !.hit = {x}]

\* A tracked failure of the provider, or of the connection to it.
ProviderFails == faults < MaxFaults /\ faults' = faults + 1

-----------------------------------------------------------------------------
(* PollDue and SyncAccount.                                                *)

\* Claim up to Batch due mailboxes.  next_poll_at moves in the table only: the
\* rows handed to the pool are those read before.  SKIP LOCKED leaves out rows
\* another transaction holds, so any of the due ones may be claimed.
PollClaim(p) ==
  /\ Idle(p)
  /\ \E S \in SUBSET DueNow :
       /\ S # {} /\ Cardinality(S) <= Batch
       /\ job' = HandOut(p, S, "claimed")
       /\ accounts' = [a \in Account |->
                    IF a \in S THEN [accounts[a] EXCEPT !.due = FALSE] ELSE accounts[a]]
  /\ UNCHANGED <<gone, pipeline, faults, history>>

\* POST _sync: the row as find read it, whatever its status.
SyncStart(q, a) ==
  /\ "sync" \in Allowed
  /\ q \in Request /\ Idle(q) /\ Present(a)
  /\ job' = Put(q, a, Holding("claimed", accounts[a]))
  /\ UNCHANGED <<accounts, gone, pipeline, faults, history>>

InFlight(p) == {a \in Account : job[p][a].pc \notin {"idle", "claimed"}}

\* A slot of the pool opens a sync run.  The foreign key refuses one for an
\* account that is gone.
OpenSync(p, a) ==
  /\ At(p, a, "claimed")
  /\ Cardinality(InFlight(p)) < Concurrency
  /\ IF Present(a)
     THEN /\ job' = Put(p, a, [job[p][a] EXCEPT !.pc = "fetching"])
          /\ open' = open \cup {<<p, a>>}
     ELSE /\ job' = Put(p, a, NoJob)
          /\ UNCHANGED open
  /\ UNCHANGED <<accounts, gone, arrived, matched, scheduled, faults, history>>

\* The connection cannot be resolved: the sync run is closed, the account is
\* left as it is.
Abandon(p, a) ==
  /\ At(p, a, "fetching")
  /\ ProviderFails
  /\ open' \in Finished(p, a, "idle")
  /\ job' = Put(p, a, NoJob)
  /\ UNCHANGED <<accounts, gone, arrived, matched, scheduled, history>>

\* The provider refuses or times out: the sync run is closed first.
FetchFails(p, a) ==
  /\ At(p, a, "fetching")
  /\ ProviderFails
  /\ open' \in Finished(p, a, "failing")
  /\ job' = Put(p, a, [job[p][a] EXCEPT !.pc = "failing", !.row.status = "error"])
  /\ UNCHANGED <<accounts, gone, arrived, matched, scheduled, history>>

RecordFailure(p, a) ==
  /\ At(p, a, "failing")
  /\ accounts' = SaveRow(a, job[p][a].row)
  /\ job' = Put(p, a, NoJob)
  /\ UNCHANGED <<gone, pipeline, faults, history>>

\* The messages above the copy's cursor, for every watcher of the mailbox.
Fetch(p, a) ==
  /\ At(p, a, "fetching")
  /\ job' = Put(p, a, [job[p][a] EXCEPT
              !.pc = "evaluating",
              !.top = arrived[a],
              !.work = WatchersOf(a) \X (job[p][a].row.cursor + 1 .. arrived[a])])
  /\ UNCHANGED <<accounts, gone, pipeline, faults, history>>

\* evaluate and recordMatch for one watcher: messages in order, a match that
\* is already there is skipped.
Evaluate(p, a) ==
  /\ At(p, a, "evaluating")
  /\ \E x \in job[p][a].work :
       /\ \A y \in job[p][a].work : x[2] <= y[2]
       /\ IF IsNew(p, x)
          THEN /\ matched' = matched \cup {x}
               /\ job' = Put(p, a, Recorded(job[p][a], x))
          ELSE /\ job' = Put(p, a, [job[p][a] EXCEPT !.work = job[p][a].work \ {x}])
               /\ UNCHANGED matched
  /\ UNCHANGED <<accounts, gone, arrived, open, scheduled, faults, history>>

\* ScheduleEvents: occurrence 1 of every enabled event of the watcher.
ScheduleEvents(p, a) ==
  /\ At(p, a, "scheduling")
  /\ scheduled' = [x \in Match |->
                     IF x \in job[p][a].hit THEN scheduled[x] + 1 ELSE scheduled[x]]
  /\ job' = Put(p, a, [job[p][a] EXCEPT !.pc = "evaluating", !.hit = {}])
  /\ UNCHANGED <<accounts, gone, arrived, open, matched, faults, history>>

\* The account is saved whole, with the new cursor and the old everything else.
StoreCursor(p, a) ==
  /\ At(p, a, "evaluating") /\ job[p][a].work = {}
  /\ accounts' = SaveRow(a, Synced(a, job[p][a]))
  /\ job' = Put(p, a, Holding("closing", NoRow))
  /\ UNCHANGED <<gone, pipeline, faults, history>>

Close(p, a) ==
  /\ At(p, a, "closing")
  /\ open' \in Finished(p, a, "idle")
  /\ job' = Put(p, a, NoJob)
  /\ UNCHANGED <<accounts, gone, arrived, matched, scheduled, faults, history>>

SyncStep(p, a) ==
  \/ OpenSync(p, a) \/ Abandon(p, a) \/ FetchFails(p, a) \/ RecordFailure(p, a)
  \/ Fetch(p, a) \/ Evaluate(p, a) \/ ScheduleEvents(p, a)
  \/ StoreCursor(p, a) \/ Close(p, a)

-----------------------------------------------------------------------------
(* ReverifyDue and Verify.                                                 *)

\* Claim up to Batch accounts not checked lately, whatever their status unless
\* disabled.  last_verified_at moves in the table only.
CheckClaim(c) ==
  /\ Idle(c)
  /\ \E S \in SUBSET Stale :
       /\ S # {} /\ Cardinality(S) <= Batch
       /\ job' = HandOut(c, S, "checking")
       /\ accounts' = [a \in Account |->
                    IF a \in S THEN [accounts[a] EXCEPT !.fresh = TRUE] ELSE accounts[a]]
  /\ UNCHANGED <<gone, pipeline, faults, history>>

VerifyRead(q, a) ==
  /\ "verify" \in Allowed
  /\ q \in Request /\ Idle(q) /\ Present(a)
  /\ job' = Put(q, a, Holding("checking", accounts[a]))
  /\ UNCHANGED <<accounts, gone, pipeline, faults, history>>

\* The provider accepts the credentials of the copy, and the copy is saved.
CheckPass(p, a) ==
  /\ At(p, a, "checking")
  /\ accounts' = SaveRow(a, [job[p][a].row EXCEPT !.status = "verified", !.fresh = TRUE])
  /\ job' = Put(p, a, NoJob)
  /\ checked' = checked \cup {<<a, job[p][a].row.creds>>}
  /\ UNCHANGED <<gone, pipeline, faults, entered>>

CheckFail(p, a) ==
  /\ At(p, a, "checking")
  /\ ProviderFails
  /\ accounts' = SaveRow(a, [job[p][a].row EXCEPT !.status = "error"])
  /\ job' = Put(p, a, NoJob)
  /\ UNCHANGED <<gone, pipeline, history>>

CheckStep(p, a) == CheckPass(p, a) \/ CheckFail(p, a)

-----------------------------------------------------------------------------
(* The other requests on an account.                                       *)

\* Create, and connect when consent was given for a new address.
Create(a) ==
  /\ ~Present(a) /\ a \notin gone
  /\ accounts' = SaveRow(a, NewRow(1))
  /\ entered' = [entered EXCEPT ![a] = 1]
  /\ UNCHANGED <<gone, pipeline, job, faults, checked>>

\* Update, and connect for an account that is there: read the row, then save it.
EditRead(q, a) ==
  /\ Allowed \cap {"credentials", "disable", "enable", "rename"} # {}
  /\ q \in Request /\ Idle(q) /\ Present(a)
  /\ job' = Put(q, a, Holding("editing", accounts[a]))
  /\ UNCHANGED <<accounts, gone, pipeline, faults, history>>

EditSave(q, a, row) ==
  /\ At(q, a, "editing")
  /\ accounts' = SaveRow(a, row)
  /\ job' = Put(q, a, NoJob)
  /\ UNCHANGED <<gone, pipeline, faults, checked>>

EnterCredentials(q, a) ==
  /\ "credentials" \in Allowed
  /\ entered[a] < MaxCredentials
  /\ EditSave(q, a, Reentered(job[q][a].row, entered[a] + 1))
  /\ entered' = [entered EXCEPT ![a] = entered[a] + 1]

Disable(q, a) ==
  /\ "disable" \in Allowed
  /\ EditSave(q, a, [job[q][a].row EXCEPT !.status = "disabled"])
  /\ UNCHANGED entered

\* The one other status a request may set is verified.
Enable(q, a) ==
  /\ "enable" \in Allowed
  /\ EditSave(q, a, [job[q][a].row EXCEPT !.status = "verified"])
  /\ UNCHANGED entered

\* The display name, or the poll interval: no column told apart here changes.
Rename(q, a) ==
  /\ "rename" \in Allowed
  /\ EditSave(q, a, job[q][a].row)
  /\ UNCHANGED entered

\* Refused while there are watchers.  The sync runs go with the account.
Delete(a) ==
  /\ "delete" \in Allowed
  /\ Present(a)
  /\ WatchersOf(a) = {}
  /\ accounts' = [accounts EXCEPT ![a] = NoRow]
  /\ gone' = gone \cup {a}
  /\ open' = {x \in open : x[2] # a}
  /\ UNCHANGED <<arrived, matched, scheduled, job, faults, history>>

\* A request that ends before its write: the provider, the row or the input was
\* not what it has to be.
Refuse(q, a) ==
  /\ q \in Request
  /\ job[q][a].pc \in {"checking", "editing"}
  /\ job' = Put(q, a, NoJob)
  /\ UNCHANGED <<accounts, gone, pipeline, faults, history>>

RequestStep(q, a) ==
  \/ EnterCredentials(q, a) \/ Disable(q, a) \/ Enable(q, a) \/ Rename(q, a)
  \/ SyncStart(q, a) \/ VerifyRead(q, a) \/ EditRead(q, a) \/ Refuse(q, a)

-----------------------------------------------------------------------------
(* Time, mail and faults.                                                  *)

Arrive(a) ==
  /\ Present(a)
  /\ arrived[a] < MaxMessage
  /\ arrived' = [arrived EXCEPT ![a] = arrived[a] + 1]
  /\ UNCHANGED <<accounts, gone, open, matched, scheduled, job, faults, history>>

\* The poll interval passes: for the row and for every copy of it.
IntervalPasses(a) ==
  /\ Present(a)
  /\ ~accounts[a].due
  /\ accounts' = [accounts EXCEPT ![a].due = TRUE]
  /\ job' = [p \in Proc |-> [job[p] EXCEPT ![a] =
               IF job[p][a] = NoJob THEN NoJob ELSE [job[p][a] EXCEPT !.row.due = TRUE]]]
  /\ UNCHANGED <<gone, pipeline, faults, history>>

\* mail.reverify_after passes since last_verified_at.
Expire(a) ==
  /\ Present(a) /\ accounts[a].fresh
  /\ accounts' = [accounts EXCEPT ![a].fresh = FALSE]
  /\ job' = [p \in Proc |-> [job[p] EXCEPT ![a] =
               IF job[p][a] = NoJob THEN NoJob ELSE [job[p][a] EXCEPT !.row.fresh = FALSE]]]
  /\ UNCHANGED <<gone, pipeline, faults, history>>

\* A worker or the server stops: what the process held is gone.
Crash(p) ==
  /\ "crash" \in Allowed
  /\ ~Idle(p)
  /\ job' = [job EXCEPT ![p] = [a \in Account |-> NoJob]]
  /\ open' = Orphaned({p} \X Account)
  /\ UNCHANGED <<accounts, gone, arrived, matched, scheduled, faults, history>>

\* A statement fails and the code goes on, or gives up, without its effect.  A
\* message whose match cannot be recorded is skipped for all watchers.
Unwritten(j) ==
  CASE j.pc = "evaluating" /\ j.work # {} ->
         [j EXCEPT !.work = {x \in j.work : \E y \in j.work : y[2] < x[2]}]
    [] j.pc = "evaluating" /\ j.work = {} -> Holding("closing", NoRow)
    [] j.pc = "scheduling" -> [j EXCEPT !.pc = "evaluating", !.hit = {}]
    [] OTHER -> NoJob

DBError(p, a) ==
  /\ "dberror" \in Allowed
  /\ job[p][a].pc \notin {"idle", "closing"}
  /\ job' = Put(p, a, Unwritten(job[p][a]))
  /\ IF At(p, a, "fetching") THEN open' \in Finished(p, a, "idle") ELSE UNCHANGED open
  /\ UNCHANGED <<accounts, gone, arrived, matched, scheduled, faults, history>>

Next ==
  \/ \E p \in Poller : PollClaim(p)
  \/ \E c \in Checker : CheckClaim(c)
  \/ \E p \in Proc : Crash(p)
  \/ \E p \in Proc, a \in Account : SyncStep(p, a) \/ CheckStep(p, a) \/ DBError(p, a)
  \/ \E q \in Request, a \in Account : RequestStep(q, a)
  \/ \E a \in Account : Create(a) \/ Delete(a) \/ Arrive(a) \/ IntervalPasses(a) \/ Expire(a)

Spec == Init /\ [][Next]_vars

\* Both loops tick for ever and workers finish what they hold.  Time passes even
\* while the row is rewritten with the same next_poll_at, hence SF there.
\* Nothing is assumed of requests.
Fairness ==
  /\ \A p \in Poller : WF_vars(PollClaim(p)) /\ \A a \in Account : WF_vars(SyncStep(p, a))
  /\ \A c \in Checker : WF_vars(CheckClaim(c)) /\ \A a \in Account : WF_vars(CheckStep(c, a))
  /\ \A a \in Account : SF_vars(IntervalPasses(a)) /\ SF_vars(Expire(a))

FairSpec == Spec /\ Fairness

-----------------------------------------------------------------------------
(* What the pipeline promises.                                             *)

\* However often a message is fetched, by whomever and from whatever cursor,
\* its events are scheduled at most once: only the sync whose insert the unique
\* index let through goes on to ScheduleEvents (CreateIfNew, evaluate).
ScheduledOnce == \A x \in Match : scheduled[x] <= 1

\* The matches of the messages up to cursor n.
Recordable(a, n) == WatchersOf(a) \X (1..n)

\* No cursor, in the table or in a copy that may yet be saved, has passed a
\* message whose matches were not recorded (SyncAccount stores the cursor of the
\* fetch it evaluated).  A failed insert is the exception in the code.
NothingSkipped ==
  \A a \in Account :
    /\ Recordable(a, accounts[a].cursor) \subseteq matched
    /\ \A p \in Proc :
         /\ Recordable(a, job[p][a].row.cursor) \subseteq matched
         /\ Recordable(a, job[p][a].top) \subseteq matched \cup job[p][a].work

\* A recorded match has its events scheduled, or a sync is about to do so: the
\* next sync would skip it as a duplicate (evaluate, CreateIfNew).
MatchIsScheduled ==
  \A x \in matched : scheduled[x] > 0 \/ \E p \in Proc, a \in Account : x \in job[p][a].hit

\* finish closes the sync run on every path: what is running has a sync behind
\* it, or lost its process or its last write.
SyncRunIsOwned ==
  \A x \in open : \/ x[1] = Nobody
                  \/ job[x[1]][x[2]].pc \in {"fetching", "evaluating", "scheduling", "closing"}

\* A row that says verified, and any copy of one that may be saved, holds
\* credentials the provider has accepted (Verify, reverifyOne, Update, connect).
VerifiedWasChecked ==
  \A a \in Account :
    /\ accounts[a].status = "verified" => <<a, accounts[a].creds>> \in checked
    /\ \A p \in Proc : job[p][a].row.status = "verified" => <<a, job[p][a].row.creds>> \in checked

\* Every message reaches its watchers in the end, whatever state a bounded
\* number of provider failures and any stale saves put the account in: accounts
\* in error are checked again and picked up (FindStale).
EveryMessageMatched ==
  \A x \in Match : (Present(Mailbox[x[1]]) /\ arrived[Mailbox[x[1]]] >= x[2]) ~> (x \in matched)

-----------------------------------------------------------------------------
(* What the comments and the API promise, and the full-row saves break.    *)

\* A sync does not make its mailbox due again: the claim pushed next_poll_at
\* forward, and only time brings it back (PollDue).
OnlyTimeMakesDue ==
  [][\A p \in Proc, a \in Account :
       SyncStep(p, a) /\ Present(a) /\ accounts'[a].due => accounts[a].due]_vars

\* A disabled mailbox stays out of the poll queue until its owner acts: neither
\* a sync nor a check by the workers takes it back (FindDue, Update).
WorkersLeaveDisabled ==
  [][\A p \in Poller \cup Checker, a \in Account :
       (SyncStep(p, a) \/ CheckStep(p, a)) /\ accounts[a].status = "disabled"
         => accounts'[a].status = "disabled"]_vars
=============================================================================
