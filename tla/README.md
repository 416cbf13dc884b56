# MailPulse: specifications, model checking and proofs

MailPulse watches mailboxes. A worker polls each mail account, evaluates new
messages against the filters of the watchers on that account, records a match,
and runs the watcher's events (a notification, an HTTP call), once or repeatedly.
A web process serves the API with which users configure all of this and act on
runs. The two processes share nothing but the database (Postgres, through GORM)
and Redis; either may be started several times.

This directory specifies that program in TLA+, model-checks it with TLC and
proves properties of it with TLAPS. Paths below are relative to the repository.

## 1. Inventory

| Part | State | Operations | Talks to |
|---|---|---|---|
| Run queue, dispatcher (`internal/usecase/dispatcher_usecase.go`, `event_run_repository.go`) | table `event_runs`; the rows a worker holds in memory while it executes them | claim due runs (`FOR UPDATE SKIP LOCKED`), execute, save the outcome, schedule the next occurrence | handlers; the pipeline feeds it; HTTP actions change its rows |
| Run actions (`activity_usecase.go`) | the row a request read | Retry, Cancel, Ack | the queue's table, `Dispatcher.Execute` |
| Watcher events (`watcher_event_usecase.go`) | table `watcher_events` | Create, Update, Delete, Reorder, Test | the queue (test run, deletion of runs) |
| Event handlers (`usecase/event`) | none | notify: one delivery per notifier; http: one request | remote services |
| Sync pipeline (`pipeline_usecase.go`) | `mail_accounts.next_poll_at`, `sync_state`; `matched_emails`; `mail_sync_runs` | claim due accounts, fetch, evaluate, record a match, schedule occurrence 1 | mail providers, resolver, queue |
| Mail accounts (`mail_account_usecase.go`) | table `mail_accounts` | Create, Update, Delete, Verify, Sync, periodic re-check, OAuth connect | resolver, pipeline |
| Token refresh (`mail_resolver.go`, `gateway/cache/lock.go`) | encrypted tokens on the account, a Redis lock with a time to live | resolve, refresh under the lock, wait for another's refresh | OAuth providers |
| IMAP fetch (`gateway/mail/imap`) | a cursor: last UID and UIDVALIDITY | fetch above the cursor | IMAP server |
| Matcher (`matcher.go`) | none | evaluate filters on a message | called by the pipeline and by the watcher test |
| Provider rows (`mail_resolver.go`, `gateway/cache/mail_provider_cache.go`) | rows and misses in Redis | look up a slug | database |
| Watchers (`watcher_usecase.go`) | `watchers`, `watcher_filters` | CRUD, status, filters; the poller bumps the match counter | pipeline |
| Notifiers (`notifier_usecase.go`) | `notifiers`: verification code, default flag | CRUD, verify, test, Telegram link | channels |
| Users, sessions, administration | `users`, `user_sessions`, session cache in Redis | login, logout, revoke, reset, suspend, impersonate | cache |
| Rate limiter, OAuth state, reset links | Redis keys with expiry | count; issue and consume | - |
| Seeders (`internal/seeder`) | `mail_providers`, `users`, `user_roles` | write what the files ask for | run at start-up beside the program |
| Worker process (`cmd/worker`) | three ticking loops and their health | tick, stop | everything above |

Audit log, catalog, dashboards, the Kafka user consumer (it only logs), secrets,
HTTP decoding, configuration and load tests carry no logic of the kind these
methods are for; section 5 says of each why it is left out.

What is hard here is the same throughout. Several processes work on the same rows
with READ COMMITTED transactions; most operations read a row without a lock, go
away (to a remote service, or just to the next statement) and then write *every*
column of it back (`Repository.Update` is GORM's `Save`, which moreover inserts a
row that is gone). Claims are two-step: a status or a time is moved under a row
lock, the work follows outside it, the outcome is a third write whose failure is
only logged. Processes may stop anywhere. The hazards this leads to are listed,
with their lines, in `PROJECT.json`.

What makes each part correct:

* queue: a run is executed by one process at a time and succeeds once per
  request; attempts stay within `max_attempts`; a chain is in order and ends when
  told to; cancelled runs stay cancelled; everything queued settles;
* pipeline: a message that matches is recorded once and its events are scheduled;
  the cursor never passes a message that was not evaluated; one mailbox is synced
  by one slot at a time; no earlier than its interval;
* accounts: a background save never undoes a user's change;
* tokens: one refresh at a time, the newest refresh token is the stored one;
* sessions: the cache speaks for open sessions, a changed password and a suspension
  take hold everywhere;
* links, states and codes open one door, once;
* watchers: the stored filters are those of one form, which may be empty, the status
  is the last one asked for, and a match that is not counted is one whose count failed;
* notifiers: one default per user, and a code verifies its notifier once;
* notifications: nobody is told twice, and the outcome on record is true;
* health: the probe reports the loops that are stuck, and no others.

## 2. Modules

| Module | What it is | Run |
|---|---|---|
| `EventQueue` | table `event_runs`, dispatcher workers, HTTP run actions, the pipeline's `ScheduleEvents` | `MCEventQueue` |
| `RunLifecycle` | abstract: what may happen to one run, and when its effect takes place | `MCEventQueue` |
| `MailAccount` | table `mail_accounts`, the pollers, the credential checkers, the HTTP requests on an account, and what a sync records | `MCMailAccount` |
| `TokenRefresh` | the OAuth tokens of one account, the provider that issues them, the Redis lock, and the processes that renew them | `MCTokenRefresh` |
| `Sessions` | one account, its sessions, their cache, and the watchers a suspension pauses | `MCAccess` |
| `PasswordReset` | the links of a forgotten password | `MCAccess` |
| `OAuthConnect` | consents, their states in Redis, the callbacks that connect mailboxes, and who else saves one | `MCAccess` |
| `RateLimiter` | one window's counter and its expiry | `MCAccess` |
| `Notifiers` | an owner's notifiers, their codes and the Telegram webhook | `MCAccess` |
| `Watching` | one watcher with its filters, edited while it counts matches | `MCServices` |
| `ImapFetch` | reading a mailbox through UIDVALIDITY and UIDs | `MCServices` |
| `FilterMatcher` | what filters say of a message | `MCServices` |
| `Delivering` | the attempts of one notify run, target by target | `MCServices` |
| `EventOrder` | the positions of a watcher's events | `MCServices` |
| `Seeding` | two seeders beside an application in use | `MCServices` |
| `ProviderRows` | the cache of `mail_providers` rows | `MCServices` |
| `LoopHealth` | the worker's loops and the probe, in units of time | `MCServices` |

`EventQueueProofs`, `MailAccountProofs`, `TokenRefreshProofs`, `SessionsProofs`,
`DeliveringProofs` and `LoopHealthProofs` hold the theorems about the modules they are named
after; `AccessProofs` those about the parts of `MCAccess` next to `Sessions`, and
`ServicesProofs` those about the parts of `MCServices`.

`MailAccount` and `EventQueue` meet at `PipelineUseCase.ScheduleEvents`: the one ends
a match there, counting how often its events are scheduled, and the other begins
there, with the first run of each event. `TokenRefresh` is inside the `Resolve` with
which a sync, a check or a request of `MailAccount` starts; what the two share is the
row, of which one keeps the token columns and the other the rest. `Delivering` is what a
handler does between `Begin` and `Save` of `EventQueue`, for one run. `ImapFetch` and
`FilterMatcher` are the `Fetch` and the `Evaluate` of `MailAccount`, whose messages are the
ones that were fetched and match. `Sessions` reaches into watchers (`PauseAllForUser`),
which `Watching` has as an action of its own. Nothing else passes between the parts.

Parts that share no state are not interleaved: `MCAccess` and `MCServices` have a variable
`part`, chosen at the start, and explore each part by itself with the others at rest.
That leaves no behaviour of a part out, and no property relates two of them. In these two
modules sets of the same size, such as the requests and the Redis tokens of two parts, may
hold the same model values, so that one symmetry reduction serves them all.

### EventQueue

A run is one row: its unique key `<<match, event, occurrence>>` and its age, which stands
for its id. The runs with the same match and event are a chain. `runs[r]` is the row,
`NoRow` when there is none. The age is needed because `Update` of an event reads it
without a lock and saves it whole (`EditRead`, `EditSave`): when a deletion comes in
between, the save inserts the event again, and `revived` counts how often it did. A new
run of the same match then has the key of one that went with the event but not its id,
and a process that still holds the old one writes under the old id: the row comes back, or
the unique index refuses it (`Taken`). `editing` are the events a request has read.

Of its columns the model keeps `status`, `attempt`, `max_attempts` (`max`),
`acknowledged_at` (`acked`) and whether `scheduled_at` has passed (`due`). A
watcher event is its configuration or `Gone`: the cron, delay and position columns
are left out, `repeat_max` 0 stands for null and `until` for a `repeat_until` that
the next occurrence would pass.

`job[p][r]` is what process `p` holds in memory for run `r`: the phase, its copy of
the row and of the watcher event. That copy is the point of the model: between any
two database calls other processes act, and what `p` writes is its copy.

| Action | Code |
|---|---|
| `ScheduleEvents`, `ScheduleEvent` | `PipelineUseCase.recordMatch`, `ScheduleEvents`: read the enabled events, insert occurrence 1 of each |
| `Claim` | `DispatcherUseCase.Tick`: one transaction, any set of due runs up to the batch size |
| `Begin` | first half of `execute`: count the attempt, load match, event, watcher, notifiers; fail for good when one is missing |
| `Succeed`, `Err` | the handler's result and what `execute` makes of it |
| `Save` | `save`, whose failure is only logged |
| `ScheduleNext` | `scheduleNext`, deciding from the copies |
| `RetryRead`, `RetrySave` | `ActivityUseCase.Retry` up to `Dispatcher.Execute`; then `Begin` ... by the request |
| `Cancel` | `ActivityUseCase.Cancel` |
| `AckRead`, `AckSave` | `ActivityUseCase.Ack` around its unlocked read |
| `TestEvent` | `WatcherEventUseCase.Test` up to `Dispatcher.Execute` |
| `EditRead`, `EditSave` | `WatcherEventUseCase.Update`, around its unlocked read |
| `DeleteEvent` | `WatcherEventUseCase.Delete` (the foreign key takes the runs) |
| `Elapse` | the clock passes `scheduled_at` |
| `Crash`, `PollerCrash` | a process stops, or its shutdown grace of five seconds ends |

A transaction whose effect is one row lock and one commit is one step; so is a
sequence of reads whose result cannot change the outcome. Deleting a watcher, an
account or a user reaches `event_runs` through the same cascade as `DeleteEvent`.
ORDER BY in the claim is abstracted with the clock: `Claim` takes any due runs.

`hits`, `reruns` and `quiet` are history variables: they count successful executions
and written retries, and remember which runs ended their chain while nobody held a run
of it.

`Allowed` names the operations and faults of an instance. It keeps instances small
and says which property needs what: with every operation allowed several of the
properties fail (section 3).

`Configs`, `Batch`, `Concurrency`, `MaxAttempts` and `TestBase` are the program's
parameters: by default `worker.dispatch_batch` is 50, `worker.dispatch_concurrency` 1
(`internal/config/viper.go`), a run gets 3 attempts, and test occurrences start above
1000. `MaxOccurrence`, `MaxReruns` and `MaxRevivals` bound the state space and stand in
guards marked as bounds.

### RunLifecycle

What a user may rely on about a run, with no processes and no memory: its effect
takes place at most once, a settled status tells the truth about it, the next
occurrence comes after the effect of this one. `EventQueue` implements it
(`LifeSpec`) under `lifeStatus`, the status in the table, or "orphaned" for a run
whose row is deleted while a process still has it in hand. An orphan ends unrecorded,
or with its outcome when an edit has brought its event back in time.

### MailAccount

`accounts[a]` is a row of `mail_accounts`, `NoRow` when there is none. Of its columns
the model keeps `status`; `cursor`, the last UID in `sync_state`; `due`, that
`next_poll_at` has passed; `fresh`, that `last_verified_at` is younger than
`mail.reverify_after` (six hours by default); and `creds`, a number for the version of credentials and settings.
`job[p][a]` is what process `p` holds for account `a`: the phase, its copy of the row,
the matches of the fetched messages that are still to be tried (`work`), the match it
just recorded (`hit`) and the cursor the fetch returned (`top`). `arrived[a]` is the
UID of the newest message of the mailbox; `open` are the rows of `mail_sync_runs` in
status running, with the process that opened each; `matched` is `matched_emails` by
its unique key, watcher and message; `scheduled` counts the calls of `ScheduleEvents`
for each match.

| Action | Code |
|---|---|
| `PollClaim` | `PipelineUseCase.PollDue`: the claim moves `next_poll_at` in the table, after the rows were read |
| `SyncStart` | `MailAccountUseCase.Sync`, which syncs whatever the account's status |
| `OpenSync` | `SyncAccount`: a slot of the pool takes the account and inserts its sync run |
| `Abandon`, `FetchFails`, `RecordFailure` | the exits of `SyncAccount` before and after the fetch: `finish` closes the sync run, then the account is saved with status error |
| `Fetch`, `Evaluate`, `ScheduleEvents` | `client.Fetch` above the copy's cursor; `evaluate`, `recordMatch`, one match at a time and messages in order |
| `StoreCursor`, `Close` | the account saved with the new cursor, then `finish` |
| `CheckClaim`, `CheckPass`, `CheckFail` | `ReverifyDue`, `reverifyOne` |
| `VerifyRead`, `CheckPass`, `CheckFail` | `Verify` |
| `Create`, `Delete` | `Create` (and `connect` for a new address); `Delete`, which is refused while there are watchers |
| `EditRead`, then `EnterCredentials`, `Disable`, `Enable` or `Rename` | `Update`, and `connect` for an account that is there |
| `Refuse` | a request that returns before its write |
| `Arrive`, `IntervalPasses`, `Expire` | mail, and time |
| `Crash` | a process stops; its sync runs pass to `Nobody` |
| `DBError` | a statement fails: what the code then skips or gives up |

The messages of the model are those some filter of the watcher selects: filters,
`watch_from` and the cooldown decide which messages those are and keep no state the
other parts read. `connect` writes like `Update`; how a callback finds its mailbox is in
`OAuthConnect`. The first fetch of a mailbox takes
at most 200 messages and the cursor of the IMAP client has more structure than a
number; both are in `ImapFetch`. A mailbox of OAuth kind may have its
token renewed inside `Resolve`, which saves the row once more; that is in
`TokenRefresh`. A failed check writes the copy's `last_verified_at`, which is the
`fresh` of the copy.

`entered` and `checked` are history variables: the newest credentials a user gave, and
those the provider has accepted.

`MaxMessage`, `MaxCredentials` and `MaxFaults` are the bounds. `Batch` (20 for the
poller by default) and `Concurrency` are parameters of the program.

### TokenRefresh

A grant is an access token with its refresh token, numbered as issued. `row` is the
account's row, of which the model keeps the grant and `parked`: status error with the
request to reconnect. `issued` is the provider's newest grant; the provider is the
strictest the code speaks of (`mail_resolver.go:53-54`) and takes no other. `aged` is
the last grant within `refreshWindow` of its expiry. `lock` is the Redis key, with the
name of who set it, which the code does not store: `Release` deletes the key whoever
set it. `job[p]` is the phase of a process and its copy of the row.

| Action | Code |
|---|---|
| `Read` | the caller reads the row: `PollDue`, `Sync`, `ReverifyDue`, a request |
| `Fresh` | `refresh` returns: the token is good |
| `Acquire`, `Bypass`, `Contend` | `Lock.Acquire` sets the key; gets no answer and fails open; finds the key |
| `Adopt`, `GiveUp` | `awaitRefresh` |
| `Recheck`, `RecheckFails` | the look at the row under the lock, and a look that fails |
| `Exchange`, `Refuse`, `Unanswered` | `client.Refresh`: new tokens; `invalid_grant`; no answer, before or after the provider acted |
| `Write`, `Unwritten` | the save in `store` or in `handleRefreshFailure`, and one that fails |
| `Release`, `Unreleased` | the deferred `Lock.Release` |
| `Save`, `Leave` | the caller's save of its copy (`pipeline_usecase.go:232`, `mail_account_usecase.go:409-447`, `574-598`), or none |
| `LockExpires`, `Age`, `Withdraw`, `Crash` | `refreshLockTTL` passes; the next grant nears its expiry; the user withdraws consent; a process stops |

`GiveUp` needs no failure: the wait is over after two seconds, or with the context.
Reconnecting a parked mailbox is in `OAuthConnect`, not here: parking is final in this module.

`incidents` is a history variable. The safety properties that the code has only while
nothing of a certain kind has happened say so in its terms. Two of the incidents are
about time, which the model does not measure: the lock expires under its holder
("overrun", though the round trip is meant to be shorter than the 30 seconds of
`refreshLockTTL`), or a grant nears its expiry while a process is still refreshing or
works with an older one ("outlived", though a sync is meant to be shorter than the
five minutes of `refreshWindow`). Both count as faults. `overwritten` is a caller's
save that puts an older grant back: not a fault, but what the code does.

`MaxGrant` bounds the rotations and `MaxFaults` the faults.

### Sessions

`user` is the account's row with its roles, `session[t]` the row of each bearer token,
`cache[t]` what Redis answers for it, `watchers` the status of the account's watchers.
`request[r]` stands before its next call to the database or Redis: `at` says which, and
`row`, `auth` and `hashes` are what it has read. What a request is for is decided when it
first matters, which gives every order of any two operations.

| Action | Code |
|---|---|
| `CacheGet` | the bearer middleware, answered by the cache |
| `Verify`, `CheckStatus`, `LoadRoles`, `Fill` | and by the database: the session, the user and the roles are three statements of a READ COMMITTED transaction, and the answer is put into the cache after it |
| `Create`, `Login`, `Impersonate`, `IssueSession` | registering, signing in, an admin's impersonation; `issueSession` |
| `Logout`, `RevokeSession`, `EndSession` | one session ended, then its entry evicted |
| `FindUser`, `Update`, `UpdateUser`, `SetUserStatus` | a row is read, and saved whole: the owner's edit, an admin's, a suspension |
| `ListHashes`, `RevokeAllForUser`, `Evict` | `revokeAllSessions`, three calls outside of the transaction |
| `Resume` | what a caller that was let through does |
| `Abort`, `Abandon` | a call fails or the process stops: before anything was written, or in the middle of a revocation |
| `ExpireSession`, `ExpireCache` | `expires_at` passes; `REDIS_TTL_AUTH` |

`lapse`, `overdue`, `stray` and `awake` are history variables: they name the windows the
code leaves open, which the properties then allow and nothing else. `overdue` is the one of
expiry: the cache knows nothing of `expires_at`, so that a session which expires while an
answer for it stands, or is being read, goes on being answered for until `REDIS_TTL_AUTH`.

### PasswordReset, OAuthConnect, RateLimiter, Notifiers

`PasswordReset`: a link is looked up, used and deleted in three steps (`LookUp`,
`SavePassword`, `Spend`). `OAuthConnect`: `Authorize` and `Reauthorize` mint a state,
`Callback` consumes it atomically, `Exchange` is the provider's answer for the address the
owner picked, `Found` looks for the mailbox and `Save` or `Connect` writes it; rows
are read and saved whole, and `Delete` may come in between. A sync, a credential check and an
edit of the owner save a mailbox they have read likewise (`Read`, `Resave`), so that they too
bring a deleted one back; when they run and what they do to status and cursor is in
`MailAccount`, and to the tokens in `TokenRefresh`. A token records which address
it opens, and `seen` whose mail a row was built from. `RateLimiter`: `Incr` and `Expire`
are separate calls, between which the process may stop.

`Notifiers`: requests read a row (`Find`), save it whole in a transaction that may first clear
the other defaults (`ClearDefault`, `Commit`), and draw a code or verify by one (`Renew`,
`Verify`). The webhook looks a row up by the code of a message, without a lock
(`HandleTelegramUpdate`), and then saves it whole with the chat (`Bind`). A code has four
digits (`MP-%04d`), and nothing the program keeps tells the chat it was meant for from any
other: anybody may send any code. `drawn` says which notifier a code was drawn for; `Draws`
are draws, two of which may show the same digits, and the lookup then takes either row.
`spent` and `respent` are the codes that verified a notifier once and twice, but for those in
`overtaken`, which a save went by after the notifier had stopped waiting for them.

### Watching

`watcher` is the row and `filters` the forms whose filter rows are stored; `sent` is the form
stored last, and `{}` a form left empty, which clears all filters, or creates a watcher
without any, and so matches all mail. A request finds the row and then saves it (`Update`,
`SetStatus`) or replaces the filters (`DeleteFilters`, `CommitFilters`), which locks the row
only if the mode changes; an admin's `PauseAllForUser` is a single statement. The pipeline
stores a match (`CreateIfNew`) and then counts it (`RecordMatch`) in a second statement,
whatever the watcher's status is by then; `LoseCount` is that statement's failure, which is
only logged, or a process that stops before it. `counting` and `lost` are the matches
between the two and those that never get there. `undone`, `overlapped`, `mingled` and `revived`
name what an overlap did.

### ImapFetch and FilterMatcher

`ImapFetch` follows one `Fetch` from `Connect` over `Select` (which drops a cursor of another
UIDVALIDITY) to `Finish`, where `SyncAccount` stores the cursor, or the watcher's dry run
does not. The server is external: mail arrives, is deleted, or the folder is renumbered at
any time. `AllOfRange` has IMAP's peculiarity that `N:*` always contains the highest UID.

`FilterMatcher` defines `matchFilter` and `EvaluateFilters` for every kind of field and every
operator, over short texts, and what `readBody` and `headerFields` make of a message's parts
and header lines; the state only enumerates filters and messages.

### Delivering

One notify run: `Begin` loads the notifiers, `SendNext` sends to one after the other as they
were read, with an answer that may be lost or garbled on the way back, and `Settle` records
the outcome. What each channel makes of an answer is `SendWebhook`, `SendTelegram`,
`SendSMS` and `SendEmail`. Around it the event is edited and notifiers lose their proof
or are deleted. `got` counts messages that arrived, `unclear` those that were reported as failures.

### EventOrder, Seeding, ProviderRows, LoopHealth

`EventOrder`: `Reorder` writes positions row by row under row locks and commits, an edit
saves a whole event. `Seeding`: the provider's row and the account of a file, each in a
transaction, by two seeders with different files, while an admin changes roles and the
owner the password. `ProviderRows`: `Lookup`, `FindBySlug` and `Remember`, with a Redis that
does not answer and a database that fails. `LoopHealth`: time in units; each loop has a
ticker whose channel holds one tick, work that takes as long as it takes, and
the silence the probe compares with three intervals, at least a minute.

## 3. Runs

### EventQueue

Passing runs, each with one match, one event and one request in flight:

| Run | Instance | Checks |
|---|---|---|
| `EventQueueFaults` | two workers, single runs and chains of 2, test runs from 3, one revival; cancel, test, edit, delete, crash, dberror | `Exclusive`, `CancelledStaysCancelled`, `LifeSpec` |
| `EventQueueRequests` | one worker; cancel, retry, ack, delete, crash | `AttemptsBounded`, `ChainInOrder`, `QuietStopEndsChain` |
| `EventQueueFair` | two workers, fairness; cancel, retry | `OncePerRequest`, `RunningIsOwned`, `NextIsScheduled`, `EveryRunSettles`, `EveryRepeatSettles` |

`RunningIsOwned` and `NextIsScheduled` are checked without crashes, `Exclusive` and
`CancelledStaysCancelled` without retry and ack. That is not a convenience: the code
does not have them otherwise. A retry may take a run that a worker claimed after the
retry read it, and an acknowledgement writes back the status it read.
`QuietStopEndsChain` says "quiet" for a like reason: a cancel or an acknowledgement
that comes while an occurrence executes is not seen by its `scheduleNext`. No run has both
edit and ack: an edit that turns `stop_on_ack` off after the acknowledgement and before
the acknowledged run executes lets the chain go on.

`NextIsScheduled` is checked without crashes: a stop between the save of a success and
`scheduleNext` loses the rest of the chain, although the comment at
`pipeline_usecase.go:333-335` says that "a restart never loses a schedule".

**Bounds.** One chain suffices for the queue's own logic: two chains share only the
claim's batch and a worker's pool, and rows of one chain already compete for both
(an occurrence that is retried beside its successor, a test run beside the chain).
Two workers and one request give every pair of actors; three occurrences give a
first, a middle and a last one; two attempts give an attempt that is retried and one
that is final. One revival gives an event a second life, with runs of both in
hand at once. `Concurrency` is 1 so that a claimed run really waits.

**Fairness** (`EventQueueFair`). The loops of `cmd/worker` tick as long as the
process lives, `runBatch` joins each batch before the next tick, handlers end
because each item has a deadline (`tuning.go:59-65`), and time passes: weak
fairness of `Claim`, of each execution's steps, of `Elapse`, of the pipeline's
inserts and of a request's second half. Users owe nothing, so their actions are
not fair. Crashes and failed writes are excluded there: after either a run may
stay in status running for ever.

### MailAccount

| Run | Instance | Checks |
|---|---|---|
| `MailAccountSync` | one mailbox, watcher and request, two messages, two versions of credentials; sync, credentials, disable, rename | `ScheduledOnce`, `NothingSkipped`, `MatchIsScheduled`, `VerifiedWasChecked` |
| `MailAccountFaults` | two mailboxes in one batch and one slot, no checker; delete, crash, dberror, enable | `SyncRunIsOwned` |
| `MailAccountFair` | one mailbox and message, fairness, two failures of the provider; sync, verify | `EveryMessageMatched` |

`NothingSkipped` and `MatchIsScheduled` are checked without failed statements, and the
second without crashes: a match that cannot be inserted is skipped by the code, with a
log line, and one whose process stops before `ScheduleEvents` is known to the next sync
as a duplicate. `VerifiedWasChecked` is checked without requests that set the status to
verified, which the API allows. `EveryMessageMatched` is what saves the mailbox from
the stale writes: whatever status they leave, the checker or the poller comes back to
it, as long as the owner does not disable it.

| Violation run | Shows |
|---|---|
| `MailAccountInterval` | a sync saves the `next_poll_at` read before the claim: the mailbox is due again at once, against `pipeline_usecase.go:75-76` and `api/openapi.yaml:2785` |
| `MailAccountDisabled` | a sync or a check in flight re-enables a disabled mailbox, against `api/openapi.yaml:673` |

Both are instances of one thing, the save of a whole row that was read earlier. In the
model it equally puts back old credentials, takes an account out of error, undoes by a
renaming what a sync stored, and inserts a deleted account again; and a sync that
outlasts the poll interval is joined by another. What survives is in the passing runs:
a message is acted on once, the cursor skips nothing, verified means verified.

**Bounds.** Accounts share nothing but the batch and the slots of a claim, for which
`MailAccountFaults` has two; everything else is per mailbox. Two messages give a
cursor that is behind, in the middle and at the end, so that a stale cursor can be
restored and messages fetched again. A request, a poller and a checker give every pair
of different writers of a row; two pollers would add what a poller and a requested sync
do already.

**Fairness** (`MailAccountFair`). Both loops tick for ever and join what they started
(`cmd/worker`), and a sync ends by its deadline: weak fairness of the claims and of the
steps of pollers and checkers. Time needs strong fairness: a sync that ends writes back
an old `next_poll_at`, after which "the interval has not passed" may alternate for ever
with "it has", and yet in time it does pass. Nothing is assumed of requests: one may
hang with its copy of the row and write it at any moment.

### TokenRefresh

| Run | Instance | Checks |
|---|---|---|
| `TokenRefreshFaults` | two processes, two rotations, two faults, fairness | `OneRefresher`, `NewestIsKept`, `ParkedHasCause`, `TokenIsRenewed` |

| Violation run | Shows |
|---|---|
| `TokenRefreshStale` | a caller that resolved before another renewed the token saves the retired one, against `mail_resolver.go:124-126` |

That Redis does not answer lets both processes refresh at once, and the second is refused
and parks the mailbox, where `lock.go:37-39` expects one extra round trip and valid tokens
either way. It is in the model ("bypass"), and `OneRefresher`, `NewestIsKept` and
`ParkedHasCause` name it.

`TokenIsRenewed` is the run's liveness property and holds through crashes and failures:
a token near its expiry is renewed, or the mailbox is parked so that its owner can act.
What makes it true is the key's expiry: without it a process that dies with the lock
would leave all others waiting in vain.

**Bounds.** Two processes are a winner and a loser of the lock, and each may come back
in another role; two rotations let a process hold the grant before the last; two faults
combine every pair, such as a bypass and a crash. The proofs cover any number of each.

**Fairness**: callers come back to the mailbox (the loops tick) and finish what they
began, every remote call having a deadline, and keys expire. Nothing is assumed of the
user, of faults, or of which exit of `awaitRefresh` is taken.

### Access and Services

| Run | Instance | Checks |
|---|---|---|
| `Access`, part sessions | two requests, tokens, passwords and role sets; any call may fail | `CacheIsFresh`, `SessionsFollowPassword`, `SuspendedIsQuiet` |
| part resetting | two requests, two links | `SpentOnce` (with the states of OAuth) |
| part connecting | two callbacks or other writers, two states, mailboxes, addresses and providers | `SpentOnce`, `TokensOpenMailbox`, `DeletedStaysGone` |
| part limiting | two requests, a limit of two, four hits | `WindowHolds` |
| part notifying | two requests, notifiers and codes | `OneDefault`, `CodeSpentOnce` |
| `Services`, part watching | two requests, three forms and the empty one, one match | `FiltersAreOneForm`, `LastWordStands` |
| part fetching | two folders, three UIDs, two UIDVALIDITYs, a first read of one message | `ReadOnce` |
| part matching | every operator and field, up to two filters, four texts | `MatchingIsMonotone` |
| part sending | two notifiers of any channel, two attempts | `DeliveryIsTrue` |
| part ordering | two requests, three events | `OneOrder` |
| part sowing | two seeders, three presets, two roles | `SeedsKeepAndHold` |
| part resolving | two callers, three contents | `AnswersAreTrue` |
| part looping | two loops with intervals of one and two units, budgets of four and six | `StalledIsStuck` |

Most of these say "unless": the code reads rows without locks, saves them whole, and
calls Redis after the commit, so each promise has a window. The property names the window
by a history variable or a request that is under way, and TLC checks that nothing else breaks
the promise. The windows, in words:

* a session may be cached just after it was revoked, and one that expired be answered for
  by its entry, until `REDIS_TTL_AUTH`; a sign-in that checked the old password may end after
  the revocation; a caller let through before a suspension may still resume a watcher;
* a link of a forgotten password works for two requests that look it up at once;
* a callback, a sync, a check or an edit that had read a mailbox brings it back after its
  deletion;
* two requests may each make a default; two chats, or a chat and the owner, that send a code
  at once both verify the notifier, and a save of a row read before brings a spent code back;
* an overlapping save undoes a status or the match counter, a count that fails is lost, and
  overlapping replacements leave the filters of two forms until the next one by itself;
* an IMAP cursor is not tied to its folder;
* the rate limiter's key stays for good when its `Expire` is lost.

That two codes are alike, or that one is guessed, is no window of this kind: nothing the
program keeps could tell, so no property speaks of it.

**Bounds.** These parts have one row, key or mailbox each that actors contend for, so
two actors make every overlap of a reader and a writer. Two links, states and addresses
are needed to mix them up. One match is stored, and counted or not, beside any number of
edits. Three UIDs make a first read, an increment and a rest; three
forms make a replacement that meets one already replaced. Two attempts make one that is
followed by another and a last one. A loop's horizon of nine units lies beyond both
budgets. The theorems of section 4 lift these bounds for every part.

**Fairness**: none; these runs check safety only.

**Deadlock** is checked in no run: with every run settled, every message fetched, every
token fresh and no user at work the program has nothing to do, and the bounds stop the
rest.


## 4. Proofs

Every theorem holds for all values of the constants that satisfy the named assumption of
the module, and, unless a hypothesis is stated, for every set `Allowed` of operations and
faults. A hypothesis that takes an operation away is there because the code loses the
property with it; the runs of section 3 leave out the same ones.

### EventQueueProofs

* `TypeCorrect`: `[]TypeOK`.
* `AttemptsAreBounded`: `[]AttemptsBounded`. Invariant `AttemptInv`: in each row, and in
  the copy of each row a process holds, `max` is at least 1 and `attempt` at most `max`,
  strictly while the row is pending; and a copy that is claimed, or read by a retry, has
  `attempt < max`. It must speak of the copies because Ack writes one back that may be old.
* `ChainIsInOrder`: `[]ChainInOrder`. Invariant `ChainInv`, which ties what a process holds
  to the table: the row it would save is still there unless its event is gone, or is gone
  and back; its place in the chain was earned in any case; and a success that is about to
  be followed up has taken place. Without it a save could insert a row out of turn.
* `ClaimIsExclusive`, `CancelledRunsStayCancelled` (`Unassisted`: no retry, no ack):
  `[]Exclusive` and the action property `CancelledStaysCancelled`. Invariant `FlightInv`:
  a run that a process holds is in status running if it has a row. So the one
  row lock of the claim carries both: a second claim finds no pending row, and neither
  does a cancel.
* `RunningHasExecutor` (no ack, crash or dberror): `[]RunningIsOwned`, by `OwnedInv`,
  which adds that what is about to be saved is not in status running.
* `NextIsNeverLost` (the same, and no edit): `[]NextIsScheduled`. Invariant `NextInv`:
  whoever executes a run has the event as it is and an unacknowledged copy, so it judges the
  repeat as the table would, and no edit is under way.
* `SentOncePerRequest` (no ack, finitely many processes): `[]OncePerRequest`, retries
  included. Exclusiveness fails there, as a retry may take a run that was claimed, so
  the argument counts: `BudgetInv` says that the successes of a run, the processes that
  may still succeed with it, and its place in the queue together are at most one more
  than its retries.
* `StopsEndChains` (`StopsHold`: events are edited or runs acknowledged, not both): the
  action property `QuietStopEndsChain`. Invariant `StopInv`: from the stop on no occurrence
  at or after it waits or is on its way to be queued or repeated; a deletion of the event
  ends the stop with the chain. The one exception is the
  acknowledged run itself, which an Ack's whole-row save may put back as pending; it is
  then executed with its acknowledgement, and does not repeat. It would if an edit turned
  `stop_on_ack` off in between, hence the hypothesis. Any other kind of step may happen,
  retries included: a retry of a run starts its chain over.
* `QueueImplementsLifecycle` (`Unassisted`): `LifeSpec`, the refinement. Over `FlightInv` it
  needs `LifeInv`: a run that waits, or could still be created, has had no effect, and
  whoever holds a run holds an outcome that tells the truth about its effect. With
  these each action is one step of `RunLifecycle`: a success or error before the save
  is `Send` or a stutter, the save is `Succeed`, `Retreat` or, once the event is gone,
  `End`, and of a row that comes back with its event the `Succeed` or `Retreat` of an orphan; a claim or a cancel is `Turn` for the whole set of rows it writes.

### MailAccountProofs

* `TypeCorrect`: `[]TypeOK`.
* `EventsAreScheduledOnce`: `[]ScheduledOnce`. It is not inductive: `OnceInv` adds that a
  match in some process's hand is recorded and not yet scheduled, and in nobody else's
  hand, and that what is scheduled is recorded. So the unique index alone carries the
  property; neither the claim nor the cursor is needed.
* `CursorSkipsNothing` (no dberror): `[]NothingSkipped`, inductive as it stands because it
  speaks of the copies as well as of the table.
* `VerifiedMeansChecked` (no enable): `[]VerifiedWasChecked`, inductive likewise.
* `OpenRunsHaveASync`: `[]SyncRunIsOwned`, inductive as it stands, with crashes and failed
  statements, which it names.
* `MatchesAreScheduled` (no crash or dberror): `[]MatchIsScheduled`, by `HitInv`: a match is
  in hand only between its record and its schedule.

### TokenRefreshProofs

* `TypeCorrect`: `[]TypeOK`.
* `OneRefresherAtATime`: `[]OneRefresher`. Invariant `LockInv`: unless the lock was bypassed
  or overrun, whoever refreshes is who set the key. That is why a release, which does
  not ask whose key it deletes, never frees another's lock.
* `NewestGrantIsKept`, `ParkedForACause`: `[]NewestIsKept`, `[]ParkedHasCause`. Invariant
  `GrantInv`, which rests on `LockInv`: in a system without incidents no copy holds a grant
  older than the last that came near its expiry, the row is at most one grant behind the
  provider, and a grant about to be spent is the newest and the row's. The second look at
  the row under the lock establishes that last part: the row is stale there only if nobody
  has renewed it, and then the copy is as new as the row.

### SessionsProofs

* `TypeCorrect`: `[]TypeOK`; with it, that a request holds what its step needs (`Typed`).
* `SuspendedStaysQuiet`: `[]SuspendedIsQuiet`, by `Quiet`: with nobody let through, no
  request of a suspended account is past the look at its status. It speaks of the watchers
  only: an admin may well sign in to a suspended account (`Impersonate`), whose token
  then no middleware accepts.
* `CacheStaysFresh`: `[]CacheIsFresh`, by `Fresh`, which holds what each of the three reads
  of `Verify` has found so far to the same as the cache, and adds that the entry of an
  ended session has its eviction coming, or lost it, and that of an expired one is `overdue`.
* `PasswordEndsSessions`: `[]SessionsFollowPassword`, by `Follows`, which adds the sign-ins
  that are about to issue a session.

### AccessProofs

About `AccessSpec`, so about what the run `Access` checks, with any number of requests, links,
mailboxes, states, notifiers and codes. `AccessAssumption`: the limits are naturals, and no
code that is drawn is one of the two values that say there is none, or no need of one.

* `LinksAndStatesSpentOnce`: `[]SpentOnce`. Invariant `LinkInv`: a link that did not outlive
  its use is in one request's hand at most, and has set no password while that request is
  about to set one, or while it can still be looked up, unless its deletion is coming. That a
  link is looked up and deleted by two calls is what `outlived` stands for; the invariant
  says that nothing else lets a second request in. For states it is enough that one that
  may still be consumed has not been, as the code gets and deletes it in one call.
* `TokensAlwaysOpenMailbox`, `DeletedAlwaysStaysGone`: `[]TokensOpenMailbox` and
  `[]DeletedStaysGone`. Invariant `ConnectInv`: what holds of a mailbox holds of the copy
  each callback, sync, check or edit has in hand, which it saves whole; the address and
  provider of a callback's copy are those the provider named; and a deleted mailbox that one
  of them holds is in `held`.
* `WindowAlwaysHolds`: `[]WindowHolds`, by `WindowInv`: nobody is let through uncounted.
* `OneDefaultAlways`, `CodeAlwaysSpentOnce`: `[]OneDefault` and `[]CodeSpentOnce`. Invariant
  `NotifyInv`: until two requests clash one transaction at a time makes a default, and the
  others it has yet to clear are all there are; a code is in a row, or in a copy of one, only
  if it was drawn for that row; and once a code is spent, and no save of an older copy went by,
  it is in no row and in no transaction that is about to commit.

### ServicesProofs

About `ServicesSpec` likewise. `ServicesAssumption`: the bounds are naturals, an attempt
is allowed, the seeded roles exist, a watcher has finitely many events, and texts are
sequences of letters.

* `LastWordIsKept`, `FiltersStayOneForm`, `TypeCorrect` of `Watching`: invariants `LastWord`
  (a row in a request's hand was dated as it was when stored, and the stored one has the last
  status and count unless `undone`; with it, that no row tells of more matches than were
  counted, `Bounded`) and `OneForm` (of two replacements under way each is in `overlapped`, and
  one that is not drops exactly what is stored).
* `ReadAlwaysOnce`: `[]ReadOnce`. Invariant `ReadInv`, the longest: the messages of a mailbox
  have UIDs up to the last one given out, the cursor and the copy of it that a read holds
  are never ahead of the server, and only move on; unless a cursor was used in another
  folder (`mixed`) all that it has passed was handed on, waived, or is in the hand of the read
  whose cursor it is; and unless the folder changed or a save failed (`upset`) nothing was
  handed on that the cursor has not passed. Both halves of the property come from one
  invariant, because each needs the copy of the cursor that the other speaks of.
* `EventsAlwaysInOneOrder`: `[]OneOrder`. Invariant `OrderInv`: unless moved, the i-th event
  of the last full order stands at position i - 1. That the list by position is then the
  order asked for, and no other, is a lemma about sorting (`OneWayToList`): strictly
  ascending positions that fill 0..n-1 count up (`AscendingIsCounting`). It needs no
  induction over data, only the least element of a set of naturals (`LeastOf`), from the
  well-foundedness of < in the library.
* `MatchingAlwaysMonotone`: `[]MatchingIsMonotone`, for texts of any length and number, any
  values asked for and any number of filters, parts and lines. `MatchInv` is but the type of
  the message and the filters. The work is in the lemmas: `Lower` commutes with taking a
  part of a text, so each comparison that holds holds in lower case (`LooserCompare`), and
  what is read of a body or a header is a text (`BodyIsText`, `HeaderIsText`).
* `SeedsAlwaysKeepAndHold`: `[]SeedsKeepAndHold`. Invariant `SowInv`: what a seeder has read
  still holds, unless it was overtaken, and one seeder at most holds the insert of the account.
* `AnswersAreAlwaysTrue`: `[]AnswersAreTrue`, inductive with its types, because it speaks of
  the answer each caller has in hand as well as of the cache.
* `DeliveryIsAlwaysTrue`, `StuckLoopsAreReported`: `[]DeliveryIsTrue` and `[]StalledIsStuck`, by
  instances of the two modules below.

### DeliveringProofs, LoopHealthProofs

* `MessagesAreSentOnce`, `OutcomesAreTrue` of `Delivering`, for at least one attempt:
  invariant `DeliveryInv`. For each notifier the messages that arrived are as many as
  those reported as failed, or one more; one more only if the run succeeded or the
  attempt under way got through to it. So a run that goes back to pending has reached nobody.
* `ProbeTellsStuckLoops` of `LoopHealth`, if every interval is positive (`Timed`): invariant
  `Punctual`, that a loop at rest is silent for no longer than its ticker has run, and a
  loop at work was not when it began.

### Only model-checked

Every invariant, every action property and the refinement that the passing runs check are
theorems. Liveness (`EveryRunSettles`,
`EveryRepeatSettles`, `EveryMessageMatched`, `TokenIsRenewed`) is out of the prover's reach,
as is reasoning about ENABLED. What a recursive definition computes for every input is too,
as that takes induction over data; no module that is proved about needs one.

## 5. Plan, and what is not modelled

The plan of modules is done: the queue and its refinement, mailboxes, tokens, then access
(`MCAccess`) and services (`MCServices`), each with its proofs.

Not modelled:

* **Catalog, audit, dashboards.** Reads, and lines that are appended in the
  transaction of the change they are about.
* **Kafka user events.** The consumer only logs.
* **Secrets.** Sequential cryptography over the standard library. A secret that cannot be
  decrypted is a missing one in `Delivering`.
* **HTTP delivery, models, configuration, load tests.** Decoding, routing, wiring and
  tools, without state of their own. The middlewares with state are in `Sessions` and
  `RateLimiter`.
* **`watch_from` and the cooldown of a watcher.** They decide which messages match. The
  cooldown compares with the `last_matched_at` that the sync read with its watchers
  (`pipeline_usecase.go:263-268`), so several messages of one sync may match, although
  `api/openapi.yaml:3005-3007` says that further matches are suppressed after one fires.
* **Settings of a mailbox** and their merging with the provider's presets: a sequential
  function whose result only the provider's client reads.
* **SQL and GORM** below single statements and transactions at READ COMMITTED, and
  PostgreSQL's abort of a transaction after a failed statement, which makes an audit
  line that fails take its transaction with it, whatever the log says.

Things met on the way that contradict a comment or surprise, and are in the models but
refuted by no run of their own: patterns are stored without being compiled
(`matcher.go:122-123`); an older reset link stays valid when a newer one is mailed; an error
of the database is remembered as an unknown provider (`mail_resolver.go:104`); a failed
check puts back an old `last_verified_at` (`mail_account_usecase.go:563`); Ack writes an
old status back (`activity_usecase.go:253`).
