---------------------------- MODULE TokenRefresh ----------------------------
(***************************************************************************)
(* The OAuth tokens of one mail account, renewed inside Resolve by whoever *)
(* is about to use the mailbox: syncs, credential checks and requests, in  *)
(* any process.  A lock in Redis with a time to live keeps them from       *)
(* renewing at once.  Accounts share nothing, so there is one.             *)
(*                                                                         *)
(* The provider is the strictest the code speaks of: it retires a refresh  *)
(* token when it issues the next one.                                      *)
(***************************************************************************)
EXTENDS Naturals

CONSTANTS
  Proc,        \* users of the mailbox: slots of workers, requests
  MaxGrant,    \* bound: tokens that come near their expiry
  MaxFaults,   \* bound: faults of the provider, Redis, the database, processes
  Free         \* the value of the lock nobody holds

ASSUME TokenAssumption ==
  /\ MaxGrant \in Nat
  /\ MaxFaults \in Nat
  /\ Free \notin Proc

\* A grant is an access token with the refresh token that came with it, numbered
\* in the order of issue.  parked stands for status error with the request to
\* reconnect the mailbox.
Row == [grant: Nat, parked: BOOLEAN]

\* locked .. releasing are the phases of refresh under the lock, done is a
\* caller that has its connection, or its error.
Phase == {"idle", "read", "waiting", "locked", "exchanging", "storing", "parking",
          "releasing", "done"}

Job == [pc: Phase, row: Row]

\* What may befall a grant: consent withdrawn, the grant lost on its way to the
\* row or overwritten by a caller; the lock overrun or bypassed, the row under
\* it not read again, or a process that outlives the grant it works with.
Incident == {"withdrawn", "lost", "overwritten", "overrun", "bypassed", "blind", "outlived"}

VARIABLES
  row,        \* the account's row in mail_accounts, its token columns
  issued,     \* provider: the newest grant
  revoked,    \* provider: the user withdrew consent
  aged,       \* the grants up to this one are within refreshWindow of expiry
  lock,       \* who set the Redis key of the account, Free when there is none
  job,        \* what each process holds
  faults,     \* faults so far
  incidents   \* history: the incidents so far

vars == <<row, issued, revoked, aged, lock, job, faults, incidents>>

provider == <<issued, revoked, aged>>

TypeOK ==
  /\ issued \in Nat /\ aged \in 0..issued
  /\ row \in Row /\ row.grant \in 1..issued
  /\ revoked \in BOOLEAN
  /\ lock \in Proc \cup {Free}
  /\ job \in [Proc -> Job] /\ \A p \in Proc : job[p].row.grant \in 1..issued
  /\ faults \in Nat
  /\ incidents \subseteq Incident

\* The row connect stored: the first grant.
Connected == [grant |-> 1, parked |-> FALSE]

NoJob == [pc |-> "idle", row |-> Connected]

Init ==
  /\ row = Connected
  /\ issued = 1 /\ revoked = FALSE /\ aged = 0
  /\ lock = Free
  /\ job = [p \in Proc |-> NoJob]
  /\ faults = 0 /\ incidents = {}

-----------------------------------------------------------------------------
(* Helpers.                                                                *)

At(p, pc) == job[p].pc = pc

Go(p, pc) == [job EXCEPT ![p].pc = pc]

GoWith(p, pc, r) == [job EXCEPT ![p] = [pc |-> pc, row |-> r]]

Refreshing(p) == job[p].pc \in {"locked", "exchanging", "storing", "parking", "releasing"}

NeedsRefresh(r) == r.grant <= aged

\* More faults: SETNX without the NX, a key without expiry, no look at the row
\* under the lock, a merge that drops the new refresh token.
AlwaysFree == TRUE

NeverExpires == FALSE

RecheckedBlindly(mine, fresh) == [pc |-> "exchanging", row |-> mine]

RenewedInPart(mine) == mine

IsFree == lock = Free

MayExpire == lock # Free

\* adopt: the credentials another process stored, and nothing else.
Adopted(mine, fresh) == [mine EXCEPT !.grant = fresh.grant]

\* Under the lock the row is read again: has the winner finished meanwhile?
Rechecked(mine, fresh) ==
  IF NeedsRefresh(fresh) THEN [pc |-> "exchanging", row |-> mine]
                         ELSE [pc |-> "releasing", row |-> Adopted(mine, fresh)]

\* store merges the new tokens into the copy.
Renewed(mine) == [mine EXCEPT !.grant = issued + 1]

\* What the provider takes.
Accepted(r) == ~revoked /\ r.grant = issued

Fault == faults < MaxFaults /\ faults' = faults + 1

Note(S) == incidents' = incidents \cup S

-----------------------------------------------------------------------------
(* Resolve and refresh.                                                    *)

\* The caller reads the row, for a sync, a check or a request.
Read(p) ==
  /\ At(p, "idle")
  /\ job' = GoWith(p, "read", row)
  /\ UNCHANGED <<row, provider, lock, faults, incidents>>

Fresh(p) ==
  /\ At(p, "read") /\ ~NeedsRefresh(job[p].row)
  /\ job' = Go(p, "done")
  /\ UNCHANGED <<row, provider, lock, faults, incidents>>

Acquire(p) ==
  /\ At(p, "read") /\ NeedsRefresh(job[p].row)
  /\ IsFree
  /\ lock' = p
  /\ job' = Go(p, "locked")
  /\ UNCHANGED <<row, provider, faults, incidents>>

\* Redis does not answer: Acquire fails open.
Bypass(p) ==
  /\ At(p, "read") /\ NeedsRefresh(job[p].row)
  /\ Fault /\ Note({"bypassed"})
  /\ job' = Go(p, "locked")
  /\ UNCHANGED <<row, provider, lock>>

Contend(p) ==
  /\ At(p, "read") /\ NeedsRefresh(job[p].row)
  /\ lock # Free
  /\ job' = Go(p, "waiting")
  /\ UNCHANGED <<row, provider, lock, faults, incidents>>

\* awaitRefresh: one of its reloads finds the winner's tokens ...
Adopt(p) ==
  /\ At(p, "waiting") /\ ~NeedsRefresh(row)
  /\ job' = GoWith(p, "done", Adopted(job[p].row, row))
  /\ UNCHANGED <<row, provider, lock, faults, incidents>>

\* ... or none does, and the caller tries with what it has.
GiveUp(p) ==
  /\ At(p, "waiting")
  /\ job' = Go(p, "done")
  /\ UNCHANGED <<row, provider, lock, faults, incidents>>

Recheck(p) ==
  /\ At(p, "locked")
  /\ job' = [job EXCEPT ![p] = Rechecked(job[p].row, row)]
  /\ UNCHANGED <<row, provider, lock, faults, incidents>>

\* The row cannot be read: refresh goes on without.
RecheckFails(p) ==
  /\ At(p, "locked") /\ Fault /\ Note({"blind"})
  /\ job' = Go(p, "exchanging")
  /\ UNCHANGED <<row, provider, lock>>

\* client.Refresh with the refresh token of the copy.
Exchange(p) ==
  /\ At(p, "exchanging") /\ Accepted(job[p].row)
  /\ issued' = issued + 1
  /\ job' = GoWith(p, "storing", Renewed(job[p].row))
  /\ UNCHANGED <<row, revoked, aged, lock, faults, incidents>>

\* invalid_grant: whatever the reason, the account is to be parked.
Refuse(p) ==
  /\ At(p, "exchanging") /\ ~Accepted(job[p].row)
  /\ job' = GoWith(p, "parking", [job[p].row EXCEPT !.parked = TRUE])
  /\ UNCHANGED <<row, provider, lock, faults, incidents>>

\* No answer: the provider has not seen the request, or its answer is lost.
Unanswered(p) ==
  /\ At(p, "exchanging") /\ Fault
  /\ job' = Go(p, "releasing")
  /\ \/ UNCHANGED <<issued, incidents>>
     \/ Accepted(job[p].row) /\ issued' = issued + 1 /\ Note({"lost"})
  /\ UNCHANGED <<row, revoked, aged, lock>>

\* Both save every column of the copy, in a transaction of their own.
Write(p) ==
  /\ job[p].pc \in {"storing", "parking"}
  /\ row' = job[p].row
  /\ job' = Go(p, "releasing")
  /\ UNCHANGED <<provider, lock, faults, incidents>>

\* The save fails.  The tokens are still in the caller's copy.
Unwritten(p) ==
  /\ job[p].pc \in {"storing", "parking"} /\ Fault
  /\ Note(IF At(p, "storing") THEN {"lost"} ELSE {})
  /\ job' = Go(p, "releasing")
  /\ UNCHANGED <<row, provider, lock>>

\* The key is deleted, whoever set it.
Release(p) ==
  /\ At(p, "releasing")
  /\ lock' = Free
  /\ job' = Go(p, "done")
  /\ UNCHANGED <<row, provider, faults, incidents>>

\* Redis does not answer: the key is left to its time to live.
Unreleased(p) ==
  /\ At(p, "releasing") /\ Fault
  /\ job' = Go(p, "done")
  /\ UNCHANGED <<row, provider, lock, incidents>>

\* The caller saves its copy at the end of a sync or a check, which puts an
\* account out of error or leaves its status.
Save(p) ==
  /\ At(p, "done")
  /\ \E parked \in {job[p].row.parked, FALSE} : row' = [job[p].row EXCEPT !.parked = parked]
  /\ Note(IF job[p].row.grant < row.grant THEN {"overwritten"} ELSE {})
  /\ job' = [job EXCEPT ![p] = NoJob]
  /\ UNCHANGED <<provider, lock, faults>>

\* The caller ends without a save: a listing of folders, a failed sync.
Leave(p) ==
  /\ At(p, "done")
  /\ job' = [job EXCEPT ![p] = NoJob]
  /\ UNCHANGED <<row, provider, lock, faults, incidents>>

Resolve(p) ==
  \/ Fresh(p) \/ Acquire(p) \/ Bypass(p) \/ Contend(p) \/ Adopt(p) \/ GiveUp(p)
  \/ Recheck(p) \/ RecheckFails(p) \/ Exchange(p) \/ Refuse(p) \/ Unanswered(p)
  \/ Write(p) \/ Unwritten(p) \/ Release(p) \/ Unreleased(p)

-----------------------------------------------------------------------------
(* Time, the user and crashes.                                             *)

\* refreshLockTTL passes.  The holder may still be at work.
LockExpires ==
  /\ MayExpire
  /\ lock' = Free
  /\ IF lock \in Proc /\ Refreshing(lock)
     THEN Fault /\ Note({"overrun"})
     ELSE UNCHANGED <<faults, incidents>>
  /\ UNCHANGED <<row, provider, job>>

\* The next grant comes within refreshWindow of its expiry.  A process that by
\* then still refreshes, or works with an older one, has outlived it.
Age ==
  /\ aged < issued /\ aged < MaxGrant        \* bound of the model
  /\ aged' = aged + 1
  /\ IF \E p \in Proc : Refreshing(p) \/ (~At(p, "idle") /\ NeedsRefresh(job[p].row))
     THEN Fault /\ Note({"outlived"})
     ELSE UNCHANGED <<faults, incidents>>
  /\ UNCHANGED <<row, issued, revoked, lock, job>>

\* The user withdraws consent at the provider.
Withdraw ==
  /\ ~revoked /\ Fault
  /\ revoked' = TRUE
  /\ Note({"withdrawn"})
  /\ UNCHANGED <<row, issued, aged, lock, job>>

Crash(p) ==
  /\ job[p].pc # "idle" /\ Fault
  /\ Note(IF At(p, "storing") THEN {"lost"} ELSE {})
  /\ job' = [job EXCEPT ![p] = NoJob]
  /\ UNCHANGED <<row, provider, lock>>

Next ==
  \/ \E p \in Proc : Read(p) \/ Resolve(p) \/ Save(p) \/ Leave(p) \/ Crash(p)
  \/ LockExpires \/ Age \/ Withdraw

Spec == Init /\ [][Next]_vars

\* Workers come back to the mailbox and finish what they begin, and keys expire.
Fairness ==
  /\ \A p \in Proc : WF_vars(Read(p)) /\ WF_vars(Resolve(p)) /\ WF_vars(Save(p) \/ Leave(p))
  /\ WF_vars(LockExpires)

FairSpec == Spec /\ Fairness

-----------------------------------------------------------------------------
(* What the comments of MailResolver and Lock promise.                     *)

\* A token is renewed by one process at a time (refresh), unless the lock was
\* bypassed or its time ran out.
OneRefresher ==
  incidents \cap {"bypassed", "overrun"} = {} =>
    \A p, q \in Proc : Refreshing(p) /\ Refreshing(q) => p = q

\* The row holds the newest grant, or a process is about to store it: the
\* refresh under the lock never writes an older one over it, whoever waits,
\* adopts or parks (refresh, store, handleRefreshFailure).
NewestIsKept ==
  incidents \subseteq {"withdrawn"} =>
    \/ row.grant = issued
    \/ \E p \in Proc : At(p, "storing") /\ job[p].row.grant = issued

\* An account is not parked for nothing: consent was withdrawn, or the newest
\* grant was lost, overwritten by a caller, or not protected by the lock.
ParkedHasCause == row.parked => incidents # {}

\* A token near its expiry is renewed or the mailbox parked in the end, although
\* a process may die with the lock (refreshLockTTL).
TokenIsRenewed == NeedsRefresh(row) ~> (~NeedsRefresh(row) \/ row.parked)

\* The claim of Resolve's comment: a caller that saves its account afterwards
\* writes the refreshed credentials rather than stale ones.
SaveIsNotStale == [][\A p \in Proc : Save(p) => row'.grant >= row.grant]_vars
=============================================================================
