---------------------------- MODULE OAuthConnect ----------------------------
(***************************************************************************)
(* Connecting one owner's mailboxes over OAuth: the consent that is started *)
(* with or without a mailbox in mind, the state kept in Redis meanwhile,    *)
(* and the callback that spends it (src/internal/usecase/                   *)
(* mail_account_usecase.go, gateway/cache/oauth_state_cache.go).  Which     *)
(* mailbox the owner picks on the consent screen is external.               *)
(* Syncs, checks and requests that save a mailbox they have read run beside  *)
(* the callbacks; when they run, and what they do to its status, its cursor  *)
(* and its tokens is in MailAccount and TokenRefresh.                        *)
(***************************************************************************)
EXTENDS Naturals, FiniteSets

CONSTANTS
    Callbacks,      \* slots for callbacks, and other writers, at the same time
    States,         \* state parameters that may be minted
    Accounts,       \* mail_accounts ids
    Addresses,      \* mailboxes the owner has
    Slugs           \* providers with a consent screen, enabled and compiled in

VARIABLES
    mailbox,    \* the mail_accounts rows
    pending,    \* oauth:state:<state> in Redis
    consent,    \* the callbacks, and the other writers, being served
    spends,     \* how many callbacks went on with a state
    removed,    \* mailboxes that were deleted
    held        \* those of them that one of these had read at that moment

vars == <<mailbox, pending, consent, spends, removed, held>>

-----------------------------------------------------------------------------

None == "none"

(* A token opens one address at one provider; seen is the address whose mail *)
(* the cursor, the watchers and the matches of the row were built from.      *)
Token == Slugs \X Addresses
Row == [provider : Slugs, address : Addresses, seen : Addresses,
        access : SUBSET Token, refresh : SUBSET Token]
NoRow == [provider |-> None]

(* account: the mailbox a re-authorisation is pinned to. *)
State == [provider : Slugs, account : Accounts \cup {None}]
NoState == [provider |-> None, account |-> None]

NoConsent == [at |-> "idle", state |-> None, pin |-> None, slug |-> None,
              address |-> None, renews |-> FALSE, id |-> None, row |-> NoRow]

Init ==
    /\ mailbox = [a \in Accounts |-> NoRow]
    /\ pending = [s \in States |-> NoState]
    /\ consent = [c \in Callbacks |-> NoConsent]
    /\ spends = [s \in States |-> 0]
    /\ removed = {} /\ held = {}

Goto(c, rec) == consent' = [consent EXCEPT ![c] = rec]
Unused(a) == mailbox[a] = NoRow /\ a \notin removed
Owned(address) == {a \in Accounts : mailbox[a] # NoRow /\ mailbox[a].address = address}

-----------------------------------------------------------------------------
(* The requests of the owner. *)

(* Create, with a password. *)
Create(a, slug, address) ==
    /\ Unused(a) /\ Owned(address) = {}
    /\ mailbox' = [mailbox EXCEPT ![a] = [provider |-> slug, address |-> address, seen |-> address,
                                          access |-> {}, refresh |-> {}]]
    /\ UNCHANGED <<pending, consent, spends, removed, held>>

Delete(a) ==
    /\ mailbox[a] # NoRow
    /\ mailbox' = [mailbox EXCEPT ![a] = NoRow]
    /\ removed' = removed \cup {a}
    /\ held' = held \cup {b \in {a} : \E c \in Callbacks : consent[c].id = a}
    /\ UNCHANGED <<pending, consent, spends>>

(* newOAuthState never draws the same value twice. *)
Remember(s, slug, account) ==
    /\ pending[s] = NoState /\ spends[s] = 0
    /\ pending' = [pending EXCEPT ![s] = [provider |-> slug, account |-> account]]
    /\ UNCHANGED <<mailbox, consent, spends, removed, held>>

Authorize(s, slug) == Remember(s, slug, None)

Reauthorize(s, a) ==
    /\ mailbox[a] # NoRow
    /\ Remember(s, mailbox[a].provider, a)

(* The ten minutes are over. *)
Expire(s) ==
    /\ pending[s] # NoState
    /\ pending' = [pending EXCEPT ![s] = NoState]
    /\ UNCHANGED <<mailbox, consent, spends, removed, held>>

-----------------------------------------------------------------------------
(* The callback of a provider's redirect; it may be replayed, or come with   *)
(* the wrong provider.  Every refusal ends it with a redirect.               *)

(* Mutant: the state is read, and stays. *)
Peeked(s) == pending

(* Consume reads and deletes at once. *)
Consumed(s) == [pending EXCEPT ![s] = NoState]

Callback(c, s, slug) ==
    /\ consent[c] = NoConsent
    /\ pending[s] # NoState
    /\ pending' = Consumed(s)
    /\ IF pending[s].provider = slug
       THEN /\ Goto(c, [NoConsent EXCEPT !.at = "exchange", !.state = s,
                                         !.pin = pending[s].account, !.slug = slug])
            /\ spends' = [spends EXCEPT ![s] = @ + 1]
       ELSE UNCHANGED <<consent, spends>>
    /\ UNCHANGED <<mailbox, removed, held>>

(* Exchange and Identify: the address the owner consented with, and whether  *)
(* a refresh token came along, which a second consent often lacks.           *)
Exchange(c, address, renews) ==
    /\ consent[c].at = "exchange"
    /\ Goto(c, [consent[c] EXCEPT !.at = "find", !.address = address, !.renews = renews])
    /\ UNCHANGED <<mailbox, pending, spends, removed, held>>

(* Mutant: the address of a pinned mailbox is not compared. *)
FoundByPin(c, a) ==
    LET job == consent[c] IN
    /\ job.pin # None => a = job.pin
    /\ mailbox[a] # NoRow
    /\ job.pin = None => mailbox[a].address = job.address
    /\ mailbox[a].provider = job.slug

(* connect looks a pinned mailbox up by id and checks its address, and any   *)
(* other up by its address; the provider has to be the same.                 *)
Found(c, a) ==
    LET job == consent[c] IN
    /\ job.pin # None => a = job.pin
    /\ mailbox[a] # NoRow
    /\ mailbox[a].address = job.address
    /\ mailbox[a].provider = job.slug

FindAccount(c, a) ==
    /\ consent[c].at = "find"
    /\ Found(c, a)
    /\ Goto(c, [consent[c] EXCEPT !.at = "save", !.id = a, !.row = mailbox[a]])
    /\ UNCHANGED <<mailbox, pending, spends, removed, held>>

(* Merged over what was read: a refresh token is kept when none came. *)
Connected(job) ==
    LET token == {<<job.slug, job.address>>} IN
    [job.row EXCEPT !.provider = job.slug, !.address = job.address, !.access = token,
                    !.refresh = IF job.renews THEN token ELSE @]

(* The whole row is saved, and inserted when it is gone, unless the owner    *)
(* has the address in another row by now.                                    *)
Store(a, row) ==
    IF Owned(row.address) \subseteq {a}
    THEN mailbox' = [mailbox EXCEPT ![a] = row]
    ELSE UNCHANGED mailbox

Save(c) ==
    LET job == consent[c] IN
    /\ job.at = "save"
    /\ Store(job.id, Connected(job))
    /\ Goto(c, NoConsent)
    /\ UNCHANGED <<pending, spends, removed, held>>

(* Mutant: a pinned mailbox that is gone is made anew. *)
ConnectPinned(c, a) ==
    LET job == consent[c]
        token == {<<job.slug, job.address>>}
    IN
    /\ job.at = "find" /\ job.pin \in {None, a}
    /\ Owned(job.address) = {} /\ mailbox[a] = NoRow
    /\ mailbox' = [mailbox EXCEPT ![a] =
            [provider |-> job.slug, address |-> job.address, seen |-> job.address,
             access |-> token, refresh |-> IF job.renews THEN token ELSE {}]]
    /\ Goto(c, NoConsent)
    /\ UNCHANGED <<pending, spends, removed, held>>

(* No mailbox has the address: one is created, due at once. *)
Connect(c, a) ==
    LET job == consent[c]
        token == {<<job.slug, job.address>>}
    IN
    /\ job.at = "find" /\ job.pin = None
    /\ Owned(job.address) = {} /\ Unused(a)
    /\ mailbox' = [mailbox EXCEPT ![a] =
            [provider |-> job.slug, address |-> job.address, seen |-> job.address,
             access |-> token, refresh |-> IF job.renews THEN token ELSE {}]]
    /\ Goto(c, NoConsent)
    /\ UNCHANGED <<pending, spends, removed, held>>

(* A sync, a check of the credentials or a request of the owner reads a      *)
(* mailbox (FindDue, FindStale, find).                                       *)
Read(c, a) ==
    /\ consent[c] = NoConsent
    /\ mailbox[a] # NoRow
    /\ Goto(c, [NoConsent EXCEPT !.at = "resave", !.id = a, !.row = mailbox[a]])
    /\ UNCHANGED <<mailbox, pending, spends, removed, held>>

(* And saves it whole: once, or again after a renewal of its tokens, which    *)
(* open the same mailbox.                                                    *)
Resave(c) ==
    LET job == consent[c] IN
    /\ job.at = "resave"
    /\ Store(job.id, job.row)
    /\ \E next \in {job, NoConsent} : Goto(c, next)
    /\ UNCHANGED <<pending, spends, removed, held>>

(* A refusal, an error, or the process stops. *)
GiveUp(c) ==
    /\ consent[c] # NoConsent
    /\ Goto(c, NoConsent)
    /\ UNCHANGED <<mailbox, pending, spends, removed, held>>

Next ==
    \/ \E a \in Accounts :
        \/ \E slug \in Slugs, address \in Addresses : Create(a, slug, address)
        \/ Delete(a)
        \/ \E s \in States : Reauthorize(s, a)
        \/ \E c \in Callbacks : FindAccount(c, a) \/ Connect(c, a) \/ Read(c, a)
    \/ \E s \in States :
        \/ \E slug \in Slugs : Authorize(s, slug) \/ \E c \in Callbacks : Callback(c, s, slug)
        \/ Expire(s)
    \/ \E c \in Callbacks :
        \/ \E address \in Addresses, renews \in BOOLEAN : Exchange(c, address, renews)
        \/ Save(c) \/ Resave(c) \/ GiveUp(c)

-----------------------------------------------------------------------------
(* A mailbox keeps the address its cursor and watchers were built from, and  *)
(* both of its tokens open that address at its provider, whichever consents  *)
(* end in which order (mail_account_usecase.go 830-866).                     *)
TokensOpenMailbox ==
    \A a \in Accounts : mailbox[a] # NoRow =>
        LET row == mailbox[a] IN
        /\ row.address = row.seen
        /\ row.access \cup row.refresh \subseteq {<<row.provider, row.address>>}

(* A deleted mailbox comes back only by the save of a callback, a sync, a    *)
(* check or a request that had read it when it was deleted; a consent that   *)
(* was asked for it makes no new one (mail_account_usecase.go 830-834,       *)
(* pipeline_usecase.go 232).                                                 *)
DeletedStaysGone ==
    \A a \in removed : mailbox[a] # NoRow => a \in held

(* However often a callback is replayed, one goes on with its state          *)
(* (oauth_state_cache.go 43-45).                                             *)
StateSpentOnce == \A s \in States : spends[s] <= 1
=============================================================================
