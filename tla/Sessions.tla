------------------------------ MODULE Sessions ------------------------------
(***************************************************************************)
(* One account, its sessions and the Redis cache in front of them:          *)
(* registering, signing in, the check of the bearer token on every request, *)
(* signing out, changing the password, and what an admin does to the        *)
(* account (src/internal/usecase/user_usecase.go, admin_usecase.go,         *)
(* gateway/cache/user_cache.go, middleware/auth_middleware.go).             *)
(* A request is a record that stands before its next database or Redis      *)
(* call; which operation it asks for is decided when it first matters, and  *)
(* a request may die before any call.                                       *)
(***************************************************************************)
EXTENDS Naturals, FiniteSets

CONSTANTS
    Requests,       \* slots for requests being served at the same time
    Tokens,         \* bearer tokens that may be issued
    Passwords,      \* passwords the account may have
    Roles           \* role sets the account may have

VARIABLES
    user,       \* the users row with its user_roles
    session,    \* user_sessions by token
    cache,      \* user:token:<hash> in Redis: the role it answers with, NoAuth without an entry
    watchers,   \* status of the account's watchers
    request,    \* the requests being served
    lapse,      \* tokens whose cache entry nobody is left to evict
    overdue,    \* tokens that expired while an answer for them stood or was being read
    stray,      \* tokens of another password that nobody is left to revoke
    awake       \* a caller was let through around a suspension

vars == <<user, session, cache, watchers, request, lapse, overdue, stray, awake>>

-----------------------------------------------------------------------------

NoAuth == "no auth"
User == [password : Passwords, status : {"active", "suspended"}, role : Roles]
NoUser == [status |-> "absent"]

(* What a sign-in goes by after its check.                                    *)
Checked == [password : Passwords]

Session == [state : {"open", "expired"}, password : Passwords]
NoSession == [state |-> "none"]
Revoked == [state |-> "revoked"]

(* "user", "roles", "fill": Verify is about to read the user, to load the    *)
(* roles, to cache its answer; "act": the caller is signed in; "register",   *)
(* "issue", "save": a row was read and is about to be written; "list",       *)
(* "mark", "evict": revokeAllSessions.                                        *)
NoRequest == [at |-> "idle", token |-> NoAuth, auth |-> NoAuth, row |-> NoUser, hashes |-> {}, late |-> FALSE]

Request == [at : {"idle", "user", "roles", "fill", "act", "register", "issue", "save", "list", "mark", "evict"},
            token : Tokens \cup {NoAuth}, auth : Roles \cup {NoAuth}, row : User \cup Checked \cup {NoUser},
            hashes : SUBSET Tokens, late : BOOLEAN]

(* The type of every variable. *)
TypeOK ==
    /\ user \in User \cup {NoUser}
    /\ session \in [Tokens -> Session \cup {NoSession, Revoked}]
    /\ cache \in [Tokens -> Roles \cup {NoAuth}]
    /\ watchers \in {"active", "paused"}
    /\ request \in [Requests -> Request]
    /\ lapse \subseteq Tokens /\ overdue \subseteq Tokens /\ stray \subseteq Tokens
    /\ awake \in BOOLEAN

Init ==
    /\ user = NoUser
    /\ session = [t \in Tokens |-> NoSession]
    /\ cache = [t \in Tokens |-> NoAuth]
    /\ watchers = "paused"
    /\ request = [r \in Requests |-> NoRequest]
    /\ lapse = {} /\ overdue = {} /\ stray = {}
    /\ awake = FALSE

Goto(r, rec) == request' = [request EXCEPT ![r] = rec]
At(at) == [NoRequest EXCEPT !.at = at]

Account == <<user, watchers>>
History == <<lapse, overdue, stray, awake>>

(* The sessions that are not revoked, expired or not.                        *)
Standing == {t \in Tokens : session[t].state \in {"open", "expired"}}

(* The tokens Verify is reading for, and those it found an active user for.  *)
Reading == {request[r].token : r \in {q \in Requests : request[q].at \in {"user", "roles", "fill"}}}
Filling == {request[r].token : r \in {q \in Requests : request[q].at \in {"roles", "fill"}}}
Cached(t) == cache[t] # NoAuth
Answering == {t \in Tokens : Cached(t)} \cup Filling

(* The callers that nothing asks for the status of the user any more.        *)
Admitted == {r \in Requests : request[r].at \in {"roles", "fill", "act"}}
RevocationPending == \E r \in Requests : request[r].at \in {"list", "mark"}

-----------------------------------------------------------------------------
(* The auth middleware. *)

(* Verify answered by Redis. *)
CacheGet(r, t) ==
    /\ request[r].at = "idle"
    /\ Cached(t)
    /\ Goto(r, [At("act") EXCEPT !.token = t])
    /\ awake' = (awake \/ user.status = "suspended")
    /\ UNCHANGED <<Account, session, cache, lapse, overdue, stray>>

(* Mutant: only a revocation ends a session. *)
AcceptsUnrevoked(t) == session[t].state \in {"open", "expired"}

(* FindActiveByTokenHash: neither revoked nor expired. *)
Accepts(t) == session[t].state = "open"

(* Verify after a miss, or when Redis cannot be reached: three reads, each   *)
(* of what is committed when it runs.                                         *)
Verify(r, t) ==
    /\ request[r].at = "idle"
    /\ Accepts(t)
    /\ Goto(r, [At("user") EXCEPT !.token = t])
    /\ UNCHANGED <<Account, session, cache, History>>

(* FindById: a suspended user is refused. *)
CheckStatus(r) ==
    /\ request[r].at = "user"
    /\ Goto(r, IF user.status = "active" THEN [At("roles") EXCEPT !.token = request[r].token] ELSE NoRequest)
    /\ UNCHANGED <<Account, session, cache, History>>

LoadRoles(r) ==
    /\ request[r].at = "roles"
    /\ Goto(r, [At("fill") EXCEPT !.token = request[r].token, !.auth = user.role])
    /\ UNCHANGED <<Account, session, cache, History>>

(* After the commit the answer is cached; a failure is only logged. *)
Fill(r) ==
    /\ request[r].at = "fill"
    /\ cache' = [cache EXCEPT ![request[r].token] = request[r].auth] \/ UNCHANGED cache
    /\ Goto(r, [At("act") EXCEPT !.token = request[r].token])
    /\ UNCHANGED <<Account, session, History>>

-----------------------------------------------------------------------------
(* What a signed-in caller asks for beyond a read: a watcher resumed by a    *)
(* whole-row save that looks at the owner's id only, the end of a session,   *)
(* or an edit of the account, which first reads the whole users row.         *)

Resume(r) ==
    /\ request[r].at = "act"
    /\ watchers' = "active"
    /\ Goto(r, NoRequest)
    /\ UNCHANGED <<user, session, cache, History>>

(* Revoke and the commit; the eviction is the next step. *)
EndSession(r, t) ==
    /\ session' = [session EXCEPT ![t] = Revoked]
    /\ Goto(r, [At("evict") EXCEPT !.hashes = {t}])
    /\ lapse' = lapse \cup (Reading \cap {t})
    /\ overdue' = overdue \ {t}
    /\ stray' = stray \ {t}
    /\ UNCHANGED <<Account, cache, awake>>

Logout(r) ==
    /\ request[r].at = "act"
    /\ EndSession(r, request[r].token)

RevokeSession(r, t) ==
    /\ request[r].at = "act"
    /\ session[t] # NoSession
    /\ EndSession(r, t)

-----------------------------------------------------------------------------
(* Registering and signing in. *)

(* CountByEmail, then the insert, which the unique index may still refuse. *)
Create(r) ==
    /\ \/ /\ request[r].at = "idle" /\ user = NoUser
          /\ Goto(r, At("register"))
          /\ UNCHANGED user
       \/ /\ request[r].at = "register"
          /\ IF user = NoUser
             THEN \E p \in Passwords, role \in Roles :
                    user' = [password |-> p, status |-> "active", role |-> role]
             ELSE UNCHANGED user
          /\ Goto(r, NoRequest)
    /\ UNCHANGED <<watchers, session, cache, History>>

(* Login with the account's password; a suspended account is refused. *)
Login(r) ==
    /\ request[r].at = "idle" /\ user.status = "active"
    /\ Goto(r, [At("issue") EXCEPT !.row = [password |-> user.password]])
    /\ UNCHANGED <<Account, session, cache, History>>

(* Impersonate looks at neither. *)
Impersonate(r) ==
    /\ request[r].at = "idle" /\ user # NoUser
    /\ Goto(r, [At("issue") EXCEPT !.row = [password |-> user.password]])
    /\ UNCHANGED <<Account, session, cache, History>>

(* issueSession and the commit. *)
IssueSession(r, t) ==
    /\ request[r].at = "issue"
    /\ session[t] = NoSession
    /\ session' = [session EXCEPT ![t] = [state |-> "open", password |-> request[r].row.password]]
    /\ stray' = stray \cup {x \in {t} : request[r].late}
    /\ Goto(r, NoRequest)
    /\ UNCHANGED <<Account, cache, lapse, overdue, awake>>

-----------------------------------------------------------------------------
(* Whole-row saves of the users row: what was changed since the row was read *)
(* is undone.  Update reads it for a signed-in caller, ResetPassword behind  *)
(* a reset link, UpdateUser and SetUserStatus for an admin.                  *)

FindUser(r) ==
    /\ request[r].at \in {"idle", "act"} /\ user # NoUser
    /\ Goto(r, [At("save") EXCEPT !.row = user])
    /\ UNCHANGED <<Account, session, cache, History>>

(* Save leaves user_roles alone. *)
Found(r) == [request[r].row EXCEPT !.role = user.role]

Overtaken(password) ==
    [q \in Requests |-> IF request[q].at = "issue" /\ request[q].row.password # password
                        THEN [request[q] EXCEPT !.late = TRUE] ELSE request[q]]
Strays(password) == {t \in Standing : session[t].password # password}

Barred(row) == row.status = "suspended" /\ user.status # "suspended"

(* What awake becomes: a suspension that a stale save brings back pauses     *)
(* nothing, and the end of one is the end of it.                              *)
Stirred(row) == row.status = "suspended" /\ (awake \/ Barred(row))

(* row is saved and the request goes on as next; fresh when a new password   *)
(* was asked for, whose revocation follows.                                  *)
SaveRow(r, row, fresh, next) ==
    LET undone == ~fresh /\ row.password # user.password
        barred == Barred(row) /\ next # At("list")
    IN
    /\ request[r].at = "save"
    /\ user' = row
    /\ request' = [(IF undone THEN Overtaken(row.password) ELSE request) EXCEPT ![r] = next]
    /\ stray' = IF undone THEN stray \cup Strays(row.password) ELSE stray
    /\ lapse' = IF barred THEN lapse \cup Answering ELSE lapse
    /\ UNCHANGED <<session, cache, overdue>>

(* Mutant: a new password leaves the sessions as they are. *)
UpdateWithoutRevoking(r) ==
    /\ \/ SaveRow(r, Found(r), FALSE, NoRequest)
       \/ \E p \in Passwords : SaveRow(r, [Found(r) EXCEPT !.password = p], TRUE, NoRequest)
    /\ awake' = Stirred(request[r].row)
    /\ UNCHANGED watchers

(* Update, ResetPassword; UpdateUser when it only renames the account. *)
Update(r) ==
    /\ \/ SaveRow(r, Found(r), FALSE, NoRequest)
       \/ \E p \in Passwords : SaveRow(r, [Found(r) EXCEPT !.password = p], TRUE, At("list"))
    /\ awake' = Stirred(request[r].row)
    /\ UNCHANGED watchers

(* UpdateUser with roles, and with or without a name. *)
UpdateUser(r) ==
    \E row \in {request[r].row, user}, role \in Roles :
        /\ SaveRow(r, [row EXCEPT !.role = role], FALSE, At("list"))
        /\ awake' = Stirred(row)
        /\ UNCHANGED watchers

(* Mutant: the watchers are not paused. *)
SuspendOnly(r) ==
    \/ /\ SaveRow(r, [Found(r) EXCEPT !.status = "active"], FALSE, NoRequest)
       /\ awake' = FALSE
       /\ UNCHANGED watchers
    \/ /\ SaveRow(r, [Found(r) EXCEPT !.status = "suspended"], FALSE, At("list"))
       /\ awake' = (Admitted # {})
       /\ UNCHANGED watchers

(* SetUserStatus: suspending pauses the watchers in the same transaction. *)
SetUserStatus(r) ==
    \/ /\ SaveRow(r, [Found(r) EXCEPT !.status = "active"], FALSE, NoRequest)
       /\ awake' = FALSE
       /\ UNCHANGED watchers
    \/ /\ SaveRow(r, [Found(r) EXCEPT !.status = "suspended"], FALSE, At("list"))
       /\ watchers' = "paused"
       /\ awake' = (Admitted # {})

-----------------------------------------------------------------------------
(* revokeAllSessions: three calls outside of any transaction. *)

ListHashes(r) ==
    /\ request[r].at = "list"
    /\ request' = IF Standing = {}
                  THEN [Overtaken(user.password) EXCEPT ![r] = NoRequest]
                  ELSE [request EXCEPT ![r].at = "mark", ![r].hashes = Standing]
    /\ UNCHANGED <<Account, session, cache, History>>

RevokeAllForUser(r) ==
    /\ request[r].at = "mark"
    /\ session' = [t \in Tokens |-> IF t \in Standing THEN Revoked ELSE session[t]]
    /\ request' = [Overtaken(user.password) EXCEPT ![r].at = "evict"]
    /\ lapse' = lapse \cup Reading \cup {t \in Standing \ request[r].hashes : Cached(t)}
    /\ overdue' = {}
    /\ stray' = {}
    /\ UNCHANGED <<Account, cache, awake>>

Evict(r) ==
    /\ request[r].at = "evict"
    /\ cache' = [t \in Tokens |-> IF t \in request[r].hashes THEN NoAuth ELSE cache[t]]
    /\ lapse' = lapse \ (request[r].hashes \ Reading)
    /\ Goto(r, NoRequest)
    /\ UNCHANGED <<Account, session, overdue, stray, awake>>

-----------------------------------------------------------------------------
(* A read or a transaction fails, or the process is stopped, before the next *)
(* step: nothing was changed yet.                                             *)
Abort(r) ==
    /\ request[r].at \in {"user", "roles", "fill", "act", "register", "issue", "save"}
    /\ Goto(r, NoRequest)
    /\ UNCHANGED <<Account, session, cache, History>>

(* The same in the middle of a revocation, whose failures are only logged.   *)
Abandon(r) ==
    LET owed == request[r].at \in {"list", "mark"} IN
    /\ request[r].at \in {"list", "mark", "evict"}
    /\ request' = [(IF owed THEN Overtaken(user.password) ELSE request) EXCEPT ![r] = NoRequest]
    /\ stray' = IF owed THEN stray \cup Strays(user.password) ELSE stray
    /\ lapse' = lapse \cup IF owed THEN Answering ELSE {t \in request[r].hashes : Cached(t)}
    /\ UNCHANGED <<Account, session, cache, overdue, awake>>

(* REDIS_TTL_AUTH runs out. *)
ExpireCache(t) ==
    /\ Cached(t)
    /\ cache' = [cache EXCEPT ![t] = NoAuth]
    /\ lapse' = lapse \ ({t} \ Reading)
    /\ overdue' = overdue \ ({t} \ Reading)
    /\ UNCHANGED <<Account, session, request, stray, awake>>

(* expires_at passes: the cached answer knows nothing of it. *)
ExpireSession(t) ==
    /\ session[t].state = "open"
    /\ session' = [session EXCEPT ![t].state = "expired"]
    /\ overdue' = IF Cached(t) \/ t \in Reading THEN overdue \cup {t} ELSE overdue
    /\ UNCHANGED <<Account, cache, request, lapse, stray, awake>>

Step(r) ==
    \/ \E t \in Tokens : CacheGet(r, t) \/ Verify(r, t) \/ RevokeSession(r, t) \/ IssueSession(r, t)
    \/ CheckStatus(r) \/ LoadRoles(r) \/ Fill(r) \/ Resume(r) \/ Logout(r)
    \/ Create(r) \/ Login(r) \/ Impersonate(r)
    \/ FindUser(r) \/ Update(r) \/ UpdateUser(r) \/ SetUserStatus(r)
    \/ ListHashes(r) \/ RevokeAllForUser(r) \/ Evict(r)

Next ==
    \/ \E r \in Requests : Step(r) \/ Abort(r) \/ Abandon(r)
    \/ \E t \in Tokens : ExpireCache(t) \/ ExpireSession(t)

Spec == Init /\ [][Next]_vars

-----------------------------------------------------------------------------
(* A cache entry speaks for an active account with its present roles and for *)
(* a session that is open, or that expired while this answer stood or was    *)
(* being read: what REDIS_TTL_AUTH, and nothing else, ends.  A revocation may *)
(* still be on its way to the entry, or it lost it to a failed call, to an   *)
(* answer that Verify was putting together when the revocation passed, or to *)
(* a session issued between its list and its update (user_usecase.go 92-144, *)
(* 521-534).                                                                  *)
CacheIsFresh ==
    \A t \in Tokens : Cached(t) =>
        \/ /\ session[t].state = "open" \/ (session[t].state = "expired" /\ t \in overdue)
           /\ user.status = "active" /\ user.role = cache[t]
        \/ t \in lapse \/ RevocationPending
        \/ \E r \in Requests : request[r].at = "evict" /\ t \in request[r].hashes

(* After a password change no session of another password goes unrevoked, but *)
(* one whose sign-in the revocation overtook, one of a revocation that      *)
(* failed, or one of a password that a stale save brought back              *)
(* (user_usecase.go 370-373, 514-516).                                       *)
SessionsFollowPassword ==
    \A t \in Standing : session[t].password = user.password \/ t \in stray \/ RevocationPending

(* The watchers of a suspended account stay paused, but for a caller that    *)
(* was let through while the suspension was taking hold, and a stale save    *)
(* that suspends the account again (admin_usecase.go 242-250).               *)
SuspendedIsQuiet == user.status = "suspended" /\ watchers = "active" => awake
=============================================================================
