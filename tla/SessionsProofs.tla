---------------------------- MODULE SessionsProofs ----------------------------
(***************************************************************************)
(* Theorems about Sessions, for any number of requests, tokens, passwords   *)
(* and roles.                                                               *)
(***************************************************************************)
EXTENDS Sessions, TLAPS

-----------------------------------------------------------------------------
(* The inductive invariants. *)

(* What a request at a step has in hand, when the account is account. *)
Fits(req, account) ==
    /\ req.at \in {"user", "roles", "fill", "act"} => req.token \in Tokens
    /\ req.at = "roles" => account \in User
    /\ req.at = "fill" => req.auth \in Roles
    /\ req.at = "issue" => req.row \in Checked /\ account \in User
    /\ req.at = "save" => req.row \in User /\ account \in User

Typed == TypeOK /\ \A q \in Requests : Fits(request[q], user)

(* A suspended account without a caller let through has nobody signed in. *)
Quiet ==
    user.status = "suspended" /\ ~awake => watchers = "paused" /\ Admitted = {}

Evicting(t) == \E q \in Requests : request[q].at = "evict" /\ t \in request[q].hashes
Reads(q) == request[q].at \in {"user", "roles", "fill"}
Speaks(role) == user.status = "active" /\ user.role = role

(* An entry of an ended session has its eviction coming, lost it, or came    *)
(* before the session expired; one that does not speak for the account has a *)
(* revocation coming at least.                                                *)
EntryFresh(t) ==
    /\ session[t].state # "none"
    /\ session[t].state = "revoked" => t \in lapse \/ Evicting(t)
    /\ session[t].state = "expired" => t \in overdue
    /\ Speaks(cache[t]) \/ t \in lapse \/ RevocationPending \/ Evicting(t)

(* What Verify has read so far is held to the same.                          *)
ReadFresh(q) ==
    LET t == request[q].token IN
    /\ session[t].state # "none"
    /\ session[t].state = "revoked" => t \in lapse
    /\ session[t].state = "expired" => t \in overdue
    /\ request[q].at = "roles" => user.status = "active" \/ t \in lapse \/ RevocationPending
    /\ request[q].at = "fill" => Speaks(request[q].auth) \/ t \in lapse \/ RevocationPending

Fresh ==
    /\ \A t \in Tokens : Cached(t) => EntryFresh(t)
    /\ \A q \in Requests : Reads(q) => ReadFresh(q)

(* A session is of the account's password, and so is one about to be issued. *)
Follows ==
    /\ \A t \in Standing : user \in User /\ (session[t].password = user.password \/ t \in stray \/ RevocationPending)
    /\ \A q \in Requests : request[q].at = "issue" =>
        request[q].row.password = user.password \/ request[q].late \/ RevocationPending

-----------------------------------------------------------------------------
(* What a step does to the requests. *)

(* Nothing of q changes but that its sign-in may have been overtaken. *)
Keeps(q) ==
    /\ request'[q].at = request[q].at /\ request'[q].token = request[q].token
    /\ request'[q].auth = request[q].auth /\ request'[q].row = request[q].row
    /\ request'[q].hashes = request[q].hashes
    /\ request[q].late => request'[q].late

Moves(r, at) ==
    /\ request' \in [Requests -> Request]
    /\ request'[r].at = at
    /\ \A q \in Requests : q # r => Keeps(q)

Steps == {"idle", "user", "roles", "fill", "act", "register", "issue", "save", "list", "mark", "evict"}

\* The records a request may become: at a step, with a token, an answer, a row or hashes.
LEMMA NoRequestType == NoRequest \in Request /\ NoRequest.at = "idle"
BY DEF NoRequest, Request

LEMMA AtType ==
  ASSUME NEW at \in Steps
  PROVE  At(at) \in Request /\ At(at).at = at
BY DEF At, NoRequest, Request, Steps

LEMMA AtToken ==
  ASSUME NEW t \in Tokens
  PROVE  /\ [At("act") EXCEPT !.token = t] \in Request
         /\ [At("act") EXCEPT !.token = t].at = "act"
         /\ [At("act") EXCEPT !.token = t].token = t
BY DEF At, NoRequest, Request

LEMMA AtFill ==
  ASSUME NEW t \in Tokens, NEW auth \in Roles
  PROVE  /\ [At("fill") EXCEPT !.token = t, !.auth = auth] \in Request
         /\ [At("fill") EXCEPT !.token = t, !.auth = auth].at = "fill"
         /\ [At("fill") EXCEPT !.token = t, !.auth = auth].token = t
         /\ [At("fill") EXCEPT !.token = t, !.auth = auth].auth = auth
BY DEF At, NoRequest, Request

LEMMA AtReading ==
  ASSUME NEW at \in {"user", "roles"}, NEW t \in Tokens
  PROVE  LET rec == [At(at) EXCEPT !.token = t] IN
         rec \in Request /\ rec.at = at /\ rec.token = t
BY DEF At, NoRequest, Request

LEMMA AtRow ==
  ASSUME NEW at \in {"issue", "save"}, NEW row \in User \cup Checked
  PROVE  LET rec == [At(at) EXCEPT !.row = row] IN
         rec \in Request /\ rec.at = at /\ rec.row = row
BY DEF At, NoRequest, Request

LEMMA AtHashes ==
  ASSUME NEW hashes \in SUBSET Tokens
  PROVE  LET rec == [At("evict") EXCEPT !.hashes = hashes] IN
         rec \in Request /\ rec.at = "evict" /\ rec.hashes = hashes
BY DEF At, NoRequest, Request

LEMMA GotoMoves ==
  ASSUME TypeOK, NEW r \in Requests, NEW rec \in Request, Goto(r, rec)
  PROVE  Moves(r, rec.at) /\ request'[r] = rec
<1>1. request \in [Requests -> Request] BY DEF TypeOK
<1>2. request' = [request EXCEPT ![r] = rec] BY DEF Goto
<1>3. QED BY <1>1, <1>2 DEF Moves, Keeps

\* Overtaken changes no more than late, and sets it for sign-ins with another password.
LEMMA OvertakenType ==
  ASSUME TypeOK, NEW p
  PROVE  /\ Overtaken(p) \in [Requests -> Request]
         /\ \A q \in Requests :
              /\ Overtaken(p)[q].at = request[q].at /\ Overtaken(p)[q].token = request[q].token
              /\ Overtaken(p)[q].auth = request[q].auth /\ Overtaken(p)[q].row = request[q].row
              /\ Overtaken(p)[q].hashes = request[q].hashes
              /\ request[q].late => Overtaken(p)[q].late
              /\ request[q].at = "issue" /\ request[q].row.password # p => Overtaken(p)[q].late
<1>1. request \in [Requests -> Request] BY DEF TypeOK
<1>2. \A q \in Requests : [request[q] EXCEPT !.late = TRUE] \in Request BY <1>1 DEF Request
<1>3. QED BY <1>1, <1>2 DEF Overtaken, Request

LEMMA OvertakenMoves ==
  ASSUME TypeOK, NEW r \in Requests, NEW p, NEW rec \in Request, request' = [Overtaken(p) EXCEPT ![r] = rec]
  PROVE  /\ Moves(r, rec.at) /\ request'[r] = rec
         /\ \A q \in Requests : q # r /\ request[q].at = "issue" /\ request[q].row.password # p => request'[q].late
BY OvertakenType DEF Moves, Keeps

\* A user that is not absent is a row.
LEMMA UserRow ==
  ASSUME TypeOK, user # NoUser \/ user.status \in {"active", "suspended"}
  PROVE  user \in User
BY DEF TypeOK, NoUser

\* The steps that are a Goto.
LEMMA CacheGetMoves ==
  ASSUME Typed, NEW r \in Requests, NEW t \in Tokens, CacheGet(r, t)
  PROVE  Moves(r, "act") /\ request'[r].token = t
<1>1. PICK rec \in Request : Goto(r, rec) /\ rec.at = "act" /\ rec.token = t BY AtToken DEF CacheGet
<1>2. QED BY <1>1, GotoMoves DEF Typed

LEMMA VerifyMoves ==
  ASSUME Typed, NEW r \in Requests, NEW t \in Tokens, Verify(r, t)
  PROVE  Moves(r, "user") /\ request'[r].token = t
<1>1. PICK rec \in Request : Goto(r, rec) /\ rec.at = "user" /\ rec.token = t BY AtReading DEF Verify
<1>2. QED BY <1>1, GotoMoves DEF Typed

LEMMA CheckStatusMoves ==
  ASSUME Typed, NEW r \in Requests, CheckStatus(r)
  PROVE  \/ Moves(r, "idle")
         \/ /\ Moves(r, "roles") /\ request'[r].token = request[r].token /\ request[r].token \in Tokens
            /\ user.status = "active" /\ user \in User
<1>1. request[r].token \in Tokens BY DEF Typed, Fits, CheckStatus
<1>2. CASE user.status = "active"
  <2>1. Goto(r, [At("roles") EXCEPT !.token = request[r].token]) BY <1>2 DEF CheckStatus
  <2>2. PICK rec \in Request : Goto(r, rec) /\ rec.at = "roles" /\ rec.token = request[r].token
    BY <1>1, <2>1, AtReading
  <2>3. user \in User BY <1>2, UserRow DEF Typed
  <2>4. QED BY <1>1, <1>2, <2>2, <2>3, GotoMoves DEF Typed
<1>3. CASE user.status # "active" BY <1>3, NoRequestType, GotoMoves DEF CheckStatus, Typed
<1>4. QED BY <1>2, <1>3

LEMMA LoadRolesMoves ==
  ASSUME Typed, NEW r \in Requests, LoadRoles(r)
  PROVE  /\ Moves(r, "fill") /\ request'[r].token = request[r].token /\ request'[r].auth = user.role
         /\ request[r].token \in Tokens /\ user.role \in Roles
<1>1. request[r].token \in Tokens /\ user \in User BY DEF Typed, Fits, LoadRoles
<1>2. user.role \in Roles BY <1>1 DEF User
<1>3. PICK auth \in Roles : auth = user.role BY <1>2
<1>4. Goto(r, [At("fill") EXCEPT !.token = request[r].token, !.auth = auth]) BY <1>3 DEF LoadRoles
<1>5. PICK rec \in Request : Goto(r, rec) /\ rec.at = "fill" /\ rec.token = request[r].token /\ rec.auth = auth
  BY <1>1, <1>4, AtFill
<1>6. QED BY <1>1, <1>2, <1>3, <1>5, GotoMoves DEF Typed

LEMMA FillMoves ==
  ASSUME Typed, NEW r \in Requests, Fill(r)
  PROVE  /\ Moves(r, "act") /\ request'[r].token = request[r].token
         /\ request[r].token \in Tokens /\ request[r].auth \in Roles
<1>1. request[r].token \in Tokens /\ request[r].auth \in Roles BY DEF Typed, Fits, Fill
<1>2. PICK rec \in Request : Goto(r, rec) /\ rec.at = "act" /\ rec.token = request[r].token
  BY <1>1, AtToken DEF Fill
<1>3. QED BY <1>1, <1>2, GotoMoves DEF Typed

LEMMA EndSessionMoves ==
  ASSUME Typed, NEW r \in Requests, NEW t \in Tokens, EndSession(r, t)
  PROVE  Moves(r, "evict") /\ request'[r].hashes = {t}
<1>1. {t} \in SUBSET Tokens OBVIOUS
<1>2. PICK rec \in Request : Goto(r, rec) /\ rec.at = "evict" /\ rec.hashes = {t}
  BY <1>1, AtHashes DEF EndSession
<1>3. QED BY <1>2, GotoMoves DEF Typed

LEMMA SignInMoves ==
  ASSUME Typed, NEW r \in Requests, Login(r) \/ Impersonate(r)
  PROVE  /\ Moves(r, "issue") /\ request'[r].row \in Checked
         /\ request'[r].row.password = user.password /\ user \in User
<1>1. user # NoUser \/ user.status \in {"active", "suspended"} BY DEF Login, Impersonate
<1>2. user \in User BY <1>1, UserRow DEF Typed
<1>3. [password |-> user.password] \in Checked BY <1>2 DEF User, Checked
<1>4. PICK row \in Checked : row.password = user.password /\ Goto(r, [At("issue") EXCEPT !.row = row])
  BY <1>3 DEF Login, Impersonate
<1>5. PICK rec \in Request : Goto(r, rec) /\ rec.at = "issue" /\ rec.row = row BY <1>4, AtRow
<1>6. QED BY <1>2, <1>4, <1>5, GotoMoves DEF Typed

LEMMA FindUserMoves ==
  ASSUME Typed, NEW r \in Requests, FindUser(r)
  PROVE  Moves(r, "save") /\ request'[r].row = user /\ user \in User
<1>1. user \in User BY UserRow DEF Typed, FindUser
<1>2. PICK rec \in Request : Goto(r, rec) /\ rec.at = "save" /\ rec.row = user BY <1>1, AtRow DEF FindUser
<1>3. QED BY <1>1, <1>2, GotoMoves DEF Typed

LEMMA DoneMoves ==
  ASSUME Typed, NEW r \in Requests, Goto(r, NoRequest)
  PROVE  Moves(r, "idle")
BY NoRequestType, GotoMoves DEF Typed

LEMMA ListHashesMoves ==
  ASSUME Typed, NEW r \in Requests, ListHashes(r)
  PROVE  \/ /\ Standing = {} /\ Moves(r, "idle")
            /\ \A q \in Requests : q # r /\ request[q].at = "issue" /\ request[q].row.password # user.password
                                     => request'[q].late
         \/ Moves(r, "mark") /\ request'[r].hashes = Standing
<1>1. CASE Standing = {} BY <1>1, NoRequestType, OvertakenMoves DEF Typed, ListHashes
<1>2. CASE Standing # {}
  <2>1. request \in [Requests -> Request] BY DEF Typed, TypeOK
  <2>2. request' = [request EXCEPT ![r] = [request[r] EXCEPT !.at = "mark", !.hashes = Standing]]
    BY <1>2, <2>1 DEF ListHashes
  <2>3. Standing \in SUBSET Tokens BY DEF Standing
  <2>4. [request[r] EXCEPT !.at = "mark", !.hashes = Standing] \in Request BY <2>1, <2>3 DEF Request
  <2>5. /\ [request[r] EXCEPT !.at = "mark", !.hashes = Standing].at = "mark"
        /\ [request[r] EXCEPT !.at = "mark", !.hashes = Standing].hashes = Standing
    BY <2>1 DEF Request
  <2>6. PICK rec \in Request : Goto(r, rec) /\ rec.at = "mark" /\ rec.hashes = Standing
    BY <2>2, <2>4, <2>5 DEF Goto
  <2>7. QED BY <2>6, GotoMoves DEF Typed
<1>3. QED BY <1>1, <1>2

LEMMA RevokeAllMoves ==
  ASSUME Typed, NEW r \in Requests, RevokeAllForUser(r)
  PROVE  /\ Moves(r, "evict") /\ request'[r].hashes = request[r].hashes
         /\ \A q \in Requests : q # r /\ request[q].at = "issue" /\ request[q].row.password # user.password
                                  => request'[q].late
<1>1. Overtaken(user.password) \in [Requests -> Request] BY OvertakenType DEF Typed
<1>2. request' = [Overtaken(user.password) EXCEPT ![r] = [Overtaken(user.password)[r] EXCEPT !.at = "evict"]]
  BY <1>1 DEF RevokeAllForUser
<1>3. [Overtaken(user.password)[r] EXCEPT !.at = "evict"] \in Request BY <1>1 DEF Request
<1>4. /\ [Overtaken(user.password)[r] EXCEPT !.at = "evict"].at = "evict"
      /\ [Overtaken(user.password)[r] EXCEPT !.at = "evict"].hashes = request[r].hashes
  BY <1>1, OvertakenType DEF Request, Typed
<1>5. PICK rec \in Request : /\ request' = [Overtaken(user.password) EXCEPT ![r] = rec]
                             /\ rec.at = "evict" /\ rec.hashes = request[r].hashes
  BY <1>2, <1>3, <1>4
<1>6. QED BY <1>5, OvertakenMoves DEF Typed

LEMMA SaveRowMoves ==
  ASSUME Typed, NEW r \in Requests, NEW row, NEW fresh \in BOOLEAN, NEW next \in {NoRequest, At("list")},
         SaveRow(r, row, fresh, next)
  PROVE  /\ Moves(r, next.at)
         /\ ~fresh /\ row.password # user.password =>
              \A q \in Requests : q # r /\ request[q].at = "issue" /\ request[q].row.password # row.password
                                    => request'[q].late
<1>1. next \in Request BY NoRequestType, AtType DEF Steps
<1>2. CASE ~fresh /\ row.password # user.password
  BY <1>1, <1>2, OvertakenMoves DEF SaveRow, Typed
<1>3. CASE ~(~fresh /\ row.password # user.password)
  BY <1>1, <1>3, GotoMoves DEF SaveRow, Goto, Typed
<1>4. QED BY <1>2, <1>3

LEMMA AbandonMoves ==
  ASSUME Typed, NEW r \in Requests, Abandon(r)
  PROVE  /\ Moves(r, "idle")
         /\ request[r].at \in {"list", "mark"} =>
              \A q \in Requests : q # r /\ request[q].at = "issue" /\ request[q].row.password # user.password
                                    => request'[q].late
<1>1. CASE request[r].at \in {"list", "mark"}
  <2>1. request' = [Overtaken(user.password) EXCEPT ![r] = NoRequest] BY <1>1 DEF Abandon
  <2>2. QED BY <2>1, NoRequestType, OvertakenMoves DEF Typed
<1>2. CASE request[r].at \notin {"list", "mark"}
  <2>1. Goto(r, NoRequest) BY <1>2 DEF Abandon, Goto
  <2>2. QED BY <1>2, <2>1, NoRequestType, GotoMoves DEF Typed
<1>3. QED BY <1>1, <1>2

-----------------------------------------------------------------------------
(* Types. *)

\* What every request has in hand is kept, when it is for the one that moves.
LEMMA FitsStep ==
  ASSUME Typed, NEW r \in Requests, NEW at, Moves(r, at), Fits(request'[r], user'),
         user \in User => user' \in User
  PROVE  \A q \in Requests : Fits(request'[q], user')
BY DEF Typed, Moves, Keeps, Fits

\* The same when user stays, and the request comes to a step that needs nothing.
LEMMA RestFits ==
  ASSUME Typed, NEW r \in Requests, NEW at \in {"idle", "register", "list", "mark", "evict"}, Moves(r, at),
         user \in User => user' \in User
  PROVE  \A q \in Requests : Fits(request'[q], user')
<1>1. Fits(request'[r], user') BY DEF Moves, Fits
<1>2. QED BY <1>1, FitsStep

\* What is saved is a row.
LEMMA FoundType ==
  ASSUME Typed, NEW r \in Requests, request[r].at = "save"
  PROVE  /\ user \in User /\ request[r].row \in User
         /\ Found(r) \in User
         /\ \A p \in Passwords : [Found(r) EXCEPT !.password = p] \in User
         /\ \A s \in {"active", "suspended"} : [Found(r) EXCEPT !.status = s] \in User
         /\ \A role \in Roles : /\ [request[r].row EXCEPT !.role = role] \in User
                                /\ [user EXCEPT !.role = role] \in User
         /\ \A row \in {request[r].row, user}, role \in Roles :
              [row EXCEPT !.role = role] \in User /\ [row EXCEPT !.role = role].status = row.status
<1>1. user \in User /\ request[r].row \in User BY DEF Typed, Fits
<1>2. QED BY <1>1 DEF Found, User

\* A save writes a row and moves the request to its end or to the revocation.
LEMMA SaveRowTyped ==
  ASSUME Typed, NEW r \in Requests, NEW row \in User, NEW fresh \in BOOLEAN,
         NEW next \in {NoRequest, At("list")}, SaveRow(r, row, fresh, next),
         watchers' \in {"active", "paused"}, awake' \in BOOLEAN
  PROVE  Typed'
<1>1. Moves(r, next.at) /\ next.at \in {"idle", "list"}
  BY SaveRowMoves, NoRequestType, AtType DEF Steps
<1>2. user' = row /\ user' \in User BY DEF SaveRow
<1>3. \A q \in Requests : Fits(request'[q], user') BY <1>1, <1>2, RestFits
<1>4. stray' \subseteq Tokens BY DEF SaveRow, Typed, TypeOK, Strays, Standing
<1>5. lapse' \subseteq Tokens BY DEF SaveRow, Typed, TypeOK, Answering, Filling, Fits
<1>6. UNCHANGED <<session, cache, overdue>> BY DEF SaveRow
<1>7. QED BY <1>1, <1>2, <1>3, <1>4, <1>5, <1>6 DEF Typed, TypeOK, Moves

\* The saves.
LEMMA SavesTyped ==
  ASSUME Typed, NEW r \in Requests, Update(r) \/ UpdateUser(r) \/ SetUserStatus(r)
  PROVE  Typed'
<1>1. request[r].at = "save" BY DEF Update, UpdateUser, SetUserStatus, SaveRow
<1>2. watchers \in {"active", "paused"} /\ awake \in BOOLEAN BY DEF Typed, TypeOK
<1>3. CASE Update(r)
  <2>1. watchers' \in {"active", "paused"} /\ awake' \in BOOLEAN BY <1>2, <1>3 DEF Update, Stirred
  <2>2. CASE SaveRow(r, Found(r), FALSE, NoRequest) BY <1>1, <2>1, <2>2, FoundType, SaveRowTyped
  <2>3. CASE \E p \in Passwords : SaveRow(r, [Found(r) EXCEPT !.password = p], TRUE, At("list"))
    <3>1. PICK row \in User : SaveRow(r, row, TRUE, At("list")) BY <1>1, <2>3, FoundType
    <3>2. QED BY <2>1, <3>1, SaveRowTyped
  <2>4. QED BY <1>3, <2>2, <2>3 DEF Update
<1>4. CASE UpdateUser(r)
  <2>1. watchers' \in {"active", "paused"} /\ awake' \in BOOLEAN BY <1>2, <1>4 DEF UpdateUser, Stirred
  <2>2. PICK row \in User : SaveRow(r, row, FALSE, At("list")) BY <1>1, <1>4, FoundType DEF UpdateUser
  <2>3. QED BY <2>1, <2>2, SaveRowTyped
<1>5. CASE SetUserStatus(r)
  <2>1. watchers' \in {"active", "paused"} /\ awake' \in BOOLEAN BY <1>2, <1>5 DEF SetUserStatus
  <2>2. PICK row \in User, next \in {NoRequest, At("list")} : SaveRow(r, row, FALSE, next)
    BY <1>1, <1>5, FoundType DEF SetUserStatus
  <2>3. QED BY <2>1, <2>2, SaveRowTyped
<1>6. QED BY <1>3, <1>4, <1>5

\* The auth middleware and what a signed-in caller asks for.
LEMMA MiddlewareTyped ==
  ASSUME Typed, NEW r \in Requests,
         \/ \E t \in Tokens : CacheGet(r, t) \/ Verify(r, t)
         \/ CheckStatus(r) \/ LoadRoles(r) \/ Fill(r) \/ Abort(r) \/ Resume(r)
  PROVE  Typed'
<1>1. CASE \E t \in Tokens : CacheGet(r, t)
  <2>1. PICK t \in Tokens : CacheGet(r, t) BY <1>1
  <2>2. Moves(r, "act") /\ request'[r].token = t BY <2>1, CacheGetMoves
  <2>3. UNCHANGED <<user, session, cache, watchers, lapse, overdue, stray>> /\ awake' \in BOOLEAN
    BY <2>1 DEF CacheGet, Account, Typed, TypeOK
  <2>4. Fits(request'[r], user') BY <2>2 DEF Fits, Moves
  <2>5. \A q \in Requests : Fits(request'[q], user') BY <2>2, <2>3, <2>4, FitsStep
  <2>6. QED BY <2>2, <2>3, <2>5 DEF Typed, TypeOK, Moves
<1>2. CASE (\E t \in Tokens : Verify(r, t)) \/ CheckStatus(r) \/ LoadRoles(r)
  <2>1. UNCHANGED <<user, session, cache, watchers, lapse, overdue, stray, awake>>
    BY <1>2 DEF Verify, CheckStatus, LoadRoles, Account, History
  <2>2. PICK at \in {"idle", "user", "roles", "fill"} :
          /\ Moves(r, at)
          /\ at # "idle" => request'[r].token \in Tokens
          /\ at = "roles" => user \in User
          /\ at = "fill" => request'[r].auth \in Roles
    BY <1>2, VerifyMoves, CheckStatusMoves, LoadRolesMoves
  <2>3. Fits(request'[r], user') BY <2>1, <2>2 DEF Fits, Moves
  <2>4. \A q \in Requests : Fits(request'[q], user') BY <2>1, <2>2, <2>3, FitsStep
  <2>5. QED BY <2>1, <2>2, <2>4 DEF Typed, TypeOK, Moves
<1>3. CASE Fill(r)
  <2>1. /\ Moves(r, "act") /\ request'[r].token = request[r].token
        /\ request[r].token \in Tokens /\ request[r].auth \in Roles BY <1>3, FillMoves
  <2>2. UNCHANGED <<user, session, watchers, lapse, overdue, stray, awake>> BY <1>3 DEF Fill, Account, History
  <2>3. cache' \in [Tokens -> Roles \cup {NoAuth}] BY <1>3, <2>1 DEF Fill, Typed, TypeOK
  <2>4. Fits(request'[r], user') BY <2>1 DEF Fits, Moves
  <2>5. \A q \in Requests : Fits(request'[q], user') BY <2>1, <2>2, <2>4, FitsStep
  <2>6. QED BY <2>1, <2>2, <2>3, <2>5 DEF Typed, TypeOK, Moves
<1>4. CASE Abort(r) \/ Resume(r)
  <2>1. Moves(r, "idle") BY <1>4, DoneMoves DEF Abort, Resume
  <2>2. UNCHANGED <<user, session, cache, lapse, overdue, stray, awake>> /\ watchers' \in {"active", "paused"}
    BY <1>4 DEF Abort, Resume, Account, History, Typed, TypeOK
  <2>3. \A q \in Requests : Fits(request'[q], user') BY <2>1, <2>2, RestFits
  <2>4. QED BY <2>1, <2>2, <2>3 DEF Typed, TypeOK, Moves
<1>5. QED BY <1>1, <1>2, <1>3, <1>4

\* A token in hand is a token.
LEMMA EndSteps ==
  ASSUME Typed, NEW r \in Requests, Logout(r) \/ \E t \in Tokens : RevokeSession(r, t)
  PROVE  \E t \in Tokens : EndSession(r, t)
<1>1. request[r].at = "act" BY DEF Logout, RevokeSession
<1>2. request[r].token \in Tokens BY <1>1 DEF Typed, Fits
<1>3. QED BY <1>2 DEF Logout, RevokeSession

\* Registering, signing in, signing out and the reads before a save.
LEMMA SigningTyped ==
  ASSUME Typed, NEW r \in Requests,
         \/ Create(r) \/ Login(r) \/ Impersonate(r) \/ FindUser(r) \/ Logout(r)
         \/ \E t \in Tokens : IssueSession(r, t) \/ RevokeSession(r, t)
  PROVE  Typed'
<1>1. CASE Create(r)
  <2>1. \E at \in {"idle", "register"} : Moves(r, at)
    <3>1. CASE Goto(r, At("register")) BY <3>1, AtType, GotoMoves DEF Typed, Steps
    <3>2. CASE Goto(r, NoRequest) BY <3>2, DoneMoves
    <3>3. QED BY <1>1, <3>1, <3>2 DEF Create
  <2>2. user' \in User \cup {NoUser} /\ (user \in User => user' \in User)
    <3>1. user \in User \cup {NoUser} BY DEF Typed, TypeOK
    <3>2. user' = user \/ \E p \in Passwords, role \in Roles :
                            user' = [password |-> p, status |-> "active", role |-> role]
      BY <1>1 DEF Create
    <3>3. user' = user \/ user' \in User BY <3>2 DEF User
    <3>4. QED BY <3>1, <3>3
  <2>3. UNCHANGED <<watchers, session, cache, lapse, overdue, stray, awake>> BY <1>1 DEF Create, History
  <2>4. \A q \in Requests : Fits(request'[q], user') BY <2>1, <2>2, RestFits
  <2>5. QED BY <2>1, <2>2, <2>3, <2>4 DEF Typed, TypeOK, Moves
<1>2. CASE Login(r) \/ Impersonate(r) \/ FindUser(r)
  <2>1. PICK at \in {"issue", "save"} :
          /\ Moves(r, at) /\ user \in User
          /\ at = "issue" => request'[r].row \in Checked
          /\ at = "save" => request'[r].row \in User
    BY <1>2, SignInMoves, FindUserMoves
  <2>2. UNCHANGED <<user, session, cache, watchers, lapse, overdue, stray, awake>>
    BY <1>2 DEF Login, Impersonate, FindUser, Account, History
  <2>3. Fits(request'[r], user') BY <2>1, <2>2 DEF Fits, Moves
  <2>4. \A q \in Requests : Fits(request'[q], user') BY <2>1, <2>2, <2>3, FitsStep
  <2>5. QED BY <2>1, <2>2, <2>4 DEF Typed, TypeOK, Moves
<1>3. CASE Logout(r) \/ \E t \in Tokens : RevokeSession(r, t)
  <2>1. PICK t \in Tokens : EndSession(r, t) BY <1>3, EndSteps
  <2>2. Moves(r, "evict") BY <2>1, EndSessionMoves
  <2>3. UNCHANGED <<user, cache, watchers, awake>> BY <2>1 DEF EndSession, Account
  <2>4. session' \in [Tokens -> Session \cup {NoSession, Revoked}] BY <2>1 DEF EndSession, Typed, TypeOK
  <2>5. lapse' \subseteq Tokens /\ overdue' \subseteq Tokens /\ stray' \subseteq Tokens BY <2>1 DEF EndSession, Typed, TypeOK
  <2>6. \A q \in Requests : Fits(request'[q], user') BY <2>2, <2>3, RestFits
  <2>7. QED BY <2>2, <2>3, <2>4, <2>5, <2>6 DEF Typed, TypeOK, Moves
<1>4. CASE \E t \in Tokens : IssueSession(r, t)
  <2>1. PICK t \in Tokens : IssueSession(r, t) BY <1>4
  <2>2. Moves(r, "idle") BY <2>1, DoneMoves DEF IssueSession
  <2>3. UNCHANGED <<user, cache, watchers, lapse, overdue, awake>> BY <2>1 DEF IssueSession, Account
  <2>4. request[r].row \in Checked BY <2>1 DEF IssueSession, Typed, Fits
  <2>5. session' \in [Tokens -> Session \cup {NoSession, Revoked}]
    <3>1. [state |-> "open", password |-> request[r].row.password] \in Session BY <2>4 DEF Session, Checked
    <3>2. QED BY <2>1, <3>1 DEF IssueSession, Typed, TypeOK
  <2>6. stray' \subseteq Tokens BY <2>1 DEF IssueSession, Typed, TypeOK
  <2>7. \A q \in Requests : Fits(request'[q], user') BY <2>2, <2>3, RestFits
  <2>8. QED BY <2>2, <2>3, <2>5, <2>6, <2>7 DEF Typed, TypeOK, Moves
<1>5. QED BY <1>1, <1>2, <1>3, <1>4

\* A session is in one of four states, and expires from the first.
LEMMA StateOf ==
  ASSUME Typed, NEW t \in Tokens
  PROVE  /\ session[t].state \in {"open", "expired", "revoked", "none"}
         /\ session[t].state \in {"open", "expired"} => session[t] \in Session
BY DEF Typed, TypeOK, Session, NoSession, Revoked

LEMMA ExpireType ==
  ASSUME Typed, NEW t \in Tokens, ExpireSession(t)
  PROVE  /\ session' \in [Tokens -> Session \cup {NoSession, Revoked}]
         /\ session'[t].state = "expired"
         /\ session'[t].password = session[t].password
<1>1. session[t] \in Session BY StateOf DEF ExpireSession
<1>2. [session[t] EXCEPT !.state = "expired"] \in Session BY <1>1 DEF Session
<1>3. session' = [session EXCEPT ![t] = [session[t] EXCEPT !.state = "expired"]] BY DEF ExpireSession, Typed, TypeOK
<1>4. session \in [Tokens -> Session \cup {NoSession, Revoked}] BY DEF Typed, TypeOK
<1>5. [session[t] EXCEPT !.state = "expired"].state = "expired"
      /\ [session[t] EXCEPT !.state = "expired"].password = session[t].password
  BY <1>1 DEF Session
<1>6. QED BY <1>2, <1>3, <1>4, <1>5

\* revokeAllSessions, a request that dies, and an entry that expires.
LEMMA RevokingTyped ==
  ASSUME Typed, \/ \E r \in Requests : ListHashes(r) \/ RevokeAllForUser(r) \/ Evict(r) \/ Abandon(r)
                \/ \E t \in Tokens : ExpireCache(t) \/ ExpireSession(t)
  PROVE  Typed'
<1>0. /\ lapse \subseteq Tokens /\ overdue \subseteq Tokens
      /\ Reading \subseteq Tokens /\ Answering \subseteq Tokens /\ Standing \subseteq Tokens
  BY DEF Typed, TypeOK, Filling, Reading, Answering, Standing, Fits
<1>1. ASSUME NEW r \in Requests, ListHashes(r) PROVE Typed'
  <2>1. \E at \in {"idle", "mark"} : Moves(r, at) BY <1>1, ListHashesMoves
  <2>2. UNCHANGED <<user, session, cache, watchers, lapse, overdue, stray, awake>>
    BY <1>1 DEF ListHashes, Account, History
  <2>3. \A q \in Requests : Fits(request'[q], user') BY <2>1, <2>2, RestFits
  <2>4. QED BY <2>1, <2>2, <2>3 DEF Typed, TypeOK, Moves
<1>2. ASSUME NEW r \in Requests, RevokeAllForUser(r) PROVE Typed'
  <2>1. Moves(r, "evict") BY <1>2, RevokeAllMoves
  <2>2. UNCHANGED <<user, cache, watchers, awake>> BY <1>2 DEF RevokeAllForUser, Account
  <2>3. session' \in [Tokens -> Session \cup {NoSession, Revoked}]
    BY <1>2 DEF RevokeAllForUser, Typed, TypeOK
  <2>4. lapse' \subseteq Tokens /\ overdue' \subseteq Tokens /\ stray' \subseteq Tokens BY <1>0, <1>2 DEF RevokeAllForUser
  <2>5. \A q \in Requests : Fits(request'[q], user') BY <2>1, <2>2, RestFits
  <2>6. QED BY <2>1, <2>2, <2>3, <2>4, <2>5 DEF Typed, TypeOK, Moves
<1>3. ASSUME NEW r \in Requests, Evict(r) PROVE Typed'
  <2>1. Moves(r, "idle") BY <1>3, DoneMoves DEF Evict
  <2>2. UNCHANGED <<user, session, watchers, overdue, stray, awake>> BY <1>3 DEF Evict, Account
  <2>3. cache' \in [Tokens -> Roles \cup {NoAuth}] BY <1>3 DEF Evict, Typed, TypeOK
  <2>4. lapse' \subseteq Tokens
    <3>1. request[r].hashes \subseteq Tokens BY DEF Typed, TypeOK, Request
    <3>2. QED BY <1>0, <1>3, <3>1 DEF Evict
  <2>6. \A q \in Requests : Fits(request'[q], user') BY <2>1, <2>2, RestFits
  <2>7. QED BY <2>1, <2>2, <2>3, <2>4, <2>6 DEF Typed, TypeOK, Moves
<1>4. ASSUME NEW r \in Requests, Abandon(r) PROVE Typed'
  <2>1. Moves(r, "idle") BY <1>4, AbandonMoves
  <2>2. UNCHANGED <<user, session, cache, watchers, overdue, awake>> BY <1>4 DEF Abandon, Account
  <2>3. stray' \subseteq Tokens BY <1>4 DEF Abandon, Strays, Standing, Typed, TypeOK
  <2>4. lapse' \subseteq Tokens
    <3>1. request[r].hashes \subseteq Tokens BY DEF Typed, TypeOK, Request
    <3>2. QED BY <1>0, <1>4, <3>1 DEF Abandon
  <2>6. \A q \in Requests : Fits(request'[q], user') BY <2>1, <2>2, RestFits
  <2>7. QED BY <2>1, <2>2, <2>3, <2>4, <2>6 DEF Typed, TypeOK, Moves
<1>5. ASSUME NEW t \in Tokens, ExpireCache(t) PROVE Typed'
  <2>1. UNCHANGED <<user, session, watchers, request, stray, awake>> BY <1>5 DEF ExpireCache, Account
  <2>2. cache' \in [Tokens -> Roles \cup {NoAuth}] BY <1>5 DEF ExpireCache, Typed, TypeOK
  <2>3. lapse' \subseteq Tokens /\ overdue' \subseteq Tokens BY <1>0, <1>5 DEF ExpireCache
  <2>4. QED BY <2>1, <2>2, <2>3 DEF Typed, TypeOK
<1>6. ASSUME NEW t \in Tokens, ExpireSession(t) PROVE Typed'
  <2>1. UNCHANGED <<user, cache, watchers, request, lapse, stray, awake>> BY <1>6 DEF ExpireSession, Account
  <2>2. session' \in [Tokens -> Session \cup {NoSession, Revoked}] BY <1>6, ExpireType
  <2>3. overdue' \subseteq Tokens BY <1>0, <1>6 DEF ExpireSession
  <2>4. QED BY <2>1, <2>2, <2>3 DEF Typed, TypeOK
<1>7. QED BY <1>1, <1>2, <1>3, <1>4, <1>5, <1>6

LEMMA InitTyped == Init => Typed
<1> SUFFICES ASSUME Init PROVE Typed
  OBVIOUS
<1>1. request = [r \in Requests |-> NoRequest] BY DEF Init
<1>2. request \in [Requests -> Request] /\ \A q \in Requests : request[q].at = "idle"
  BY <1>1, NoRequestType
<1>3. \A q \in Requests : Fits(request[q], user) BY <1>2 DEF Fits
<1>4. QED BY <1>2, <1>3 DEF Init, Typed, TypeOK

LEMMA NextTyped == Typed /\ [Next]_vars => Typed'
<1> SUFFICES ASSUME Typed, [Next]_vars PROVE Typed'
  OBVIOUS
<1>1. CASE UNCHANGED vars BY <1>1 DEF vars, Typed, TypeOK, Fits
<1>2. ASSUME NEW r \in Requests, Step(r) PROVE Typed'
  BY <1>2, MiddlewareTyped, SigningTyped, SavesTyped, RevokingTyped DEF Step
<1>3. CASE \E r \in Requests : Abort(r) \/ Abandon(r) BY <1>3, MiddlewareTyped, RevokingTyped
<1>4. CASE \E t \in Tokens : ExpireCache(t) \/ ExpireSession(t) BY <1>4, RevokingTyped
<1>5. QED BY <1>1, <1>2, <1>3, <1>4 DEF Next

(* Every variable has its type, and what a request has in hand is what its   *)
(* step needs: a token to act with, a row to save or to sign in with         *)
(* (user_usecase.go, admin_usecase.go).                                      *)
THEOREM TypeCorrect == Spec => []Typed
BY InitTyped, NextTyped, PTL DEF Spec

-----------------------------------------------------------------------------
(* A suspended account is quiet. *)

\* A request that comes to a step without a caller let through.
LEMMA QuietKeeps ==
  ASSUME Typed, Quiet, NEW r \in Requests, NEW at \in Steps \ {"roles", "fill", "act"}, Moves(r, at),
         UNCHANGED <<user, watchers, awake>>
  PROVE  Quiet'
BY DEF Quiet, Admitted, Moves, Keeps

\* A save leaves an account suspended only with a caller noted or the watchers paused.
LEMMA QuietSaves ==
  ASSUME Typed, Quiet, NEW r \in Requests, Update(r) \/ UpdateUser(r) \/ SetUserStatus(r)
  PROVE  Quiet'
<1>0. request[r].at = "save" BY DEF Update, UpdateUser, SetUserStatus, SaveRow
<1>1. user \in User /\ request[r].row \in User BY <1>0, FoundType
<1>2. ASSUME NEW row, NEW fresh \in BOOLEAN, NEW next \in {NoRequest, At("list")}, SaveRow(r, row, fresh, next)
      PROVE  user' = row /\ Admitted' = Admitted
  <2>1. Moves(r, next.at) /\ next.at \in {"idle", "list"} BY <1>2, SaveRowMoves, NoRequestType, AtType DEF Steps
  <2>2. \A q \in Requests : request'[q].at \in {"roles", "fill", "act"} <=> request[q].at \in {"roles", "fill", "act"}
    BY <1>0, <2>1 DEF Moves, Keeps
  <2>3. QED BY <1>2, <2>2 DEF SaveRow, Admitted
<1>3. ASSUME NEW row, user'.status = row.status, awake' = Stirred(row), Admitted' = Admitted, UNCHANGED watchers
      PROVE  Quiet'
  BY <1>3 DEF Quiet, Stirred, Barred
<1>4. CASE Update(r)
  <2>1. UNCHANGED watchers /\ awake' = Stirred(request[r].row) BY <1>4 DEF Update
  <2>2. /\ Found(r) \in User /\ Found(r).status = request[r].row.status
        /\ \A p \in Passwords : /\ [Found(r) EXCEPT !.password = p] \in User
                               /\ [Found(r) EXCEPT !.password = p].status = request[r].row.status
    BY <1>1 DEF Found, User
  <2>3. PICK row \in User, fresh \in BOOLEAN, next \in {NoRequest, At("list")} :
          SaveRow(r, row, fresh, next) /\ row.status = request[r].row.status
    BY <1>4, <2>2 DEF Update
  <2>4. user'.status = request[r].row.status /\ Admitted' = Admitted BY <1>2, <2>3
  <2>5. QED BY <1>3, <2>1, <2>4
<1>5. CASE UpdateUser(r)
  <2>1. PICK row \in {request[r].row, user}, role \in Roles :
          /\ SaveRow(r, [row EXCEPT !.role = role], FALSE, At("list"))
          /\ awake' = Stirred(row) /\ UNCHANGED watchers
    BY <1>5 DEF UpdateUser
  <2>2. [row EXCEPT !.role = role].status = row.status BY <1>0, FoundType
  <2>3. user'.status = row.status /\ Admitted' = Admitted BY <1>2, <2>1, <2>2
  <2>4. QED BY <1>3, <2>1, <2>3
<1>6. CASE SetUserStatus(r)
  <2>1. [Found(r) EXCEPT !.status = "active"].status = "active" BY <1>0, FoundType DEF User
  <2>2. CASE SaveRow(r, [Found(r) EXCEPT !.status = "active"], FALSE, NoRequest)
    <3>1. user'.status = "active" BY <1>2, <2>1, <2>2
    <3>2. QED BY <3>1 DEF Quiet
  <2>3. CASE /\ SaveRow(r, [Found(r) EXCEPT !.status = "suspended"], FALSE, At("list"))
             /\ watchers' = "paused" /\ awake' = (Admitted # {})
    <3>1. Admitted' = Admitted BY <1>2, <2>3
    <3>2. QED BY <2>3, <3>1 DEF Quiet
  <2>4. QED BY <1>6, <2>2, <2>3 DEF SetUserStatus
<1>7. QED BY <1>4, <1>5, <1>6

LEMMA QuietStep ==
  ASSUME Typed, Quiet, NEW r \in Requests, Step(r) \/ Abort(r) \/ Abandon(r)
  PROVE  Quiet'
<1>1. CASE \E t \in Tokens : CacheGet(r, t)
  <2>1. PICK t \in Tokens : CacheGet(r, t) BY <1>1
  <2>2. Moves(r, "act") BY <2>1, CacheGetMoves
  <2>3. UNCHANGED <<user, watchers>> /\ awake' = (awake \/ user.status = "suspended")
    BY <2>1 DEF CacheGet, Account
  <2>4. QED BY <2>2, <2>3 DEF Quiet, Admitted, Moves, Keeps
<1>2. CASE (\E t \in Tokens : Verify(r, t)) \/ CheckStatus(r)
  <2>1. UNCHANGED <<user, watchers, awake>> BY <1>2 DEF Verify, CheckStatus, Account, History
  <2>2. CASE user.status = "active" BY <2>1, <2>2 DEF Quiet
  <2>3. CASE user.status # "active"
    <3>1. PICK at \in {"idle", "user"} : Moves(r, at) BY <1>2, <2>3, VerifyMoves, CheckStatusMoves
    <3>2. QED BY <2>1, <3>1, QuietKeeps DEF Steps
  <2>4. QED BY <2>2, <2>3
<1>3. CASE LoadRoles(r) \/ Fill(r)
  <2>1. PICK at : Moves(r, at) BY <1>3, LoadRolesMoves, FillMoves
  <2>2. request[r].at \in {"roles", "fill"} /\ UNCHANGED <<user, watchers, awake>>
    BY <1>3 DEF LoadRoles, Fill, Account, History
  <2>3. Admitted # {} BY <2>2 DEF Admitted
  <2>4. QED BY <2>2, <2>3 DEF Quiet
<1>4. CASE Abort(r)
  <2>1. Moves(r, "idle") BY <1>4, DoneMoves DEF Abort
  <2>2. UNCHANGED <<user, watchers, awake>> BY <1>4 DEF Abort, Account, History
  <2>3. QED BY <2>1, <2>2, QuietKeeps DEF Steps
<1>5. CASE Resume(r)
  <2>1. request[r].at = "act" /\ UNCHANGED <<user, awake>> BY <1>5 DEF Resume, History
  <2>2. ~(user.status = "suspended" /\ ~awake) BY <2>1 DEF Quiet, Admitted
  <2>3. QED BY <2>1, <2>2 DEF Quiet
<1>6. CASE Logout(r) \/ \E t \in Tokens : RevokeSession(r, t)
  <2>1. PICK t \in Tokens : EndSession(r, t) BY <1>6, EndSteps
  <2>2. Moves(r, "evict") BY <2>1, EndSessionMoves
  <2>3. UNCHANGED <<user, watchers, awake>> BY <2>1 DEF EndSession, Account
  <2>4. QED BY <2>2, <2>3, QuietKeeps DEF Steps
<1>7. CASE Create(r)
  <2>1. CASE user' = user
    <3>1. \E at \in {"idle", "register"} : Moves(r, at)
      <4>1. CASE Goto(r, At("register")) BY <4>1, AtType, GotoMoves DEF Typed, Steps
      <4>2. CASE Goto(r, NoRequest) BY <4>2, DoneMoves
      <4>3. QED BY <1>7, <4>1, <4>2 DEF Create
    <3>2. UNCHANGED <<watchers, awake>> BY <1>7 DEF Create, History
    <3>3. QED BY <2>1, <3>1, <3>2, QuietKeeps DEF Steps
  <2>2. CASE \E p \in Passwords, role \in Roles : user' = [password |-> p, status |-> "active", role |-> role]
    <3>1. user'.status = "active" BY <2>2
    <3>2. QED BY <3>1 DEF Quiet
  <2>3. QED BY <1>7, <2>1, <2>2 DEF Create
<1>8. CASE Login(r) \/ Impersonate(r) \/ FindUser(r)
  <2>1. PICK at \in {"issue", "save"} : Moves(r, at) BY <1>8, SignInMoves, FindUserMoves
  <2>2. UNCHANGED <<user, watchers, awake>> BY <1>8 DEF Login, Impersonate, FindUser, Account, History
  <2>3. QED BY <2>1, <2>2, QuietKeeps DEF Steps
<1>9. CASE \E t \in Tokens : IssueSession(r, t)
  <2>1. PICK t \in Tokens : IssueSession(r, t) BY <1>9
  <2>2. Moves(r, "idle") BY <2>1, DoneMoves DEF IssueSession
  <2>3. UNCHANGED <<user, watchers, awake>> BY <2>1 DEF IssueSession, Account
  <2>4. QED BY <2>2, <2>3, QuietKeeps DEF Steps
<1>10. CASE ListHashes(r)
  <2>1. PICK at \in {"idle", "mark"} : Moves(r, at) BY <1>10, ListHashesMoves
  <2>2. UNCHANGED <<user, watchers, awake>> BY <1>10 DEF ListHashes, Account, History
  <2>3. QED BY <2>1, <2>2, QuietKeeps DEF Steps
<1>11. CASE RevokeAllForUser(r)
  <2>1. Moves(r, "evict") BY <1>11, RevokeAllMoves
  <2>2. UNCHANGED <<user, watchers, awake>> BY <1>11 DEF RevokeAllForUser, Account
  <2>3. QED BY <2>1, <2>2, QuietKeeps DEF Steps
<1>12. CASE Evict(r)
  <2>1. Moves(r, "idle") BY <1>12, DoneMoves DEF Evict
  <2>2. UNCHANGED <<user, watchers, awake>> BY <1>12 DEF Evict, Account
  <2>3. QED BY <2>1, <2>2, QuietKeeps DEF Steps
<1>13. CASE Abandon(r)
  <2>1. Moves(r, "idle") BY <1>13, AbandonMoves
  <2>2. UNCHANGED <<user, watchers, awake>> BY <1>13 DEF Abandon, Account
  <2>3. QED BY <2>1, <2>2, QuietKeeps DEF Steps
<1>14. QED BY <1>1, <1>2, <1>3, <1>4, <1>5, <1>6, <1>7, <1>8, <1>9, <1>10, <1>11, <1>12, <1>13, QuietSaves DEF Step

LEMMA NextQuiet == Typed /\ Quiet /\ [Next]_vars => Quiet'
<1> SUFFICES ASSUME Typed, Quiet, [Next]_vars PROVE Quiet'
  OBVIOUS
<1>1. CASE UNCHANGED vars BY <1>1 DEF vars, Quiet, Admitted
<1>2. CASE \E r \in Requests : Step(r) \/ Abort(r) \/ Abandon(r) BY <1>2, QuietStep
<1>3. CASE \E t \in Tokens : ExpireCache(t) \/ ExpireSession(t)
  BY <1>3 DEF ExpireCache, ExpireSession, Account, Quiet, Admitted
<1>4. QED BY <1>1, <1>2, <1>3 DEF Next

(* The watchers of a suspended account stay paused, but for a caller that    *)
(* was let through while the suspension took hold and for a stale save:      *)
(* without one of the two nobody is signed in who could resume a watcher     *)
(* (admin_usecase.go 242-250).                                               *)
THEOREM SuspendedStaysQuiet == Spec => []SuspendedIsQuiet
<1>1. Init => Quiet BY DEF Init, Quiet, NoUser
<1>2. Quiet => SuspendedIsQuiet BY DEF Quiet, SuspendedIsQuiet
<1>3. QED BY <1>1, <1>2, InitTyped, NextTyped, NextQuiet, PTL DEF Spec

-----------------------------------------------------------------------------
(* The cache is fresh. *)

\* What the requests but r read is what they read before.
LEMMA OthersRead ==
  ASSUME NEW r \in Requests, NEW at, Moves(r, at)
  PROVE  \A q \in Requests : q # r /\ Reads(q)' =>
           /\ Reads(q) /\ request'[q].at = request[q].at
           /\ request'[q].token = request[q].token /\ request'[q].auth = request[q].auth
BY DEF Moves, Keeps, Reads

\* A revocation of another request is still under way.
LEMMA OthersRevoke ==
  ASSUME NEW r \in Requests, NEW at, Moves(r, at)
  PROVE  /\ request[r].at \notin {"list", "mark"} => (RevocationPending => RevocationPending')
         /\ \A x \in Tokens : Evicting(x) => Evicting(x)' \/ (request[r].at = "evict" /\ x \in request[r].hashes)
BY DEF Moves, Keeps, RevocationPending, Evicting

\* A step that changes no entry and no session that one speaks for, and moves no revocation.
LEMMA FreshKeeps ==
  ASSUME Typed, Fresh, NEW r \in Requests, NEW at, Moves(r, at),
         request[r].at \notin {"list", "mark", "evict"},
         UNCHANGED <<cache, lapse, overdue>>,
         \A x \in Tokens : session[x].state # "none" => session'[x] = session[x],
         user.status = "active" => user'.status = "active" /\ user'.role = user.role,
         Reads(r)' => ReadFresh(r)'
  PROVE  Fresh'
<1>1. RevocationPending => RevocationPending' BY OthersRevoke
<1>2. \A x \in Tokens : Evicting(x) => Evicting(x)' BY OthersRevoke
<1>3. \A role : Speaks(role) => Speaks(role)' BY DEF Speaks
<1>4. \A x \in Tokens : Cached(x)' => EntryFresh(x)' BY <1>1, <1>2, <1>3 DEF Fresh, Cached, EntryFresh, Speaks
<1>5. ASSUME NEW q \in Requests, Reads(q)', q # r PROVE ReadFresh(q)'
  <2>1. /\ Reads(q) /\ request'[q].at = request[q].at
        /\ request'[q].token = request[q].token /\ request'[q].auth = request[q].auth
    BY <1>5, OthersRead
  <2>2. request[q].token \in Tokens BY <2>1 DEF Typed, Fits, Reads
  <2>3. ReadFresh(q) BY <2>1 DEF Fresh
  <2>4. QED BY <1>1, <2>1, <2>2, <2>3 DEF ReadFresh, Speaks
<1>6. QED BY <1>4, <1>5 DEF Fresh

\* A save: what the row no longer says is left to the revocation, or is in lapse.
LEMMA FreshSaveRow ==
  ASSUME Typed, Fresh, NEW r \in Requests, NEW row \in User, NEW fresh \in BOOLEAN,
         NEW next \in {NoRequest, At("list")}, SaveRow(r, row, fresh, next),
         next = NoRequest => row.role = user.role,
         Barred(row) /\ next = NoRequest => Answering \subseteq lapse'
  PROVE  Fresh'
<1>1. /\ request[r].at = "save" /\ user' = row /\ lapse \subseteq lapse'
      /\ UNCHANGED <<session, cache, overdue>>
  BY DEF SaveRow
<1>2. Moves(r, next.at) /\ (next = NoRequest => next.at = "idle") /\ (next = At("list") => next.at = "list")
  BY SaveRowMoves, NoRequestType, AtType DEF Steps
<1>3. \A x \in Tokens : Evicting(x) => Evicting(x)' BY <1>1, <1>2, OthersRevoke
<1>4. \A q \in Requests : Reads(q)' =>
        /\ Reads(q) /\ request'[q].at = request[q].at
        /\ request'[q].token = request[q].token /\ request'[q].auth = request[q].auth
  BY <1>2, OthersRead DEF Reads, Moves
<1>5. RevocationPending' \/ (next = NoRequest /\ (RevocationPending => RevocationPending'))
  BY <1>1, <1>2, OthersRevoke DEF RevocationPending, Moves
<1>6. /\ \A x \in Tokens : Cached(x) /\ Speaks(cache[x]) =>
           Speaks(cache[x])' \/ x \in lapse' \/ RevocationPending'
      /\ \A q \in Requests : request[q].at = "roles" /\ user.status = "active" =>
           row.status = "active" \/ request[q].token \in lapse' \/ RevocationPending'
      /\ \A q \in Requests : request[q].at = "fill" /\ Speaks(request[q].auth) =>
           Speaks(request[q].auth)' \/ request[q].token \in lapse' \/ RevocationPending'
  <2>1. CASE RevocationPending' BY <2>1
  <2>2. CASE next = NoRequest /\ Barred(row)
    <3>1. \A x \in Tokens : Cached(x) => x \in lapse' BY <2>2 DEF Answering
    <3>2. \A q \in Requests : request[q].at \in {"roles", "fill"} => request[q].token \in lapse'
      BY <2>2 DEF Answering, Filling
    <3>3. QED BY <3>1, <3>2
  <2>3. CASE next = NoRequest /\ ~Barred(row)
    <3>1. user.status = "active" => row.status = "active" BY <2>3 DEF Barred, User
    <3>2. user'.role = user.role /\ user'.status = row.status BY <1>1, <2>3
    <3>3. \A x \in Tokens : Speaks(cache[x]) => Speaks(cache[x])' BY <1>1, <3>1, <3>2 DEF Speaks
    <3>4. \A q \in Requests : Speaks(request[q].auth) => user'.status = "active" /\ user'.role = request[q].auth
      BY <3>1, <3>2 DEF Speaks
    <3>5. \A q \in Requests : request[q].at = "fill" /\ Speaks(request[q].auth) => request'[q].auth = request[q].auth
      BY <1>1, <1>2 DEF Moves, Keeps
    <3>6. QED BY <3>1, <3>3, <3>4, <3>5 DEF Speaks
  <2>4. QED BY <1>5, <2>1, <2>2, <2>3
<1>7. ASSUME NEW x \in Tokens, Cached(x)' PROVE EntryFresh(x)'
  <2>1. Cached(x) /\ EntryFresh(x) BY <1>1, <1>7 DEF Cached, Fresh
  <2>2. QED BY <1>1, <1>3, <1>5, <1>6, <2>1 DEF EntryFresh, Speaks
<1>8. ASSUME NEW q \in Requests, Reads(q)' PROVE ReadFresh(q)'
  <2>1. ReadFresh(q) BY <1>4, <1>8 DEF Fresh
  <2>2. QED BY <1>1, <1>4, <1>5, <1>6, <1>8, <2>1 DEF ReadFresh, Speaks
<1>9. QED BY <1>7, <1>8 DEF Fresh

LEMMA FreshSaves ==
  ASSUME Typed, Fresh, NEW r \in Requests, Update(r) \/ UpdateUser(r) \/ SetUserStatus(r)
  PROVE  Fresh'
<1>0. request[r].at = "save" BY DEF Update, UpdateUser, SetUserStatus, SaveRow
<1>1. user \in User /\ request[r].row \in User /\ Found(r) \in User BY <1>0, FoundType
<1>2. NoRequest # At("list") BY NoRequestType, AtType DEF Steps
<1>3. ASSUME NEW row \in User, NEW fresh \in BOOLEAN, SaveRow(r, row, fresh, At("list")) PROVE Fresh'
  BY <1>2, <1>3, FreshSaveRow
<1>4. CASE SaveRow(r, Found(r), FALSE, NoRequest)
  <2>1. Found(r).role = user.role BY <1>1 DEF Found, User
  <2>2. Barred(Found(r)) => Answering \subseteq lapse' BY <1>2, <1>4 DEF SaveRow
  <2>3. QED BY <1>1, <1>4, <2>1, <2>2, FreshSaveRow
<1>5. CASE SaveRow(r, [Found(r) EXCEPT !.status = "active"], FALSE, NoRequest)
  <2>1. PICK row \in User : SaveRow(r, row, FALSE, NoRequest) /\ row.role = user.role /\ row.status = "active"
    <3>1. Found(r).role = user.role BY <1>1 DEF Found, User
    <3>2. /\ [Found(r) EXCEPT !.status = "active"] \in User
          /\ [Found(r) EXCEPT !.status = "active"].status = "active"
          /\ [Found(r) EXCEPT !.status = "active"].role = Found(r).role
      BY <1>1 DEF User
    <3>3. QED BY <1>5, <3>1, <3>2
  <2>2. ~Barred(row) BY <2>1 DEF Barred
  <2>3. QED BY <2>1, <2>2, FreshSaveRow
<1>6. CASE Update(r) /\ ~SaveRow(r, Found(r), FALSE, NoRequest)
  <2>1. PICK p \in Passwords : SaveRow(r, [Found(r) EXCEPT !.password = p], TRUE, At("list"))
    BY <1>6 DEF Update
  <2>2. PICK row \in User : SaveRow(r, row, TRUE, At("list")) BY <1>0, <2>1, FoundType
  <2>3. QED BY <1>3, <2>2
<1>7. CASE UpdateUser(r)
  <2>1. PICK row \in User : SaveRow(r, row, FALSE, At("list")) BY <1>0, <1>7, FoundType DEF UpdateUser
  <2>2. QED BY <1>3, <2>1
<1>8. CASE SaveRow(r, [Found(r) EXCEPT !.status = "suspended"], FALSE, At("list"))
  <2>1. PICK row \in User : SaveRow(r, row, FALSE, At("list")) BY <1>0, <1>8, FoundType
  <2>2. QED BY <1>3, <2>1
<1>9. QED BY <1>4, <1>5, <1>6, <1>7, <1>8 DEF SetUserStatus

\* The reads of Verify: each finds the session, the user or the roles as they are.
LEMMA FreshReads ==
  ASSUME Typed, Fresh, NEW r \in Requests,
         (\E t \in Tokens : Verify(r, t)) \/ CheckStatus(r) \/ LoadRoles(r)
  PROVE  Fresh'
<1>0. UNCHANGED <<user, session, cache, lapse, overdue>> /\ request[r].at \in {"idle", "user", "roles"}
  BY DEF Verify, CheckStatus, LoadRoles, Account, History
<1>1. CASE \E t \in Tokens : Verify(r, t)
  <2>1. PICK t \in Tokens : Verify(r, t) BY <1>1
  <2>2. Moves(r, "user") /\ request'[r].token = t BY <2>1, VerifyMoves
  <2>3. session[t].state = "open" BY <2>1 DEF Verify, Accepts
  <2>4. ReadFresh(r)' BY <1>0, <2>2, <2>3 DEF ReadFresh, Moves
  <2>5. QED BY <1>0, <2>2, <2>4, FreshKeeps
<1>2. CASE CheckStatus(r)
  <2>1. request[r].at = "user" BY <1>2 DEF CheckStatus
  <2>2. ReadFresh(r) BY <2>1 DEF Fresh, Reads
  <2>3. CASE Moves(r, "idle")
    <3>1. ~Reads(r)' BY <2>3 DEF Moves, Reads
    <3>2. QED BY <1>0, <2>3, <3>1, FreshKeeps
  <2>4. CASE Moves(r, "roles") /\ request'[r].token = request[r].token /\ user.status = "active"
    <3>1. ReadFresh(r)' BY <1>0, <2>2, <2>4 DEF ReadFresh, Moves
    <3>2. QED BY <1>0, <2>4, <3>1, FreshKeeps
  <2>5. QED BY <1>2, <2>3, <2>4, CheckStatusMoves
<1>3. CASE LoadRoles(r)
  <2>1. request[r].at = "roles" BY <1>3 DEF LoadRoles
  <2>2. ReadFresh(r) BY <2>1 DEF Fresh, Reads
  <2>3. Moves(r, "fill") /\ request'[r].token = request[r].token /\ request'[r].auth = user.role
    BY <1>3, LoadRolesMoves
  <2>4. RevocationPending => RevocationPending' BY <2>1, <2>3, OthersRevoke
  <2>5. ReadFresh(r)' BY <1>0, <2>1, <2>2, <2>3, <2>4 DEF ReadFresh, Moves, Speaks
  <2>6. QED BY <1>0, <2>3, <2>5, FreshKeeps
<1>4. QED BY <1>1, <1>2, <1>3

\* An answer is cached as it was put together.
LEMMA FreshFill ==
  ASSUME Typed, Fresh, NEW r \in Requests, Fill(r)
  PROVE  Fresh'
<1>1. /\ Moves(r, "act") /\ request[r].token \in Tokens /\ request[r].auth \in Roles BY FillMoves
<1>2. UNCHANGED <<user, session, lapse, overdue>> /\ request[r].at = "fill" BY DEF Fill, Account, History
<1>3. RevocationPending => RevocationPending' BY <1>1, <1>2, OthersRevoke
<1>4. \A x \in Tokens : Evicting(x) => Evicting(x)' BY <1>1, <1>2, OthersRevoke
<1>5. cache' = cache \/ cache' = [cache EXCEPT ![request[r].token] = request[r].auth] BY DEF Fill
<1>6. \A x \in Tokens : cache'[x] = cache[x] \/ (x = request[r].token /\ cache'[x] = request[r].auth)
  BY <1>1, <1>5 DEF Typed, TypeOK
<1>7. ReadFresh(r) BY <1>2 DEF Fresh, Reads
<1>8. ASSUME NEW x \in Tokens, Cached(x)' PROVE EntryFresh(x)'
  <2>1. CASE cache'[x] = cache[x]
    <3>1. EntryFresh(x) BY <1>8, <2>1 DEF Fresh, Cached
    <3>2. QED BY <1>2, <1>3, <1>4, <2>1, <3>1 DEF EntryFresh, Speaks
  <2>2. CASE x = request[r].token /\ cache'[x] = request[r].auth
    BY <1>2, <1>3, <1>7, <2>2 DEF ReadFresh, EntryFresh, Speaks
  <2>3. QED BY <1>6, <2>1, <2>2
<1>9. ASSUME NEW q \in Requests, Reads(q)' PROVE ReadFresh(q)'
  <2>1. q # r BY <1>1, <1>9 DEF Reads, Moves
  <2>2. /\ Reads(q) /\ request'[q].at = request[q].at
        /\ request'[q].token = request[q].token /\ request'[q].auth = request[q].auth
    BY <1>1, <1>9, <2>1, OthersRead
  <2>3. QED BY <1>2, <1>3, <2>2 DEF Fresh, ReadFresh, Speaks
<1>10. QED BY <1>8, <1>9 DEF Fresh

\* The steps that leave what is cached and read alone.
LEMMA FreshRest ==
  ASSUME Typed, Fresh, NEW r \in Requests,
         \/ \E t \in Tokens : CacheGet(r, t) \/ IssueSession(r, t)
         \/ Abort(r) \/ Resume(r) \/ Login(r) \/ Impersonate(r) \/ FindUser(r) \/ Create(r)
  PROVE  Fresh'
<1>1. PICK at \in Steps \ {"user", "roles", "fill"} : Moves(r, at)
  <2>1. CASE \E t \in Tokens : CacheGet(r, t) BY <2>1, CacheGetMoves DEF Steps
  <2>2. CASE Abort(r) \/ Resume(r) \/ \E t \in Tokens : IssueSession(r, t)
    BY <2>2, DoneMoves DEF Abort, Resume, IssueSession, Steps
  <2>3. CASE Login(r) \/ Impersonate(r) \/ FindUser(r) BY <2>3, SignInMoves, FindUserMoves DEF Steps
  <2>4. CASE Create(r)
    <3>1. CASE Goto(r, At("register")) BY <3>1, AtType, GotoMoves DEF Typed, Steps
    <3>2. CASE Goto(r, NoRequest) BY <3>2, DoneMoves DEF Steps
    <3>3. QED BY <2>4, <3>1, <3>2 DEF Create
  <2>5. QED BY <2>1, <2>2, <2>3, <2>4
<1>2. ~Reads(r)' BY <1>1 DEF Reads, Moves
<1>3. request[r].at \notin {"list", "mark", "evict"} /\ UNCHANGED <<cache, lapse, overdue>>
  BY DEF CacheGet, IssueSession, Abort, Resume, Login, Impersonate, FindUser, Create, Account, History
<1>4. user.status = "active" => user'.status = "active" /\ user'.role = user.role
  <2>1. user' = user \/ (Create(r) /\ user = NoUser)
    BY DEF CacheGet, IssueSession, Abort, Resume, Login, Impersonate, FindUser, Create, Account
  <2>2. QED BY <2>1 DEF NoUser
<1>5. ASSUME NEW x \in Tokens, session[x].state # "none" PROVE session'[x] = session[x]
  <2>1. CASE session' = session BY <2>1
  <2>2. CASE \E t \in Tokens : IssueSession(r, t)
    <3>1. PICK t \in Tokens : IssueSession(r, t) BY <2>2
    <3>2. x # t BY <1>5, <3>1 DEF IssueSession, NoSession
    <3>3. QED BY <3>1, <3>2 DEF IssueSession, Typed, TypeOK
  <2>3. QED BY <2>1, <2>2 DEF CacheGet, Abort, Resume, Login, Impersonate, FindUser, Create, Account
<1>6. QED BY <1>1, <1>2, <1>3, <1>4, <1>5, FreshKeeps

\* A session ends.
LEMMA FreshEnd ==
  ASSUME Typed, Fresh, NEW r \in Requests, Logout(r) \/ \E t \in Tokens : RevokeSession(r, t)
  PROVE  Fresh'
<1>1. PICK t \in Tokens : EndSession(r, t) BY EndSteps
<1>2. Moves(r, "evict") /\ request'[r].hashes = {t} BY <1>1, EndSessionMoves
<1>3. request[r].at = "act" BY DEF Logout, RevokeSession
<1>4. UNCHANGED <<user, cache>> /\ lapse' = lapse \cup (Reading \cap {t}) /\ overdue' = overdue \ {t}
  BY <1>1 DEF EndSession, Account
<1>5. session'[t].state = "revoked" /\ \A x \in Tokens : x # t => session'[x] = session[x]
  BY <1>1 DEF EndSession, Typed, TypeOK, Revoked
<1>6. RevocationPending => RevocationPending' BY <1>2, <1>3, OthersRevoke
<1>7. Evicting(t)' /\ \A x \in Tokens : Evicting(x) => Evicting(x)'
  BY <1>2, <1>3, OthersRevoke DEF Evicting, Moves
<1>8. ASSUME NEW x \in Tokens, Cached(x)' PROVE EntryFresh(x)'
  <2>1. EntryFresh(x) BY <1>4, <1>8 DEF Fresh, Cached
  <2>2. CASE x = t BY <1>5, <1>7, <2>2 DEF EntryFresh
  <2>3. CASE x # t BY <1>4, <1>5, <1>6, <1>7, <2>1, <2>3 DEF EntryFresh, Speaks
  <2>4. QED BY <2>2, <2>3
<1>9. ASSUME NEW q \in Requests, Reads(q)' PROVE ReadFresh(q)'
  <2>1. q # r BY <1>2, <1>9 DEF Reads, Moves
  <2>2. /\ Reads(q) /\ request'[q].at = request[q].at
        /\ request'[q].token = request[q].token /\ request'[q].auth = request[q].auth
    BY <1>2, <1>9, <2>1, OthersRead
  <2>3. ReadFresh(q) /\ request[q].token \in Tokens BY <2>2 DEF Fresh, Typed, Fits, Reads
  <2>4. CASE request[q].token = t
    <3>1. t \in lapse' BY <1>4, <2>2, <2>4 DEF Reading, Reads
    <3>2. QED BY <1>5, <2>2, <2>4, <3>1 DEF ReadFresh
  <2>5. CASE request[q].token # t BY <1>4, <1>5, <1>6, <2>2, <2>3, <2>5 DEF ReadFresh, Speaks
  <2>6. QED BY <2>4, <2>5
<1>10. QED BY <1>8, <1>9 DEF Fresh

\* revokeAllSessions hands what it marked to its eviction, or leaves it in lapse.
LEMMA FreshList ==
  ASSUME Typed, Fresh, NEW r \in Requests, ListHashes(r)
  PROVE  Fresh'
<1>1. PICK at \in {"idle", "mark"} : Moves(r, at) /\ (at = "idle" => Standing = {}) BY ListHashesMoves
<1>2. request[r].at = "list" /\ UNCHANGED <<user, session, cache, lapse, overdue>>
  BY DEF ListHashes, Account, History
<1>3. \A x \in Tokens : Evicting(x) => Evicting(x)' BY <1>1, <1>2, OthersRevoke
<1>4. RevocationPending' \/ Standing = {} BY <1>1 DEF RevocationPending, Moves
<1>5. ASSUME NEW x \in Tokens, Cached(x)' PROVE EntryFresh(x)'
  <2>1. EntryFresh(x) BY <1>2, <1>5 DEF Fresh, Cached
  <2>2. CASE RevocationPending' BY <1>2, <1>3, <2>1, <2>2 DEF EntryFresh
  <2>3. CASE Standing = {}
    <3>1. session[x].state = "revoked" BY <2>1, <2>3, StateOf DEF Standing, EntryFresh
    <3>2. QED BY <1>2, <1>3, <2>1, <3>1 DEF EntryFresh
  <2>4. QED BY <1>4, <2>2, <2>3
<1>6. ASSUME NEW q \in Requests, Reads(q)' PROVE ReadFresh(q)'
  <2>1. q # r BY <1>1, <1>6 DEF Reads, Moves
  <2>2. /\ Reads(q) /\ request'[q].at = request[q].at
        /\ request'[q].token = request[q].token /\ request'[q].auth = request[q].auth
    BY <1>1, <1>6, <2>1, OthersRead
  <2>3. ReadFresh(q) /\ request[q].token \in Tokens BY <2>2 DEF Fresh, Typed, Fits, Reads
  <2>4. CASE RevocationPending' BY <1>2, <2>2, <2>3, <2>4 DEF ReadFresh
  <2>5. CASE Standing = {}
    <3>1. session[request[q].token].state = "revoked" BY <2>3, <2>5, StateOf DEF Standing, ReadFresh
    <3>2. QED BY <1>2, <2>2, <2>3, <3>1 DEF ReadFresh
  <2>6. QED BY <1>4, <2>4, <2>5
<1>7. QED BY <1>5, <1>6 DEF Fresh

LEMMA FreshMark ==
  ASSUME Typed, Fresh, NEW r \in Requests, RevokeAllForUser(r)
  PROVE  Fresh'
<1>1. Moves(r, "evict") /\ request'[r].hashes = request[r].hashes BY RevokeAllMoves
<1>2. /\ request[r].at = "mark" /\ UNCHANGED <<user, cache>>
      /\ session' = [t \in Tokens |-> IF t \in Standing THEN Revoked ELSE session[t]]
      /\ lapse' = lapse \cup Reading \cup {t \in Standing \ request[r].hashes : Cached(t)}
  BY DEF RevokeAllForUser, Account
<1>3. \A x \in Tokens : Evicting(x) => Evicting(x)' BY <1>1, <1>2, OthersRevoke
<1>4. \A x \in Tokens : x \in request[r].hashes => Evicting(x)' BY <1>1 DEF Evicting, Moves
<1>5. \A x \in Tokens : session[x].state # "none" => session'[x].state = "revoked"
  BY <1>2, StateOf DEF Revoked, Standing
<1>6. ASSUME NEW x \in Tokens, Cached(x)' PROVE EntryFresh(x)'
  <2>1. Cached(x) /\ EntryFresh(x) BY <1>2, <1>6 DEF Fresh, Cached
  <2>2. session'[x].state = "revoked" BY <1>5, <2>1 DEF EntryFresh
  <2>3. x \in lapse' \/ Evicting(x)'
    <3>1. CASE x \in Standing BY <1>2, <1>4, <2>1, <3>1
    <3>2. CASE x \notin Standing
      <4>1. session[x].state = "revoked" BY <2>1, <3>2, StateOf DEF Standing, EntryFresh
      <4>2. QED BY <1>2, <1>3, <2>1, <4>1 DEF EntryFresh
    <3>3. QED BY <3>1, <3>2
  <2>4. QED BY <2>2, <2>3 DEF EntryFresh
<1>7. ASSUME NEW q \in Requests, Reads(q)' PROVE ReadFresh(q)'
  <2>1. q # r BY <1>1, <1>7 DEF Reads, Moves
  <2>2. Reads(q) /\ request'[q].token = request[q].token BY <1>1, <1>7, <2>1, OthersRead
  <2>3. request[q].token \in Tokens /\ session[request[q].token].state # "none"
    BY <2>2 DEF Fresh, ReadFresh, Typed, Fits, Reads
  <2>4. request[q].token \in lapse' BY <1>2, <2>2 DEF Reading, Reads
  <2>5. QED BY <1>5, <2>2, <2>3, <2>4 DEF ReadFresh
<1>8. QED BY <1>6, <1>7 DEF Fresh

LEMMA FreshEvict ==
  ASSUME Typed, Fresh, NEW r \in Requests, Evict(r)
  PROVE  Fresh'
<1>1. Moves(r, "idle") BY DoneMoves DEF Evict
<1>2. request[r].at = "evict" /\ UNCHANGED <<user, session, overdue>> BY DEF Evict, Account
<1>3. RevocationPending => RevocationPending' BY <1>1, <1>2, OthersRevoke
<1>4. \A x \in Tokens : Evicting(x) => Evicting(x)' \/ x \in request[r].hashes BY <1>1, OthersRevoke
<1>5. /\ cache' = [t \in Tokens |-> IF t \in request[r].hashes THEN NoAuth ELSE cache[t]]
      /\ lapse' = lapse \ (request[r].hashes \ Reading)
  BY DEF Evict
<1>6. ASSUME NEW x \in Tokens, Cached(x)' PROVE EntryFresh(x)'
  <2>1. x \notin request[r].hashes /\ cache'[x] = cache[x] BY <1>5, <1>6 DEF Cached
  <2>2. EntryFresh(x) BY <1>6, <2>1 DEF Fresh, Cached
  <2>3. (x \in lapse => x \in lapse') /\ (Evicting(x) => Evicting(x)') BY <1>4, <1>5, <2>1
  <2>4. QED BY <1>2, <1>3, <2>1, <2>2, <2>3 DEF EntryFresh, Speaks
<1>7. ASSUME NEW q \in Requests, Reads(q)' PROVE ReadFresh(q)'
  <2>1. q # r BY <1>1, <1>7 DEF Reads, Moves
  <2>2. /\ Reads(q) /\ request'[q].at = request[q].at
        /\ request'[q].token = request[q].token /\ request'[q].auth = request[q].auth
    BY <1>1, <1>7, <2>1, OthersRead
  <2>3. request[q].token \in lapse => request[q].token \in lapse' BY <1>5, <2>2 DEF Reading, Reads
  <2>4. QED BY <1>2, <1>3, <2>2, <2>3 DEF Fresh, ReadFresh, Speaks
<1>8. QED BY <1>6, <1>7 DEF Fresh

LEMMA FreshAbandon ==
  ASSUME Typed, Fresh, NEW r \in Requests, Abandon(r)
  PROVE  Fresh'
<1>1. Moves(r, "idle") BY AbandonMoves
<1>2. UNCHANGED <<user, session, cache, overdue>> /\ lapse \subseteq lapse' BY DEF Abandon, Account
<1>3. ASSUME NEW q \in Requests, Reads(q)'
      PROVE  /\ Reads(q) /\ request'[q].at = request[q].at
             /\ request'[q].token = request[q].token /\ request'[q].auth = request[q].auth
  BY <1>1, <1>3, OthersRead DEF Reads, Moves
<1>4. CASE request[r].at \in {"list", "mark"}
  <2>1. Answering \subseteq lapse' BY <1>4 DEF Abandon
  <2>2. \A x \in Tokens : Cached(x) => x \in lapse' BY <2>1 DEF Answering
  <2>3. \A q \in Requests : request[q].at \in {"roles", "fill"} => request[q].token \in lapse'
    BY <2>1 DEF Answering, Filling
  <2>4. \A x \in Tokens : Cached(x)' => EntryFresh(x)' BY <1>2, <2>2 DEF Fresh, Cached, EntryFresh
  <2>5. \A q \in Requests : Reads(q)' => ReadFresh(q)' BY <1>2, <1>3, <2>3 DEF Fresh, ReadFresh
  <2>6. QED BY <2>4, <2>5 DEF Fresh
<1>5. CASE request[r].at = "evict"
  <2>1. \A x \in request[r].hashes : Cached(x) => x \in lapse' BY <1>5 DEF Abandon
  <2>2. RevocationPending => RevocationPending' BY <1>1, <1>5, OthersRevoke
  <2>3. \A x \in Tokens : Evicting(x) => Evicting(x)' \/ x \in request[r].hashes BY <1>1, OthersRevoke
  <2>4. \A x \in Tokens : Cached(x)' => EntryFresh(x)'
    BY <1>2, <2>1, <2>2, <2>3 DEF Fresh, Cached, EntryFresh, Speaks
  <2>5. \A q \in Requests : Reads(q)' => ReadFresh(q)' BY <1>2, <1>3, <2>2 DEF Fresh, ReadFresh, Speaks
  <2>6. QED BY <2>4, <2>5 DEF Fresh
<1>6. QED BY <1>4, <1>5 DEF Abandon

\* An entry or a session runs out.
LEMMA FreshTime ==
  ASSUME Typed, Fresh, NEW t \in Tokens, ExpireCache(t) \/ ExpireSession(t)
  PROVE  Fresh'
<1>1. UNCHANGED <<user, request>> BY DEF ExpireCache, ExpireSession, Account
<1>2. /\ RevocationPending => RevocationPending'
      /\ \A x \in Tokens : Evicting(x) => Evicting(x)'
      /\ \A q \in Requests : Reads(q)' => Reads(q)
  BY <1>1 DEF RevocationPending, Evicting, Reads
<1>3. \A q \in Requests : Reads(q) => request[q].token \in Tokens /\ request[q].token \in Reading
  BY DEF Reads, Reading, Typed, Fits
<1>4. CASE ExpireCache(t)
  <2>1. /\ cache'[t] = NoAuth /\ UNCHANGED session
        /\ \A x \in Tokens : x # t => cache'[x] = cache[x]
        /\ lapse' = lapse \ ({t} \ Reading) /\ overdue' = overdue \ ({t} \ Reading)
    BY <1>4 DEF ExpireCache, Account, Typed, TypeOK
  <2>2. \A x \in Tokens : Cached(x)' => EntryFresh(x)'
    BY <1>1, <1>2, <2>1 DEF Fresh, Cached, EntryFresh, Speaks
  <2>3. \A q \in Requests : Reads(q)' => ReadFresh(q)'
    BY <1>1, <1>2, <1>3, <2>1 DEF Fresh, ReadFresh, Speaks
  <2>4. QED BY <2>2, <2>3 DEF Fresh
<1>5. CASE ExpireSession(t)
  <2>1. /\ UNCHANGED <<cache, lapse>> /\ session[t].state = "open"
        /\ overdue' = IF Cached(t) \/ t \in Reading THEN overdue \cup {t} ELSE overdue
        /\ \A x \in Tokens : x # t => session'[x] = session[x]
    BY <1>5 DEF ExpireSession, Account, Typed, TypeOK
  <2>2. session'[t].state = "expired" BY <1>5, ExpireType
  <2>3. \A x \in Tokens : Cached(x)' => EntryFresh(x)'
    BY <1>1, <1>2, <2>1, <2>2 DEF Fresh, Cached, EntryFresh, Speaks
  <2>4. \A q \in Requests : Reads(q)' => ReadFresh(q)'
    BY <1>1, <1>2, <1>3, <2>1, <2>2 DEF Fresh, ReadFresh, Speaks
  <2>5. QED BY <2>3, <2>4 DEF Fresh
<1>6. QED BY <1>4, <1>5

LEMMA NextFresh == Typed /\ Fresh /\ [Next]_vars => Fresh'
<1> SUFFICES ASSUME Typed, Fresh, [Next]_vars PROVE Fresh'
  OBVIOUS
<1>1. CASE UNCHANGED vars
  BY <1>1 DEF vars, Fresh, Cached, EntryFresh, ReadFresh, Reads, Speaks, Evicting, RevocationPending
<1>2. ASSUME NEW r \in Requests, Step(r) \/ Abort(r) \/ Abandon(r) PROVE Fresh'
  <2>1. CASE Step(r)
    BY <2>1, FreshSaves, FreshReads, FreshFill, FreshRest, FreshEnd, FreshList, FreshMark, FreshEvict DEF Step
  <2>2. QED BY <1>2, <2>1, FreshRest, FreshAbandon
<1>3. CASE \E t \in Tokens : ExpireCache(t) \/ ExpireSession(t) BY <1>3, FreshTime
<1>4. QED BY <1>1, <1>2, <1>3 DEF Next

(* A cached answer speaks for an active account with its present roles, and  *)
(* for a session that is open or expired while the answer stood or was read, *)
(* but for what a revocation has yet to reach or lost: for however many      *)
(* requests, and whatever commits between the three reads of Verify and its  *)
(* write to Redis (user_usecase.go 92-144, 521-534).                          *)
THEOREM CacheStaysFresh == Spec => []CacheIsFresh
<1>1. Init => Fresh
  <2> SUFFICES ASSUME Init PROVE Fresh
    OBVIOUS
  <2>1. \A t \in Tokens : cache[t] = NoAuth BY DEF Init
  <2>2. \A q \in Requests : request[q].at = "idle" BY NoRequestType DEF Init
  <2>3. QED BY <2>1, <2>2 DEF Fresh, Cached, Reads
<1>2. Typed /\ Fresh => CacheIsFresh
  <2> SUFFICES ASSUME Typed, Fresh PROVE CacheIsFresh
    OBVIOUS
  <2>1. \A t \in Tokens : session[t].state \in {"open", "expired", "revoked", "none"} BY StateOf
  <2>2. QED BY <2>1 DEF Fresh, EntryFresh, CacheIsFresh, Speaks, Evicting
<1>3. QED BY <1>1, <1>2, InitTyped, NextTyped, NextFresh, PTL DEF Spec

-----------------------------------------------------------------------------
(* Sessions follow the password. *)

\* A step that leaves account and sessions alone.
LEMMA FollowsKeeps ==
  ASSUME Typed, Follows, NEW r \in Requests, NEW at \in Steps \ {"issue"}, Moves(r, at),
         request[r].at \notin {"list", "mark"}, UNCHANGED <<user, session, stray>>
  PROVE  Follows'
<1>1. RevocationPending => RevocationPending' BY DEF RevocationPending, Moves, Keeps
<1>2. \A q \in Requests : request'[q].at = "issue" =>
        request[q].at = "issue" /\ request'[q].row = request[q].row /\ (request[q].late => request'[q].late)
  BY DEF Moves, Keeps
<1>3. QED BY <1>1, <1>2 DEF Follows, Standing

\* A save that brings a password back notes whom it passed; one that sets a new password revokes.
LEMMA FollowsSaveRow ==
  ASSUME Typed, Follows, NEW r \in Requests, NEW row \in User, NEW fresh \in BOOLEAN,
         NEW next \in {NoRequest, At("list")}, SaveRow(r, row, fresh, next), fresh => next = At("list")
  PROVE  Follows'
<1>1. /\ request[r].at = "save" /\ user' = row /\ UNCHANGED session
      /\ stray' = IF ~fresh /\ row.password # user.password THEN stray \cup Strays(row.password) ELSE stray
  BY DEF SaveRow
<1>2. Moves(r, next.at) /\ (next = NoRequest => next.at = "idle") /\ (next = At("list") => next.at = "list")
  BY SaveRowMoves, NoRequestType, AtType DEF Steps
<1>3. RevocationPending => RevocationPending' BY <1>1, <1>2 DEF RevocationPending, Moves, Keeps
<1>4. \A q \in Requests : request'[q].at = "issue" =>
        /\ q # r /\ request[q].at = "issue" /\ request'[q].row = request[q].row
        /\ request[q].late => request'[q].late
  BY <1>2 DEF Moves, Keeps
<1>5. Standing' = Standing BY <1>1 DEF Standing
<1>6. CASE next = At("list")
  <2>1. RevocationPending' BY <1>2, <1>6 DEF RevocationPending, Moves
  <2>2. QED BY <1>1, <1>5, <2>1 DEF Follows
<1>7. CASE ~fresh /\ row.password # user.password
  <2>1. \A q \in Requests : q # r /\ request[q].at = "issue" /\ request[q].row.password # row.password
                              => request'[q].late
    BY <1>7, SaveRowMoves
  <2>2. \A t \in Standing : session[t].password = row.password \/ t \in stray' BY <1>1, <1>7 DEF Strays
  <2>3. QED BY <1>1, <1>4, <1>5, <2>1, <2>2 DEF Follows
<1>8. CASE row.password = user.password
  <2>1. stray' = stray BY <1>1, <1>8
  <2>2. QED BY <1>1, <1>3, <1>4, <1>5, <1>8, <2>1 DEF Follows
<1>9. QED BY <1>6, <1>7, <1>8

LEMMA FollowsSaves ==
  ASSUME Typed, Follows, NEW r \in Requests, Update(r) \/ UpdateUser(r) \/ SetUserStatus(r)
  PROVE  Follows'
<1>1. request[r].at = "save" BY DEF Update, UpdateUser, SetUserStatus, SaveRow
<1>2. PICK row \in User, fresh \in BOOLEAN, next \in {NoRequest, At("list")} :
        SaveRow(r, row, fresh, next) /\ (fresh => next = At("list"))
  <2>1. CASE Update(r)
    <3>1. CASE SaveRow(r, Found(r), FALSE, NoRequest) BY <1>1, <3>1, FoundType
    <3>2. CASE \E p \in Passwords : SaveRow(r, [Found(r) EXCEPT !.password = p], TRUE, At("list"))
      BY <1>1, <3>2, FoundType
    <3>3. QED BY <2>1, <3>1, <3>2 DEF Update
  <2>2. CASE UpdateUser(r)
    <3>1. PICK row \in User : SaveRow(r, row, FALSE, At("list")) BY <1>1, <2>2, FoundType DEF UpdateUser
    <3>2. QED BY <3>1
  <2>3. CASE SetUserStatus(r)
    <3>1. PICK row \in User, next \in {NoRequest, At("list")} : SaveRow(r, row, FALSE, next)
      BY <1>1, <2>3, FoundType DEF SetUserStatus
    <3>2. QED BY <3>1
  <2>4. QED BY <2>1, <2>2, <2>3
<1>3. QED BY <1>2, FollowsSaveRow

LEMMA FollowsStep ==
  ASSUME Typed, Follows, NEW r \in Requests, Step(r) \/ Abort(r) \/ Abandon(r)
  PROVE  Follows'
<1>1. CASE \/ \E t \in Tokens : CacheGet(r, t) \/ Verify(r, t)
           \/ CheckStatus(r) \/ LoadRoles(r) \/ Fill(r) \/ Abort(r) \/ Resume(r) \/ FindUser(r) \/ Evict(r)
  <2>1. PICK at \in Steps : Moves(r, at) /\ at # "issue"
    <3>1. CASE \E t \in Tokens : CacheGet(r, t) BY <3>1, CacheGetMoves DEF Steps
    <3>2. CASE (\E t \in Tokens : Verify(r, t)) \/ CheckStatus(r) \/ LoadRoles(r)
      BY <3>2, VerifyMoves, CheckStatusMoves, LoadRolesMoves DEF Steps
    <3>3. CASE Fill(r) \/ FindUser(r) BY <3>3, FillMoves, FindUserMoves DEF Steps
    <3>4. CASE Abort(r) \/ Resume(r) \/ Evict(r) BY <3>4, DoneMoves DEF Abort, Resume, Evict, Steps
    <3>5. QED BY <1>1, <3>1, <3>2, <3>3, <3>4
  <2>2. request[r].at \notin {"list", "mark"} /\ UNCHANGED <<user, session, stray>>
    BY <1>1 DEF CacheGet, Verify, CheckStatus, LoadRoles, Fill, Abort, Resume, FindUser, Evict, Account, History
  <2>3. QED BY <2>1, <2>2, FollowsKeeps
<1>2. CASE Logout(r) \/ \E t \in Tokens : RevokeSession(r, t)
  <2>1. PICK t \in Tokens : EndSession(r, t) BY <1>2, EndSteps
  <2>2. Moves(r, "evict") BY <2>1, EndSessionMoves
  <2>3. request[r].at = "act" /\ UNCHANGED user BY <1>2, <2>1 DEF Logout, RevokeSession, EndSession, Account
  <2>4. RevocationPending => RevocationPending' BY <2>2, <2>3 DEF RevocationPending, Moves, Keeps
  <2>5. \A x \in Tokens : session'[x] = IF x = t THEN Revoked ELSE session[x]
    BY <2>1 DEF EndSession, Typed, TypeOK
  <2>6. \A x \in Standing' : x \in Standing /\ session'[x] = session[x] /\ (x \in stray => x \in stray')
    BY <2>1, <2>5 DEF Standing, Revoked, EndSession
  <2>7. \A q \in Requests : request'[q].at = "issue" =>
          request[q].at = "issue" /\ request'[q].row = request[q].row /\ (request[q].late => request'[q].late)
    BY <2>2 DEF Moves, Keeps
  <2>8. QED BY <2>3, <2>4, <2>6, <2>7 DEF Follows
<1>3. CASE Create(r)
  <2>1. PICK at \in {"idle", "register"} : Moves(r, at)
    <3>1. CASE Goto(r, At("register")) BY <3>1, AtType, GotoMoves DEF Typed, Steps
    <3>2. CASE Goto(r, NoRequest) BY <3>2, DoneMoves
    <3>3. QED BY <1>3, <3>1, <3>2 DEF Create
  <2>2. /\ request[r].at \in {"idle", "register"} /\ UNCHANGED <<session, stray>>
        /\ user' = user \/ user = NoUser
    BY <1>3 DEF Create, History
  <2>3. CASE user' = user BY <2>1, <2>2, <2>3, FollowsKeeps DEF Steps
  <2>4. CASE user = NoUser
    <3>1. user \notin User BY <2>4 DEF NoUser, User
    <3>2. Standing = {} /\ Standing' = {} BY <2>2, <3>1 DEF Follows, Standing
    <3>3. \A q \in Requests : request[q].at # "issue" BY <3>1 DEF Typed, Fits
    <3>4. \A q \in Requests : request'[q].at # "issue" BY <2>1, <3>3 DEF Moves, Keeps
    <3>5. QED BY <3>2, <3>4 DEF Follows
  <2>5. QED BY <2>2, <2>3, <2>4
<1>4. CASE Login(r) \/ Impersonate(r)
  <2>1. Moves(r, "issue") /\ request'[r].row.password = user.password /\ user \in User
    BY <1>4, SignInMoves
  <2>2. request[r].at = "idle" /\ UNCHANGED <<user, session, stray>>
    BY <1>4 DEF Login, Impersonate, Account, History
  <2>3. RevocationPending => RevocationPending' BY <2>1, <2>2 DEF RevocationPending, Moves, Keeps
  <2>4. \A q \in Requests : q # r /\ request'[q].at = "issue" =>
          request[q].at = "issue" /\ request'[q].row = request[q].row /\ (request[q].late => request'[q].late)
    BY <2>1 DEF Moves, Keeps
  <2>5. QED BY <2>1, <2>2, <2>3, <2>4 DEF Follows, Standing
<1>5. CASE \E t \in Tokens : IssueSession(r, t)
  <2>1. PICK t \in Tokens : IssueSession(r, t) BY <1>5
  <2>2. Moves(r, "idle") BY <2>1, DoneMoves DEF IssueSession
  <2>3. /\ request[r].at = "issue" /\ UNCHANGED user
        /\ stray \subseteq stray' /\ (request[r].late => t \in stray')
    BY <2>1 DEF IssueSession, Account
  <2>4. /\ \A x \in Tokens : x # t => session'[x] = session[x]
        /\ session'[t].password = request[r].row.password
    BY <2>1 DEF IssueSession, Typed, TypeOK
  <2>5. RevocationPending => RevocationPending' BY <2>2, <2>3 DEF RevocationPending, Moves, Keeps
  <2>6. \A q \in Requests : request'[q].at = "issue" =>
          request[q].at = "issue" /\ request'[q].row = request[q].row /\ (request[q].late => request'[q].late)
    BY <2>2 DEF Moves, Keeps
  <2>7. user \in User BY <2>3 DEF Typed, Fits
  <2>8. QED BY <2>3, <2>4, <2>5, <2>6, <2>7 DEF Follows, Standing
<1>6. CASE ListHashes(r)
  <2>1. request[r].at = "list" /\ UNCHANGED <<user, session, stray>> BY <1>6 DEF ListHashes, Account, History
  <2>2. CASE Moves(r, "mark")
    <3>1. RevocationPending' BY <2>2 DEF RevocationPending, Moves
    <3>2. QED BY <2>1, <3>1 DEF Follows, Standing
  <2>3. CASE /\ Standing = {} /\ Moves(r, "idle")
             /\ \A q \in Requests : q # r /\ request[q].at = "issue" /\ request[q].row.password # user.password
                                      => request'[q].late
    <3>1. Standing' = {} BY <2>1, <2>3 DEF Standing
    <3>2. \A q \in Requests : request'[q].at = "issue" =>
            q # r /\ request[q].at = "issue" /\ request'[q].row = request[q].row
      BY <2>3 DEF Moves, Keeps
    <3>3. QED BY <2>1, <2>3, <3>1, <3>2 DEF Follows
  <2>4. QED BY <1>6, <2>2, <2>3, ListHashesMoves
<1>7. CASE RevokeAllForUser(r)
  <2>1. /\ Moves(r, "evict")
        /\ \A q \in Requests : q # r /\ request[q].at = "issue" /\ request[q].row.password # user.password
                                 => request'[q].late
    BY <1>7, RevokeAllMoves
  <2>2. Standing' = {} /\ UNCHANGED user BY <1>7 DEF RevokeAllForUser, Standing, Revoked, Account
  <2>3. \A q \in Requests : request'[q].at = "issue" =>
          q # r /\ request[q].at = "issue" /\ request'[q].row = request[q].row
    BY <2>1 DEF Moves, Keeps
  <2>4. QED BY <2>1, <2>2, <2>3 DEF Follows
<1>8. CASE Abandon(r)
  <2>1. Moves(r, "idle") BY <1>8, AbandonMoves
  <2>2. UNCHANGED <<user, session>> /\ Standing' = Standing /\ stray \subseteq stray' BY <1>8 DEF Abandon, Account, Standing
  <2>3. \A q \in Requests : request'[q].at = "issue" =>
          /\ q # r /\ request[q].at = "issue" /\ request'[q].row = request[q].row
          /\ request[q].late => request'[q].late
    BY <2>1 DEF Moves, Keeps
  <2>4. CASE request[r].at \in {"list", "mark"}
    <3>1. \A t \in Standing : session[t].password = user.password \/ t \in stray'
      BY <1>8, <2>4 DEF Abandon, Strays
    <3>2. \A q \in Requests : q # r /\ request[q].at = "issue" /\ request[q].row.password # user.password
                                => request'[q].late
      BY <1>8, <2>4, AbandonMoves
    <3>3. QED BY <2>2, <2>3, <3>1, <3>2 DEF Follows
  <2>5. CASE request[r].at \notin {"list", "mark"}
    <3>1. RevocationPending => RevocationPending' BY <2>1, <2>5 DEF RevocationPending, Moves, Keeps
    <3>2. QED BY <2>2, <2>3, <3>1 DEF Follows
  <2>6. QED BY <2>4, <2>5
<1>9. QED BY <1>1, <1>2, <1>3, <1>4, <1>5, <1>6, <1>7, <1>8, FollowsSaves DEF Step

LEMMA FollowsTime ==
  ASSUME Typed, Follows, NEW t \in Tokens, ExpireCache(t) \/ ExpireSession(t)
  PROVE  Follows'
<1>1. UNCHANGED <<user, request, stray>> BY DEF ExpireCache, ExpireSession, Account
<1>2. /\ Standing' = Standing
      /\ \A x \in Tokens : session'[x].password = session[x].password
  <2>1. CASE UNCHANGED session BY <2>1 DEF Standing
  <2>2. CASE ExpireSession(t)
    <3>1. \A x \in Tokens : x # t => session'[x] = session[x] BY <2>2 DEF ExpireSession, Typed, TypeOK
    <3>2. session[t].state = "open" /\ session'[t].state = "expired"
          /\ session'[t].password = session[t].password
      BY <2>2, ExpireType DEF ExpireSession
    <3>3. QED BY <3>1, <3>2 DEF Standing
  <2>3. QED BY <2>1, <2>2 DEF ExpireCache, Account
<1>3. Standing \subseteq Tokens BY DEF Standing
<1>4. QED BY <1>1, <1>2, <1>3 DEF Follows, RevocationPending

LEMMA NextFollows == Typed /\ Follows /\ [Next]_vars => Follows'
<1> SUFFICES ASSUME Typed, Follows, [Next]_vars PROVE Follows'
  OBVIOUS
<1>1. CASE UNCHANGED vars BY <1>1 DEF vars, Follows, Standing, RevocationPending
<1>2. CASE \E r \in Requests : Step(r) \/ Abort(r) \/ Abandon(r) BY <1>2, FollowsStep
<1>3. CASE \E t \in Tokens : ExpireCache(t) \/ ExpireSession(t) BY <1>3, FollowsTime
<1>4. QED BY <1>1, <1>2, <1>3 DEF Next

(* After a password change no session of another password goes unrevoked, but *)
(* for those whose sign-in the revocation overtook, which a failed           *)
(* revocation or a stale save left behind, whatever the interleaving of any  *)
(* number of requests (user_usecase.go 370-373, 514-534).                    *)
THEOREM PasswordEndsSessions == Spec => []SessionsFollowPassword
<1>1. Init => Follows
  <2> SUFFICES ASSUME Init PROVE Follows
    OBVIOUS
  <2>1. Standing = {} BY DEF Init, Standing, NoSession
  <2>2. \A q \in Requests : request[q].at = "idle" BY NoRequestType DEF Init
  <2>3. QED BY <2>1, <2>2 DEF Follows
<1>2. Follows => SessionsFollowPassword BY DEF Follows, SessionsFollowPassword
<1>3. QED BY <1>1, <1>2, InitTyped, NextTyped, NextFollows, PTL DEF Spec
===============================================================================
