---------------------------- MODULE PasswordReset ----------------------------
(***************************************************************************)
(* The links of a forgotten password: stored in Redis, looked up, spent and *)
(* deleted in that order (src/internal/usecase/user_usecase.go,             *)
(* gateway/cache/user_cache.go).  What saving the users row undoes is the   *)
(* subject of Sessions.                                                     *)
(***************************************************************************)
EXTENDS Naturals

CONSTANTS
    Resets,         \* slots for ResetPassword requests being served at the same time
    Links           \* reset tokens that may be mailed

VARIABLES
    link,       \* Redis: "unsent", "stored" or "gone"
    reset,      \* the requests being served
    used,       \* passwords set through a link
    outlived    \* links whose deletion failed, or that a second reset had looked up before it

linkVars == <<link, reset, used, outlived>>

Idle == [at |-> "idle", link |-> {}]

Init ==
    /\ link = [l \in Links |-> "unsent"]
    /\ reset = [r \in Resets |-> Idle]
    /\ used = [l \in Links |-> 0]
    /\ outlived = {}

Goto(r, at, l) == reset' = [reset EXCEPT ![r] = [at |-> at, link |-> {l}]]
Finish(r) == reset' = [reset EXCEPT ![r] = Idle]

-----------------------------------------------------------------------------

(* ForgotPassword: an error of Redis is reported, and nothing is sent. *)
ForgotPassword(l) ==
    /\ link[l] = "unsent"
    /\ link' = [link EXCEPT ![l] = "stored"]
    /\ UNCHANGED <<reset, used, outlived>>

Expire(l) ==
    /\ link[l] = "stored"
    /\ link' = [link EXCEPT ![l] = "gone"]
    /\ UNCHANGED <<reset, used, outlived>>

(* ResetPassword: the link is looked up first. *)
LookUp(r, l) ==
    /\ reset[r] = Idle
    /\ link[l] = "stored"
    /\ Goto(r, "save", l)
    /\ outlived' = outlived \cup {k \in {l} : \E q \in Resets : l \in reset[q].link}
    /\ UNCHANGED <<link, used>>

(* The password is saved and committed. *)
SavePassword(r, l) ==
    /\ reset[r].at = "save" /\ reset[r].link = {l}
    /\ used' = [used EXCEPT ![l] = @ + 1]
    /\ Goto(r, "spend", l)
    /\ UNCHANGED <<link, outlived>>

(* Then the link is deleted; an error is ignored. *)
Spend(r, l) ==
    /\ reset[r].at = "spend" /\ reset[r].link = {l}
    /\ \/ link' = [link EXCEPT ![l] = "gone"] /\ UNCHANGED outlived
       \/ outlived' = outlived \cup {l} /\ UNCHANGED link
    /\ Finish(r)
    /\ UNCHANGED used

(* An error, or the process stops: before the commit nothing has happened. *)
GiveUp(r) ==
    /\ reset[r] # Idle
    /\ outlived' = IF reset[r].at = "spend" THEN outlived \cup reset[r].link ELSE outlived
    /\ Finish(r)
    /\ UNCHANGED <<link, used>>

Bounded == \A l \in Links : used[l] < 3       \* bound: passwords set through a link

Next ==
    \/ \E l \in Links : ForgotPassword(l) \/ Expire(l)
    \/ \E r \in Resets, l \in Links : LookUp(r, l) \/ (Bounded /\ SavePassword(r, l)) \/ Spend(r, l)
    \/ \E r \in Resets : GiveUp(r)

-----------------------------------------------------------------------------
(* A link sets one password, unless two resets held it at the same time or  *)
(* its deletion failed (user_usecase.go 485-515).                            *)
LinkSpentOnce == \A l \in Links : used[l] <= 1 \/ l \in outlived
=============================================================================
