----------------------------- MODULE RateLimiter -----------------------------
(***************************************************************************)
(* The fixed-window counter of one caller on one route, in Redis            *)
(* (src/internal/gateway/cache/rate_limiter.go,                             *)
(* delivery/http/middleware/rate_limit_middleware.go).  When Redis cannot be *)
(* reached a hit is let through uncounted, which changes nothing here.       *)
(***************************************************************************)
EXTENDS Naturals

CONSTANTS
    Hits,           \* slots for requests being counted at the same time
    Allowance,      \* the limit of the route
    MaxHits         \* bound: hits counted in one window

VARIABLES
    count,      \* ratelimit:<scope>:<ip>, 0 without the key
    ttl,        \* the key has an expiry
    hit,        \* the requests being counted
    admitted,   \* let through since the window began, on the counter's word
    unset       \* the Expire of the key was lost

limitVars == <<count, ttl, hit, admitted, unset>>

Init ==
    /\ count = 0 /\ ttl = FALSE
    /\ hit = [h \in Hits |-> "idle"]
    /\ admitted = 0 /\ unset = FALSE

-----------------------------------------------------------------------------
(* Allow. *)

(* Mutant: one more than the limit. *)
WithinOneMore(n) == n <= Allowance + 1

(* The hit that makes the key is let through whatever the limit, and only it *)
(* sets the expiry; any other is judged by its count.                        *)
Within(n) == n = 1 \/ n <= Allowance

Incr(h) ==
    /\ hit[h] = "idle" /\ count < MaxHits
    /\ count' = count + 1
    /\ admitted' = IF Within(count') THEN admitted + 1 ELSE admitted
    /\ hit' = IF count' = 1 THEN [hit EXCEPT ![h] = "expire"] ELSE hit
    /\ UNCHANGED <<ttl, unset>>

(* The expiry is set, if the key is still there; an error is only logged. *)
Expire(h) ==
    /\ hit[h] = "expire"
    /\ \/ ttl' = (count > 0) /\ unset' = FALSE
       \/ unset' = (count > 0 /\ ~ttl) /\ UNCHANGED ttl
    /\ hit' = [hit EXCEPT ![h] = "idle"]
    /\ UNCHANGED <<count, admitted>>

(* The process stops before Expire. *)
Stop(h) ==
    /\ hit[h] = "expire"
    /\ hit' = [hit EXCEPT ![h] = "idle"]
    /\ unset' = (count > 0 /\ ~ttl)
    /\ UNCHANGED <<count, ttl, admitted>>

-----------------------------------------------------------------------------

Reset ==
    /\ count' = 0 /\ ttl' = FALSE /\ unset' = FALSE
    /\ admitted' = 0
    /\ UNCHANGED hit

(* The window lapses. *)
Lapse == ttl /\ Reset

(* Redis restarts without the key. *)
Flush == count > 0 /\ Reset

Next ==
    \/ \E h \in Hits : Incr(h) \/ Expire(h) \/ Stop(h)
    \/ Lapse \/ Flush

-----------------------------------------------------------------------------
(* No more than the limit are let through in a window, but for the one that  *)
(* began it; and the window ends: a key without expiry has its Expire        *)
(* coming, or lost it to an error (rate_limiter.go 41-66).                   *)
WindowHolds ==
    /\ admitted <= Allowance \/ admitted = 1
    /\ count > 0 => ttl \/ unset \/ \E h \in Hits : hit[h] = "expire"
=============================================================================
