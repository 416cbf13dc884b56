------------------------------ MODULE MCAccess ------------------------------
(***************************************************************************)
(* What HTTP requests do to an owner's account and to what hangs on it:     *)
(* Sessions, and next to it the links of a forgotten password, the consents *)
(* of OAuth, the counter of the rate limiter and the notifiers.  They share *)
(* no state, so each is explored by itself, with the others at rest: part   *)
(* says which.                                                              *)
(***************************************************************************)
EXTENDS Sessions, TLC

CONSTANTS Links, Accounts, Addresses, Slugs, States, Allowance, MaxHits, Channels, Draws

VARIABLES
    part,
    link, reset, used, outlived,
    mailbox, pending, consent, spends, removed, held,
    count, ttl, hit, admitted, unset,
    notifier, work, drawn, expired, overtaken, spent, respent, clashed

Resetting == INSTANCE PasswordReset WITH Resets <- Requests
Connecting == INSTANCE OAuthConnect WITH Callbacks <- Requests
Limiting == INSTANCE RateLimiter WITH Hits <- Requests
Notifying == INSTANCE Notifiers WITH Clients <- Requests

(* Among others: no draw says that there is none, or no need of one. *)
ASSUME AccessAssumption ==
    /\ Allowance \in Nat /\ MaxHits \in Nat
    /\ Draws \cap {Notifying!NoCode, Notifying!Unneeded} = {}

resetVars == <<link, reset, used, outlived>>
connectVars == <<mailbox, pending, consent, spends, removed, held>>
limitVars == <<count, ttl, hit, admitted, unset>>
notifyVars == <<notifier, work, drawn, expired, overtaken, spent, respent, clashed>>

rest == "at rest"

AccessInit ==
    /\ part \in {"sessions", "resetting", "connecting", "limiting", "notifying"}
    /\ Init
    /\ IF part = "resetting" THEN Resetting!Init
       ELSE link = rest /\ reset = rest /\ used = rest /\ outlived = rest
    /\ IF part = "connecting" THEN Connecting!Init
       ELSE mailbox = rest /\ pending = rest /\ consent = rest /\ spends = rest /\ removed = rest /\ held = rest
    /\ IF part = "limiting" THEN Limiting!Init
       ELSE count = rest /\ ttl = rest /\ hit = rest /\ admitted = rest /\ unset = rest
    /\ IF part = "notifying" THEN Notifying!Init
       ELSE /\ notifier = rest /\ work = rest /\ drawn = rest /\ expired = rest /\ overtaken = rest /\ spent = rest
            /\ respent = rest /\ clashed = rest

AccessNext ==
    /\ UNCHANGED part
    /\ \/ part = "sessions" /\ Next /\ UNCHANGED <<resetVars, connectVars, limitVars, notifyVars>>
       \/ part = "resetting" /\ Resetting!Next /\ UNCHANGED <<vars, connectVars, limitVars, notifyVars>>
       \/ part = "connecting" /\ Connecting!Next /\ UNCHANGED <<vars, resetVars, limitVars, notifyVars>>
       \/ part = "limiting" /\ Limiting!Next /\ UNCHANGED <<vars, resetVars, connectVars, notifyVars>>
       \/ part = "notifying" /\ Notifying!Next /\ UNCHANGED <<vars, resetVars, connectVars, limitVars>>

AccessSpec == AccessInit /\ [][AccessNext]_<<part, vars, resetVars, connectVars, limitVars, notifyVars>>

-----------------------------------------------------------------------------
(* A link of a forgotten password and a state of OAuth are good for one use: *)
(* see LinkSpentOnce and StateSpentOnce.                                      *)
SpentOnce == (part = "resetting" => Resetting!LinkSpentOnce) /\ (part = "connecting" => Connecting!StateSpentOnce)

(* OAuthConnect: the tokens of a mailbox open that mailbox. *)
TokensOpenMailbox == part = "connecting" => Connecting!TokensOpenMailbox

(* OAuthConnect: only who had read a mailbox brings it back. *)
DeletedStaysGone == part = "connecting" => Connecting!DeletedStaysGone

(* RateLimiter: the limit holds in a window, and the window ends. *)
WindowHolds == part = "limiting" => Limiting!WindowHolds

(* Notifiers: one default, and codes that verify once. *)
OneDefault == part = "notifying" => Notifying!OneDefault
CodeSpentOnce == part = "notifying" => Notifying!CodeSpentOnce

-----------------------------------------------------------------------------
(* Requests, tokens, passwords and role sets are interchangeable. *)
Sym == Permutations(Requests) \cup Permutations(Tokens)
       \cup Permutations(Passwords) \cup Permutations(Roles)
=============================================================================
