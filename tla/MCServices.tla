----------------------------- MODULE MCServices -----------------------------
(***************************************************************************)
(* What decides whether mail is seen, matched and told of: Watching, and    *)
(* next to it the reading of a mailbox over IMAP, the evaluation of filters, *)
(* the order of events, the sending of notifications, the mail_providers    *)
(* rows and their seeding, and the worker's loops under their probe.  They  *)
(* share no state, so each is explored by itself, with the others at rest:  *)
(* part says which.                                                         *)
(***************************************************************************)
EXTENDS Watching, Sequences, TLC

CONSTANTS Folders, Limit, MaxUid, MaxValidity, Poller, Checker, Floor, Horizon, MaxAttempts, Roles, Wanted,
          Texts, Wants, MaxFilters, MaxParts, MaxLines, HeaderCap

VARIABLES
    part,
    server, folder, cursor, call, handed, waived, home, mixed, upset,
    field, rules, mode, message,
    working, since, due, fired, silent,
    target, edit, linked, run, work, got, unclear,
    provider, account, seeder, applied, meddled, chosen, granted, trusted,
    row, cached, resolver, edited, blamed,
    position, request, requested, moved

(* Texts for TLC: with and without a capital, and longer than what is asked for. *)
ShortTexts == {<<>>, <<"a">>, <<"A">>, <<"b", "a">>}
ShortWants == {<<"a">>, <<"A">>}

(* The poller's loop comes around more often than the checker's. *)
Interval == [l \in {Poller, Checker} |-> IF l = Poller THEN 1 ELSE 2]

Fetching == INSTANCE ImapFetch
Matching == INSTANCE FilterMatcher WITH filters <- rules
Looping == INSTANCE LoopHealth WITH Loops <- {Poller, Checker}
Sending == INSTANCE Delivering WITH Targets <- Requests
Sowing == INSTANCE Seeding WITH Seeders <- Requests, Presets <- Forms
Resolving == INSTANCE ProviderRows WITH Resolvers <- Requests, Rows <- Forms
Ordering == INSTANCE EventOrder WITH Callers <- Requests, Events <- Forms

(* Among others: users.json asks for roles that exist, and texts are texts. *)
ASSUME ServicesAssumption ==
    /\ Floor \in Nat /\ Horizon \in Nat
    /\ MaxAttempts \in Nat \ {0}
    /\ Wanted \subseteq Roles
    /\ IsFiniteSet(Forms)
    /\ MaxFilters \in Nat /\ MaxParts \in Nat /\ MaxLines \in Nat /\ HeaderCap \in Nat
    /\ Texts \cup Wants \subseteq Seq(Matching!Letters)

fetchVars == <<server, folder, cursor, call, handed, waived, home, mixed, upset>>
matchVars == <<field, rules, mode, message>>
loopVars == <<working, since, due, fired, silent>>
sendVars == <<target, edit, linked, run, work, got, unclear>>
sowVars == <<provider, account, seeder, applied, meddled, chosen, granted, trusted>>
rowVars == <<row, cached, resolver, edited, blamed>>
orderVars == <<position, request, requested, moved>>

rest == "at rest"

ServicesInit ==
    /\ part \in {"watching", "fetching", "matching", "looping", "sending", "sowing", "resolving", "ordering"}
    /\ Init /\ Looping!Init /\ Sowing!Init
    /\ IF part = "fetching" THEN Fetching!Init
       ELSE /\ server = rest /\ folder = rest /\ cursor = rest /\ call = rest /\ handed = rest
            /\ waived = rest /\ home = rest /\ mixed = rest /\ upset = rest
    /\ IF part = "matching" THEN Matching!Init
       ELSE field = rest /\ rules = rest /\ mode = rest /\ message = rest
    /\ IF part = "sending" THEN Sending!Init
       ELSE /\ target = rest /\ edit = rest /\ linked = rest /\ run = rest /\ work = rest
            /\ got = rest /\ unclear = rest
    /\ IF part = "resolving" THEN Resolving!Init
       ELSE row = rest /\ cached = rest /\ resolver = rest /\ edited = rest /\ blamed = rest
    /\ IF part = "ordering" THEN Ordering!Init
       ELSE position = rest /\ request = rest /\ requested = rest /\ moved = rest

ServicesNext ==
    /\ UNCHANGED part
    /\ \/ part = "watching" /\ Next
          /\ UNCHANGED <<fetchVars, matchVars, loopVars, sendVars, sowVars, rowVars, orderVars>>
       \/ part = "fetching" /\ Fetching!Next
          /\ UNCHANGED <<vars, matchVars, loopVars, sendVars, sowVars, rowVars, orderVars>>
       \/ part = "matching" /\ Matching!Next
          /\ UNCHANGED <<vars, fetchVars, loopVars, sendVars, sowVars, rowVars, orderVars>>
       \/ part = "looping" /\ Looping!Next
          /\ UNCHANGED <<vars, fetchVars, matchVars, sendVars, sowVars, rowVars, orderVars>>
       \/ part = "sending" /\ Sending!Next
          /\ UNCHANGED <<vars, fetchVars, matchVars, loopVars, sowVars, rowVars, orderVars>>
       \/ part = "sowing" /\ Sowing!Next
          /\ UNCHANGED <<vars, fetchVars, matchVars, loopVars, sendVars, rowVars, orderVars>>
       \/ part = "resolving" /\ Resolving!Next
          /\ UNCHANGED <<vars, fetchVars, matchVars, loopVars, sendVars, sowVars, orderVars>>
       \/ part = "ordering" /\ Ordering!Next
          /\ UNCHANGED <<vars, fetchVars, matchVars, loopVars, sendVars, sowVars, rowVars>>

ServicesSpec ==
    ServicesInit /\ [][ServicesNext]_<<part, vars, fetchVars, matchVars, loopVars, sendVars, sowVars, rowVars,
                                     orderVars>>

-----------------------------------------------------------------------------
(* ImapFetch: no message is passed over, and none is handed on twice; see    *)
(* NothingPassed and HandedOnce.                                             *)
ReadOnce == part = "fetching" => Fetching!NothingPassed /\ Fetching!HandedOnce

(* FilterMatcher: looser filters and further recipients lose no match. *)
MatchingIsMonotone == part = "matching" => Matching!MatchingIsMonotone

(* LoopHealth: the probe reports the loops that are stuck, and no others. *)
StalledIsStuck == Looping!StalledIsStuck

(* Delivering: nobody is sent a message twice, and the outcome recorded of a *)
(* run is what became of its messages: see SentOnce and OutcomeIsTrue.       *)
DeliveryIsTrue == part = "sending" => Sending!SentOnce /\ Sending!OutcomeIsTrue

(* Seeding: what is seeded takes hold, and takes nothing away: see           *)
(* SeedsTakeHold and SeedingIsGentle.                                        *)
SeedsKeepAndHold == Sowing!SeedsTakeHold /\ Sowing!SeedingIsGentle

(* EventOrder: the events stand in one order that was asked for. *)
OneOrder == part = "ordering" => Ordering!OneOrder

(* ProviderRows: no provider is unknown because a cache says so. *)
AnswersAreTrue == part = "resolving" => Resolving!AnswersAreTrue

-----------------------------------------------------------------------------
(* Requests and forms are interchangeable. *)
Sym == Permutations(Requests) \cup Permutations(Forms)
=============================================================================
