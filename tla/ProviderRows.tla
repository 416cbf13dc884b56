---------------------------- MODULE ProviderRows ----------------------------
(***************************************************************************)
(* The mail_providers row behind a slug, as the worker resolves it through  *)
(* a cache in Redis (src/internal/gateway/cache/mail_provider_cache.go,     *)
(* src/internal/usecase/mail_resolver.go).                                  *)
(***************************************************************************)
EXTENDS Naturals

CONSTANTS
    Resolvers,      \* callers of Row at the same time
    Rows            \* contents the row may have

VARIABLES
    row,        \* the row, or nothing
    cached,     \* the entry in Redis: nothing, a row, or a miss
    resolver,   \* the callers
    edited,     \* the row has changed since the entry was read
    blamed      \* the entry is an error of the database that was taken for a missing row

rowVars == <<row, cached, resolver, edited, blamed>>

-----------------------------------------------------------------------------

(* An answer is the row or its absence; an entry is a set of one answer. *)
Answers == {{}} \cup {{p} : p \in Rows}
Idle == [at |-> "idle", answer |-> {}, outdated |-> FALSE, error |-> FALSE]

(* The type of every variable. *)
RowTypeOK ==
    /\ row \in Answers /\ cached \in {{}} \cup {{x} : x \in Answers}
    /\ resolver \in [Resolvers -> [at : {"idle", "remember", "answered"}, answer : Answers,
                                   outdated : BOOLEAN, error : BOOLEAN]]
    /\ edited \in BOOLEAN /\ blamed \in BOOLEAN

Init ==
    /\ row \in Answers
    /\ cached = {} /\ resolver = [r \in Resolvers |-> Idle]
    /\ edited = FALSE /\ blamed = FALSE

Goto(r, rec) == resolver' = [resolver EXCEPT ![r] = rec]

-----------------------------------------------------------------------------
(* MailResolver.Row. *)

(* Mutant: nothing in the cache reads as a missing row. *)
LookupOnly(r) ==
    /\ resolver[r] = Idle
    /\ \E x \in cached \cup {{}} : Goto(r, [at |-> "answered", answer |-> x, outdated |-> FALSE, error |-> FALSE])
    /\ UNCHANGED <<row, cached, edited, blamed>>

(* An answer in the cache, be it a miss, is the answer. *)
Lookup(r) ==
    /\ resolver[r] = Idle
    /\ \E x \in cached : Goto(r, [at |-> "answered", answer |-> x, outdated |-> edited, error |-> blamed])
    /\ UNCHANGED <<row, cached, edited, blamed>>

(* Nothing there, or Redis cannot be reached: the database is asked. *)
FindBySlug(r) ==
    /\ resolver[r] = Idle
    /\ Goto(r, [at |-> "remember", answer |-> row, outdated |-> FALSE, error |-> FALSE])
    /\ UNCHANGED <<row, cached, edited, blamed>>

(* An error of it is no other answer than that of a missing row. *)
FindFails(r) ==
    /\ resolver[r] = Idle
    /\ Goto(r, [at |-> "remember", answer |-> {}, outdated |-> FALSE, error |-> TRUE])
    /\ UNCHANGED <<row, cached, edited, blamed>>

(* The answer is cached; when that fails, nothing is. *)
Remember(r) ==
    LET job == resolver[r] IN
    /\ job.at = "remember"
    /\ \/ cached' = {job.answer} /\ edited' = job.outdated /\ blamed' = job.error
       \/ UNCHANGED <<cached, edited, blamed>>
    /\ Goto(r, [job EXCEPT !.at = "answered"])
    /\ UNCHANGED row

(* The mailbox is used with the row, or its sync fails without one. *)
Resolve(r) ==
    /\ resolver[r].at = "answered"
    /\ Goto(r, Idle)
    /\ UNCHANGED <<row, cached, edited, blamed>>

Expire ==
    /\ cached # {}
    /\ cached' = {} /\ edited' = FALSE /\ blamed' = FALSE
    /\ UNCHANGED <<row, resolver>>

(* A seeder, or somebody by hand, changes the row; nobody calls Forget. *)
Edit(content) ==
    /\ row' = content /\ content # row
    /\ edited' = (cached # {})
    /\ resolver' = [r \in Resolvers |-> [resolver[r] EXCEPT !.outdated = resolver[r] # Idle]]
    /\ UNCHANGED <<cached, blamed>>

Next ==
    \/ \E r \in Resolvers : Lookup(r) \/ FindBySlug(r) \/ FindFails(r) \/ Remember(r) \/ Resolve(r)
    \/ \E content \in Answers : Edit(content)
    \/ Expire

RowSpec == Init /\ [][Next]_rowVars

-----------------------------------------------------------------------------
(* A caller gets the row as it is, and is told that there is none when there *)
(* is none, but for what has changed since it was read, and for an error of  *)
(* the database that was remembered as a missing row; in particular a Redis  *)
(* that does not answer makes no provider unknown (mail_resolver.go 87-119,  *)
(* mail_provider_cache.go 50-63).                                            *)
AnswersAreTrue ==
    /\ \A x \in cached : x = row \/ edited \/ (blamed /\ x = {})
    /\ \A r \in Resolvers :
        LET job == resolver[r] IN
        job # Idle => job.answer = row \/ job.outdated \/ (job.error /\ job.answer = {})
=============================================================================
