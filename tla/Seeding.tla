------------------------------- MODULE Seeding -------------------------------
(***************************************************************************)
(* Seeding a database that is in use: one row of mail_providers.json and    *)
(* one of users.json, each written in a transaction of its own, by          *)
(* processes that may run at the same time and hold different versions of   *)
(* the files (src/internal/seeder).  What owners and admins do to the       *)
(* account meanwhile is in Sessions; here it only changes the row.          *)
(***************************************************************************)
EXTENDS Naturals

CONSTANTS
    Seeders,        \* seeder processes
    Roles,          \* roles an account may have
    Wanted,         \* those that users.json asks for
    Presets         \* versions of the provider's row in the file

VARIABLES
    provider,   \* the mail_providers row, or nothing
    account,    \* the users row with its user_roles, or nothing
    seeder,     \* the processes
    applied,    \* the version of the seeder that finished last, or nothing
    meddled,    \* another one wrote the row between its reading and writing
    chosen,     \* the owner has set the password
    granted,    \* roles as an admin left them
    trusted     \* the last seeding saw the roles as they were, and nobody changed them since

seedVars == <<provider, account, seeder, applied, meddled, chosen, granted, trusted>>

-----------------------------------------------------------------------------

Account == [password : {"seed", "owner"}, roles : SUBSET Roles]
Idle == [at |-> "idle", file |-> {}, found |-> {}, missing |-> {}, overtaken |-> FALSE]

(* The type of every variable. *)
SeedTypeOK ==
    /\ provider \in {{}} \cup {{p} : p \in Presets} /\ applied \in {{}} \cup {{p} : p \in Presets}
    /\ account \in {{}} \cup {{a} : a \in Account}
    /\ seeder \in [Seeders -> [at : {"idle", "provider", "users", "insert", "held", "roles"},
                               file : SUBSET Presets, found : SUBSET Presets,
                               missing : SUBSET Roles, overtaken : BOOLEAN]]
    /\ meddled \in BOOLEAN /\ chosen \in BOOLEAN /\ trusted \in BOOLEAN
    /\ granted \subseteq Roles

Init ==
    /\ provider = {} /\ account = {}
    /\ seeder = [s \in Seeders |-> Idle]
    /\ applied = {} /\ meddled = FALSE
    /\ chosen = FALSE /\ granted = {} /\ trusted = FALSE

providerVars == <<provider, applied, meddled>>
accountVars == <<account, chosen, granted, trusted>>
Goto(s, at) == seeder' = [seeder EXCEPT ![s].at = at]

-----------------------------------------------------------------------------
(* MailProviderSeeder.Seed. *)

ReadProvider(s, preset) ==
    /\ seeder[s].at = "idle"
    /\ seeder' = [seeder EXCEPT ![s] = [Idle EXCEPT !.at = "provider", !.file = {preset}, !.found = provider]]
    /\ UNCHANGED <<providerVars, accountVars>>

(* Inserted unless another row is there by now; updated when the row that   *)
(* was found differs.                                                        *)
Seeded(job) ==
    IF job.found = {} THEN IF provider = {} THEN job.file ELSE provider
    ELSE IF job.found = job.file THEN provider ELSE job.file

WriteProvider(s) ==
    LET job == seeder[s] IN
    /\ job.at = "provider"
    /\ provider' = Seeded(job)
    /\ applied' = job.file
    /\ meddled' = job.overtaken
    /\ seeder' = [q \in Seeders |->
                    IF q = s THEN [job EXCEPT !.at = "users", !.overtaken = FALSE]
                    ELSE [seeder[q] EXCEPT !.overtaken = @ \/ seeder[q].at = "provider"]]
    /\ UNCHANGED accountVars

-----------------------------------------------------------------------------
(* UserSeeder.Seed. *)

Missing == UNION {Wanted \ a.roles : a \in account}

(* An account that is there is left alone but for its roles. *)
FindUser(s) ==
    /\ seeder[s].at = "users"
    /\ seeder' = [seeder EXCEPT ![s].at = IF account = {} THEN "insert" ELSE "roles", ![s].missing = Missing]
    /\ UNCHANGED <<providerVars, accountVars>>

(* The unique index waits for an insert that is not committed yet, and then *)
(* decides: the loser adopts the row.                                       *)
InsertUser(s) ==
    /\ seeder[s].at = "insert"
    /\ \A q \in Seeders : seeder[q].at # "held"
    /\ seeder' = [seeder EXCEPT ![s].at = IF account = {} THEN "held" ELSE "roles", ![s].missing = Missing]
    /\ UNCHANGED <<providerVars, accountVars>>

(* Mutant: an account that is there gets the roles of the file, and no others. *)
CommitRolesOfFile(s) ==
    LET job == seeder[s] IN
    /\ job.at \in {"held", "roles"}
    /\ account' = IF job.at = "held" THEN {[password |-> "seed", roles |-> Wanted]}
                  ELSE {[a EXCEPT !.roles = Wanted] : a \in account}
    /\ trusted' = (trusted \/ ~job.overtaken)
    /\ seeder' = [seeder EXCEPT ![s] = Idle]
    /\ UNCHANGED <<providerVars, chosen, granted>>

(* syncRoles adds what was missing, and the commit. *)
CommitUser(s) ==
    LET job == seeder[s] IN
    /\ job.at \in {"held", "roles"}
    /\ account' = IF job.at = "held" THEN {[password |-> "seed", roles |-> Wanted]}
                  ELSE {[a EXCEPT !.roles = @ \cup job.missing] : a \in account}
    /\ trusted' = (trusted \/ ~job.overtaken)
    /\ seeder' = [seeder EXCEPT ![s] = Idle]
    /\ UNCHANGED <<providerVars, chosen, granted>>

(* An error, or the process stops: the transaction it is in is undone, and  *)
(* what was committed before it stays.                                       *)
Abort(s) ==
    /\ seeder[s] # Idle
    /\ seeder' = [seeder EXCEPT ![s] = Idle]
    /\ UNCHANGED <<providerVars, accountVars>>

-----------------------------------------------------------------------------
(* The application. *)

Register(role) ==
    /\ account = {} /\ \A s \in Seeders : seeder[s].at # "held"
    /\ account' = {[password |-> "owner", roles |-> {role}]}
    /\ chosen' = TRUE /\ granted' = {role}
    /\ UNCHANGED <<providerVars, seeder, trusted>>

ChangePassword ==
    /\ account # {}
    /\ account' = {[a EXCEPT !.password = "owner"] : a \in account}
    /\ chosen' = TRUE
    /\ UNCHANGED <<providerVars, seeder, granted, trusted>>

(* An admin replaces the roles. *)
ReplaceRoles(roles) ==
    /\ account # {}
    /\ account' = {[a EXCEPT !.roles = roles] : a \in account}
    /\ granted' = roles /\ trusted' = FALSE
    /\ seeder' = [q \in Seeders |-> [seeder[q] EXCEPT !.overtaken = @ \/ seeder[q].at = "roles"]]
    /\ UNCHANGED <<providerVars, chosen>>

Next ==
    \/ \E s \in Seeders :
        \/ \E p \in Presets : ReadProvider(s, p)
        \/ WriteProvider(s) \/ FindUser(s) \/ InsertUser(s) \/ CommitUser(s) \/ Abort(s)
    \/ ChangePassword
    \/ \E role \in Roles : Register(role)
    \/ \E roles \in SUBSET Roles : ReplaceRoles(roles)

-----------------------------------------------------------------------------
(* Seeding never takes away a password the owner has set, or a role an      *)
(* admin left (user_seeder.go 58-61, 122-124).                               *)
SeedingIsGentle ==
    \A a \in account : (chosen => a.password = "owner") /\ granted \subseteq a.roles

(* What was seeded is there: the roles, unless an admin changed them since  *)
(* the seeder looked, and the provider as in the file of the seeder that    *)
(* wrote last, unless another one wrote while it was at it                   *)
(* (user_seeder.go 80-99, mail_provider_seeder.go 70-117).                   *)
SeedsTakeHold ==
    /\ trusted => \E a \in account : Wanted \subseteq a.roles
    /\ meddled \/ provider = applied
=============================================================================
