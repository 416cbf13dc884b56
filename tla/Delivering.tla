----------------------------- MODULE Delivering -----------------------------
(***************************************************************************)
(* One occurrence of a notify event: which notifiers it is built on, the    *)
(* messages its attempts send to them, and what is recorded of it           *)
(* (src/internal/usecase/event/notify_handler.go, gateway/notifier,         *)
(* watcher_event_usecase.go, dispatcher_usecase.go).  That one attempt runs *)
(* at a time, or when not, is the subject of EventQueue.                    *)
(***************************************************************************)
EXTENDS Naturals, FiniteSets

CONSTANTS
    Targets,        \* the owner's notifiers
    MaxAttempts

VARIABLES
    target,     \* the notifiers: their channel and status
    edit,       \* the notifiers an edit of the event has checked, before it links them
    linked,     \* watcher_event_notifiers
    run,        \* the event_runs row
    work,       \* the attempt in progress
    got,        \* messages each notifier received since the run was asked for
    unclear     \* those whose sending was reported as failed

deliveryVars == <<target, edit, linked, run, work, got, unclear>>

-----------------------------------------------------------------------------

Kinds == {"webhook", "telegram", "sms", "email"}
(* "unproved": pending or disabled.  complete: it has what its channel needs. *)
Target == {t \in [kind : Kinds, status : {"unproved", "verified"}, complete : BOOLEAN] :
                t.kind = "webhook" => t.complete}
NoTarget == [kind |-> "none", status |-> "absent", complete |-> FALSE]
Status == {"none", "pending", "running", "succeeded", "failed"}
Idle == [at |-> "idle", left |-> {}, failures |-> {}, total |-> {}]

(* The type of every variable. *)
DeliveryTypeOK ==
    /\ target \in [Targets -> Target \cup {NoTarget}]
    /\ edit \subseteq Targets /\ linked \subseteq Targets
    /\ run \in [status : Status, attempt : 0..MaxAttempts, loaded : BOOLEAN]
    /\ work \in [at : {"idle", "sending"}, left : SUBSET [id : Targets, row : Target],
                 failures : SUBSET Targets, total : SUBSET Targets]
    /\ got \in [Targets -> Nat] /\ unclear \in [Targets -> Nat]

None == [n \in Targets |-> 0]

Init ==
    /\ target \in [Targets -> {t \in Target : t.status = "verified"}]
    /\ edit = {} /\ linked = {}
    /\ run = [status |-> "none", attempt |-> 0, loaded |-> TRUE]
    /\ work = Idle
    /\ got = None /\ unclear = None

-----------------------------------------------------------------------------
(* Building the event.  An update holds the event's row from before the      *)
(* check until the commit; nobody else sees an event that is being created.  *)

(* attachNotifiers: some, the owner's own, and verified. *)
AttachNotifiers(ids) ==
    /\ edit = {} /\ ids # {}
    /\ \A n \in ids : target[n].status = "verified"
    /\ edit' = ids
    /\ UNCHANGED <<target, linked, run, work, got, unclear>>

CreateEvent(ids) == linked = {} /\ AttachNotifiers(ids)
UpdateEvent(ids) == linked # {} /\ AttachNotifiers(ids)

(* ReplaceNotifiers and the commit, unless a notifier is gone by now. *)
ReplaceNotifiers ==
    /\ edit # {}
    /\ linked' = IF \A n \in edit : target[n] # NoTarget THEN edit ELSE linked
    /\ edit' = {}
    /\ UNCHANGED <<target, run, work, got, unclear>>

(* A notifier loses its proof or is disabled, or proves itself again. *)
ChangeStatus(n, status) ==
    /\ target[n] # NoTarget /\ target[n].status # status
    /\ target' = [target EXCEPT ![n].status = status]
    /\ UNCHANGED <<edit, linked, run, work, got, unclear>>

(* The schema keeps a notifier that an event uses. *)
DeleteNotifier(n) ==
    /\ target[n] # NoTarget /\ n \notin linked
    /\ target' = [target EXCEPT ![n] = NoTarget]
    /\ UNCHANGED <<edit, linked, run, work, got, unclear>>

-----------------------------------------------------------------------------
(* Sending.  "accepted": it arrived, and the answer says so; "garbled": it   *)
(* arrived, and the answer cannot be read; "lost": it arrived, and no answer *)
(* came; "refused": it did not arrive.                                       *)

Answers == {"accepted", "garbled", "lost", "refused"}
Arrived(answer) == answer # "refused"

(* The status decides, and the body is thrown away. *)
SendWebhook(answer) == answer \in {"accepted", "garbled"}

(* The body decides: without a readable ok it is an error. *)
SendTelegram(answer) == answer = "accepted"

(* The status decides; an unreadable body costs the message id only. *)
SendSMS(answer) == answer \in {"accepted", "garbled"}

SendEmail(answer) == answer = "accepted"

Send(kind, answer) ==
    CASE kind = "webhook" -> SendWebhook(answer)
      [] kind = "telegram" -> SendTelegram(answer)
      [] kind = "sms" -> SendSMS(answer)
      [] kind = "email" -> SendEmail(answer)

(* Without its tokens, account or host a channel reports an error before it  *)
(* calls anybody; a webhook needs none.  Secrets that cannot be decrypted    *)
(* are missing as well.                                                       *)
Callable(row) == row.status = "verified" /\ row.complete

-----------------------------------------------------------------------------
(* The run. *)

Schedule ==
    /\ run.status = "none" /\ linked # {}
    /\ run' = [run EXCEPT !.status = "pending"]
    /\ UNCHANGED <<target, edit, linked, work, got, unclear>>

Rows == {[id |-> n, row |-> target[n]] : n \in linked}

(* The rows it needs are loaded and the attempt begins; when one cannot be   *)
(* loaded, the run fails for good.                                           *)
Attempt(attempt) ==
    \/ /\ run' = [status |-> "running", attempt |-> attempt, loaded |-> TRUE]
       /\ work' = [Idle EXCEPT !.at = "sending", !.left = Rows, !.total = linked]
    \/ /\ run' = [status |-> "failed", attempt |-> attempt, loaded |-> FALSE]
       /\ UNCHANGED work

Begin ==
    /\ run.status = "pending"
    /\ Attempt(run.attempt + 1)
    /\ UNCHANGED <<target, edit, linked, got, unclear>>

(* One target after the other, as it was read at the beginning. *)
SendNext(x, answer) ==
    LET arrives == Callable(x.row) /\ Arrived(answer)
        sent == Callable(x.row) /\ Send(x.row.kind, answer)
        count(tally, yes) == IF yes THEN [tally EXCEPT ![x.id] = @ + 1] ELSE tally
    IN
    /\ x \in work.left
    /\ work' = [work EXCEPT !.left = @ \ {x},
                            !.failures = IF sent THEN @ ELSE @ \cup {x.id}]
    /\ got' = count(got, arrives)
    /\ unclear' = count(unclear, arrives /\ ~sent)
    /\ UNCHANGED <<target, edit, linked, run>>

(* Mutant: one destination that failed fails the attempt. *)
AnyErr(failures, total) == failures # {}

(* Every destination failing is a failed attempt. *)
ExecErr(failures, total) == failures = total

(* writeDeliveries and the outcome.  When it cannot be saved, the row stays  *)
(* running, which nobody claims again.                                       *)
Settle ==
    LET status == IF ~ExecErr(work.failures, work.total) THEN "succeeded"
                  ELSE IF run.attempt < MaxAttempts THEN "pending" ELSE "failed"
    IN
    /\ work.at = "sending" /\ work.left = {}
    /\ run' = [run EXCEPT !.status = status] \/ UNCHANGED run
    /\ work' = Idle
    /\ UNCHANGED <<target, edit, linked, got, unclear>>

Crash ==
    /\ work # Idle
    /\ work' = Idle
    /\ UNCHANGED <<target, edit, linked, run, got, unclear>>

(* Retry, at rest: the owner asks for the occurrence anew. *)
Retry ==
    /\ run.status \in {"pending", "succeeded", "failed"}
    /\ Attempt(1)
    /\ got' = None /\ unclear' = None
    /\ UNCHANGED <<target, edit, linked>>

Next ==
    \/ \E ids \in SUBSET Targets : CreateEvent(ids) \/ UpdateEvent(ids)
    \/ ReplaceNotifiers
    \/ \E n \in Targets : DeleteNotifier(n) \/ \E s \in {"unproved", "verified"} : ChangeStatus(n, s)
    \/ Schedule \/ Begin \/ Settle \/ Crash \/ Retry
    \/ \E x \in work.left, answer \in Answers : SendNext(x, answer)

DeliverySpec == Init /\ [][Next]_deliveryVars

-----------------------------------------------------------------------------
(* An attempt that failed for one destination and worked for another is not *)
(* made again, so that nobody receives a message twice unless its sending   *)
(* was reported as failed (notify_handler.go 182-190).                      *)
SentOnce == \A n \in Targets : got[n] <= unclear[n] + 1

(* A run that succeeded reached somebody, also when the notifiers changed   *)
(* while it was sending; one that failed reached nobody as far as anybody   *)
(* was told, and used all its attempts, unless something could not be       *)
(* loaded (dispatcher_usecase.go 138-158, 184-206).                         *)
OutcomeIsTrue ==
    /\ run.status = "succeeded" => \E n \in Targets : got[n] > unclear[n]
    /\ run.status = "failed" =>
        /\ \A n \in Targets : got[n] <= unclear[n]
        /\ run.attempt = MaxAttempts \/ ~run.loaded
=============================================================================
