---------------------------- MODULE RunLifecycle ----------------------------
(***************************************************************************)
(* What the run queue promises about a run, whatever the processes behind  *)
(* it do: the life of its status, when its handler's effect may take       *)
(* place, and which run may come after it.                                 *)
(*                                                                         *)
(* The effect takes place at most once, and a settled status tells the     *)
(* truth about it: a succeeded run had its effect, a failed, cancelled or  *)
(* queued one had not.  A run of a chain comes into being only after its   *)
(* predecessor had its effect.                                             *)
(***************************************************************************)
EXTENDS Naturals

CONSTANTS
  Run,       \* every run there may be
  First,     \* those the pipeline schedules
  Manual,    \* those a user fires by hand
  Successor  \* pairs <<r, s>> of runs where s repeats r

VARIABLES
  status,    \* the status of each run
  sent       \* how often its handler's effect took place

vars == <<status, sent>>

Status == {"absent", "pending", "running", "succeeded", "failed", "cancelled",
           "orphaned"}

Init ==
  /\ status = [r \in Run |-> "absent"]
  /\ sent = [r \in Run |-> 0]

Become(r, s) == status' = [status EXCEPT ![r] = s]

Schedule(r) ==
  /\ r \in First /\ status[r] = "absent"
  /\ Become(r, "pending") /\ UNCHANGED sent

Fire(r) ==
  /\ r \in Manual /\ status[r] = "absent"
  /\ Become(r, "running") /\ UNCHANGED sent

\* Some pending runs start together, or are cancelled together.
Turn(s) ==
  /\ \E R \in SUBSET {r \in Run : status[r] = "pending"} :
       status' = [r \in Run |-> IF r \in R THEN s ELSE status[r]]
  /\ UNCHANGED sent

Send(r) ==
  /\ status[r] \in {"running", "orphaned"} /\ sent[r] = 0
  /\ sent' = [sent EXCEPT ![r] = 1] /\ UNCHANGED status

\* The outcome is recorded.  An orphan's is too, when its event came back.
Succeed(r) ==
  /\ status[r] \in {"running", "orphaned"} /\ sent[r] = 1
  /\ Become(r, "succeeded") /\ UNCHANGED sent

Retreat(r) ==
  /\ status[r] \in {"running", "orphaned"} /\ sent[r] = 0
  /\ \E s \in {"pending", "failed"} : Become(r, s)
  /\ UNCHANGED sent

Follow(r, s) ==
  /\ sent[r] = 1 /\ status[s] = "absent"
  /\ Become(s, "pending") /\ UNCHANGED sent

\* Runs are deleted together; one in flight is orphaned until it ends.
Delete ==
  /\ status' \in [Run -> Status]
  /\ \A r \in Run :
       \/ status'[r] \in {status[r], "absent"}
       \/ status[r] = "running" /\ status'[r] = "orphaned"
  /\ UNCHANGED sent

\* Orphans end, one by one or all those of a process that stops.
End ==
  /\ \E R \in SUBSET {r \in Run : status[r] = "orphaned"} :
       status' = [r \in Run |-> IF r \in R THEN "absent" ELSE status[r]]
  /\ UNCHANGED sent

Next ==
  \/ Delete \/ End
  \/ Turn("running") \/ Turn("cancelled")
  \/ \E r \in Run : Schedule(r) \/ Fire(r) \/ Send(r) \/ Succeed(r) \/ Retreat(r)
  \/ \E x \in Successor : Follow(x[1], x[2])

Spec == Init /\ [][Next]_vars
=============================================================================
