-------------------------- MODULE DeliveringProofs --------------------------
(***************************************************************************)
(* Proofs about Delivering, for any notifiers and any number of attempts:    *)
(* nobody is sent a message twice, and the outcome recorded of a run is what  *)
(* became of its messages.                                                    *)
(***************************************************************************)
EXTENDS Delivering, TLAPS

Row == Target \cup {NoTarget}

Pending == [id : Targets, row : Row]

DeliveryTyped ==
    /\ target \in [Targets -> Row] /\ edit \subseteq Targets /\ linked \subseteq Targets
    /\ run.attempt \in Nat /\ run.status \in Status
    /\ run = [status |-> run.status, attempt |-> run.attempt, loaded |-> run.loaded]
    /\ work.at \in {"idle", "sending"}
    /\ work = [at |-> work.at, left |-> work.left, failures |-> work.failures, total |-> work.total]
    /\ work.left \subseteq Pending /\ work.total \subseteq Targets
    /\ got \in [Targets -> Nat] /\ unclear \in [Targets -> Nat]

(* The attempt in progress has still to call n. *)
Awaits(n) == \E x \in work.left : x.id = n

(* Every message but the last was reported as failed, and it too unless the  *)
(* attempt in progress got through to n.                                      *)
Settled(n) == got[n] = unclear[n]
Reached(n) == got[n] = unclear[n] + 1

AttemptInv ==
    /\ run.status = "running" /\ work.total # {} /\ work.failures \subseteq work.total
    /\ \A x, y \in work.left : x.id = y.id => x = y
    /\ \A x \in work.left : x.id \in work.total /\ x.id \notin work.failures
    /\ \A n \in Targets : IF n \in work.total /\ ~Awaits(n) /\ n \notin work.failures
                          THEN Reached(n) ELSE Settled(n)

RunInv ==
    /\ run.attempt <= MaxAttempts
    /\ run.status # "none" => linked # {}
    /\ run.status = "pending" => run.attempt < MaxAttempts
    /\ run.status = "none" => run.attempt = 0
    /\ run.status = "failed" => run.attempt = MaxAttempts \/ ~run.loaded
    /\ run.status \in {"none", "pending", "failed"} => \A n \in Targets : Settled(n)
    /\ run.status = "succeeded" => \E n \in Targets : Reached(n)
    /\ \A n \in Targets : Settled(n) \/ Reached(n)

DeliveryInv ==
    /\ DeliveryTyped /\ RunInv
    /\ work.left # {} => work.at = "sending"
    /\ work.at = "sending" => AttemptInv

-----------------------------------------------------------------------------
LEMMA IdleFields == Idle.at = "idle" /\ Idle.left = {} /\ Idle.failures = {} /\ Idle.total = {}
BY DEF Idle

LEMMA NoneFields == None \in [Targets -> Nat] /\ \A n \in Targets : None[n] = 0
BY DEF None

(* A channel reports success only for a message that arrived. *)
LEMMA SentArrives ==
  ASSUME NEW row \in Row, NEW answer \in Answers, Callable(row), Send(row.kind, answer)
  PROVE  Arrived(answer)
<1>1. row \in Target BY DEF Row, Callable, NoTarget
<1>2. row.kind \in Kinds BY <1>1 DEF Target
<1>3. QED BY <1>2 DEF Kinds, Send, SendWebhook, SendTelegram, SendSMS, SendEmail, Answers, Arrived

(* What leaves the attempt, the run and the tallies alone. *)
LEMMA SameRun ==
  ASSUME DeliveryInv, UNCHANGED <<run, work, got, unclear>>,
         target' \in [Targets -> Row], edit' \subseteq Targets, linked' \subseteq Targets,
         linked # {} => linked' # {}
  PROVE  DeliveryInv'
<1>1. DeliveryTyped' BY DEF DeliveryInv, DeliveryTyped
<1>2. RunInv' BY DEF DeliveryInv, RunInv, Settled, Reached
<1>3. AttemptInv => AttemptInv' BY DEF AttemptInv, Awaits, Settled, Reached
<1>4. QED BY <1>1, <1>2, <1>3 DEF DeliveryInv

LEMMA InitDelivery == MaxAttempts \in Nat \ {0} /\ Init => DeliveryInv
<1> SUFFICES ASSUME MaxAttempts \in Nat \ {0}, Init PROVE DeliveryInv
  OBVIOUS
<1>1. /\ run.status = "none" /\ run.attempt = 0 /\ work = Idle
      /\ run = [status |-> run.status, attempt |-> run.attempt, loaded |-> run.loaded]
  BY DEF Init
<1>2. target \in [Targets -> Row] BY DEF Init, Row
<1>3. \A n \in Targets : Settled(n) BY NoneFields DEF Init, Settled
<1>4. DeliveryTyped
  <2>1. work = [at |-> work.at, left |-> work.left, failures |-> work.failures, total |-> work.total]
    BY <1>1 DEF Idle
  <2>2. QED BY <1>1, <1>2, <2>1, IdleFields, NoneFields DEF Init, DeliveryTyped, Status
<1>5. RunInv BY <1>1, <1>3 DEF RunInv
<1>6. QED BY <1>1, <1>4, <1>5, IdleFields DEF DeliveryInv

LEMMA BuildingKeeps ==
  ASSUME DeliveryInv,
         \/ \E ids \in SUBSET Targets : CreateEvent(ids) \/ UpdateEvent(ids)
         \/ ReplaceNotifiers
         \/ \E n \in Targets : DeleteNotifier(n) \/ \E s \in {"unproved", "verified"} : ChangeStatus(n, s)
  PROVE  DeliveryInv'
<1>0. target \in [Targets -> Row] /\ edit \subseteq Targets /\ linked \subseteq Targets
  BY DEF DeliveryInv, DeliveryTyped
<1>1. CASE \E ids \in SUBSET Targets : CreateEvent(ids) \/ UpdateEvent(ids)
  <2>1. edit' \subseteq Targets /\ UNCHANGED <<target, linked, run, work, got, unclear>>
    BY <1>1 DEF CreateEvent, UpdateEvent, AttachNotifiers
  <2>2. QED BY <1>0, <2>1, SameRun
<1>2. CASE ReplaceNotifiers
  <2>1. /\ edit' \subseteq Targets /\ linked' \subseteq Targets /\ (linked # {} => linked' # {})
        /\ UNCHANGED <<target, run, work, got, unclear>>
    BY <1>0, <1>2 DEF ReplaceNotifiers
  <2>2. QED BY <1>0, <2>1, SameRun
<1>3. CASE \E n \in Targets : DeleteNotifier(n)
  <2>1. target' \in [Targets -> Row] /\ UNCHANGED <<edit, linked, run, work, got, unclear>>
    BY <1>0, <1>3 DEF DeleteNotifier, Row
  <2>2. QED BY <1>0, <2>1, SameRun
<1>4. CASE \E n \in Targets, s \in {"unproved", "verified"} : ChangeStatus(n, s)
  <2>1. PICK n \in Targets, s \in {"unproved", "verified"} : ChangeStatus(n, s) BY <1>4
  <2>2. target[n] \in Target BY <1>0, <2>1 DEF ChangeStatus, Row
  <2>3. [target[n] EXCEPT !.status = s] \in Target BY <2>2 DEF Target
  <2>4. target' = [target EXCEPT ![n] = [target[n] EXCEPT !.status = s]] BY <2>1 DEF ChangeStatus
  <2>5. target' \in [Targets -> Row] BY <1>0, <2>3, <2>4 DEF Row
  <2>6. UNCHANGED <<edit, linked, run, work, got, unclear>> BY <2>1 DEF ChangeStatus
  <2>7. QED BY <1>0, <2>5, <2>6, SameRun
<1>5. QED BY <1>1, <1>2, <1>3, <1>4

(* A new attempt, from tallies that are even. *)
LEMMA AttemptKeeps ==
  ASSUME MaxAttempts \in Nat \ {0}, DeliveryInv, linked # {}, NEW k \in 1..MaxAttempts, Attempt(k),
         work.at # "sending", UNCHANGED <<target, edit, linked>>,
         got' \in [Targets -> Nat], unclear' \in [Targets -> Nat], \A n \in Targets : got'[n] = unclear'[n]
  PROVE  DeliveryInv'
<1>0. target \in [Targets -> Row] /\ edit \subseteq Targets /\ linked \subseteq Targets
  BY DEF DeliveryInv, DeliveryTyped
<1>1. \A n \in Targets : Settled(n)' BY DEF Settled
<1>2. CASE /\ run' = [status |-> "running", attempt |-> k, loaded |-> TRUE]
           /\ work' = [Idle EXCEPT !.at = "sending", !.left = Rows, !.total = linked]
  <2>1. work' = [at |-> "sending", left |-> Rows, failures |-> {}, total |-> linked]
    BY <1>2 DEF Idle
  <2>2. /\ work'.at = "sending" /\ work'.left = Rows /\ work'.failures = {} /\ work'.total = linked
        /\ run'.status = "running" /\ run'.attempt = k
    <3>1. work'.at = "sending" /\ work'.left = Rows BY <2>1
    <3>2. work'.failures = {} /\ work'.total = linked BY <2>1
    <3>3. run'.status = "running" /\ run'.attempt = k BY <1>2
    <3>4. QED BY <3>1, <3>2, <3>3
  <2>3. Rows \subseteq Pending BY <1>0 DEF Rows, Pending
  <2>4. \A x, y \in Rows : x.id = y.id => x = y BY DEF Rows
  <2>5. /\ \A x \in Rows : x.id \in linked
        /\ \A n \in linked : \E x \in Rows : x.id = n
    <3>1. \A x \in Rows : x.id \in linked BY DEF Rows
    <3>2. ASSUME NEW n \in linked PROVE \E x \in Rows : x.id = n
      <4>1. [id |-> n, row |-> target[n]] \in Rows BY DEF Rows
      <4>2. [id |-> n, row |-> target[n]].id = n OBVIOUS
      <4>3. QED BY <4>1, <4>2
    <3>3. QED BY <3>1, <3>2
  <2>6. DeliveryTyped'
    <3>1. /\ run' = [status |-> run'.status, attempt |-> run'.attempt, loaded |-> run'.loaded]
          /\ run'.status \in Status /\ run'.attempt \in Nat
      BY <1>2, <2>2 DEF Status
    <3>2. /\ work'.at \in {"idle", "sending"}
          /\ work' = [at |-> work'.at, left |-> work'.left, failures |-> work'.failures, total |-> work'.total]
          /\ work'.left \subseteq Pending /\ work'.total \subseteq Targets
      BY <1>0, <2>1, <2>2, <2>3
    <3>3. QED BY <1>0, <3>1, <3>2 DEF DeliveryTyped
  <2>7. RunInv' BY <1>1, <2>2 DEF RunInv
  <2>8. AttemptInv'
    <3>1. \A n \in Targets : n \in linked => Awaits(n)' BY <2>2, <2>5 DEF Awaits
    <3>2. work'.failures \subseteq work'.total BY <2>2
    <3>3. \A x, y \in work'.left : x.id = y.id => x = y BY <2>2, <2>4
    <3>4. \A x \in work'.left : x.id \in work'.total /\ x.id \notin work'.failures
      BY <2>2, <2>5
    <3>5. \A n \in Targets : IF n \in work'.total /\ ~Awaits(n)' /\ n \notin work'.failures
                              THEN Reached(n)' ELSE Settled(n)'
      BY <1>1, <2>2, <3>1
    <3>6. work'.total # {} /\ run'.status = "running" BY <2>2
    <3>7. QED BY <3>2, <3>3, <3>4, <3>5, <3>6 DEF AttemptInv
  <2>9. QED BY <2>2, <2>6, <2>7, <2>8 DEF DeliveryInv
<1>3. CASE run' = [status |-> "failed", attempt |-> k, loaded |-> FALSE] /\ UNCHANGED work
  <2>1. /\ run'.status = "failed" /\ run'.attempt = k /\ run'.loaded = FALSE /\ run'.attempt \in Nat
        /\ run' = [status |-> run'.status, attempt |-> run'.attempt, loaded |-> run'.loaded]
    BY <1>3
  <2>2. DeliveryTyped' BY <1>0, <1>3, <2>1 DEF DeliveryInv, DeliveryTyped, Status
  <2>3. RunInv' BY <1>1, <2>1 DEF RunInv
  <2>4. QED BY <1>3, <2>2, <2>3 DEF DeliveryInv
<1>4. QED BY <1>2, <1>3 DEF Attempt

-----------------------------------------------------------------------------
(* The first attempt after the schedule, and the one after a failed attempt. *)
LEMMA BeginKeeps ==
  ASSUME MaxAttempts \in Nat \ {0}, DeliveryInv, Begin
  PROVE  DeliveryInv'
<1>1. run.status = "pending" /\ Attempt(run.attempt + 1) /\ UNCHANGED <<target, edit, linked, got, unclear>>
  BY DEF Begin
<1>2. work.at # "sending" BY <1>1 DEF DeliveryInv, AttemptInv
<1>3. linked # {} /\ (\A n \in Targets : Settled(n)) BY <1>1 DEF DeliveryInv, RunInv
<1>4. run.attempt + 1 \in 1..MaxAttempts BY <1>1 DEF DeliveryInv, RunInv, DeliveryTyped
<1>5. got' \in [Targets -> Nat] /\ unclear' \in [Targets -> Nat] BY <1>1 DEF DeliveryInv, DeliveryTyped
<1>6. \A n \in Targets : got'[n] = unclear'[n] BY <1>1, <1>3 DEF Settled
<1>7. QED BY <1>1, <1>2, <1>3, <1>4, <1>5, <1>6, AttemptKeeps

(* A retry begins with fresh tallies, and only at rest. *)
LEMMA RetryKeeps ==
  ASSUME MaxAttempts \in Nat \ {0}, DeliveryInv, Retry
  PROVE  DeliveryInv'
<1>1. /\ run.status \in {"pending", "succeeded", "failed"} /\ Attempt(1)
      /\ got' = None /\ unclear' = None /\ UNCHANGED <<target, edit, linked>>
  BY DEF Retry
<1>2. work.at # "sending" BY <1>1 DEF DeliveryInv, AttemptInv
<1>3. linked # {} BY <1>1 DEF DeliveryInv, RunInv
<1>4. 1 \in 1..MaxAttempts OBVIOUS
<1>5. got' \in [Targets -> Nat] /\ unclear' \in [Targets -> Nat] BY <1>1, NoneFields
<1>6. \A n \in Targets : got'[n] = unclear'[n] BY <1>1
<1>7. QED BY <1>1, <1>2, <1>3, <1>4, <1>5, <1>6, AttemptKeeps

LEMMA ScheduleKeeps ==
  ASSUME MaxAttempts \in Nat \ {0}, DeliveryInv, Schedule
  PROVE  DeliveryInv'
<1>1. /\ run.status = "none" /\ linked # {} /\ run' = [run EXCEPT !.status = "pending"]
      /\ UNCHANGED <<target, edit, linked, work, got, unclear>>
  BY DEF Schedule
<1>2. run = [status |-> run.status, attempt |-> run.attempt, loaded |-> run.loaded]
  BY DEF DeliveryInv, DeliveryTyped
<1>3. run' = [status |-> "pending", attempt |-> run.attempt, loaded |-> run.loaded]
  BY <1>1, <1>2
<1>4. run'.status = "pending" /\ run'.attempt = run.attempt /\ run'.loaded = run.loaded
  BY <1>3
<1>5. DeliveryTyped' BY <1>1, <1>3, <1>4 DEF DeliveryInv, DeliveryTyped, Status
<1>6. RunInv' BY <1>1, <1>4 DEF DeliveryInv, RunInv, Settled, Reached
<1>7. work.at # "sending" BY <1>1 DEF DeliveryInv, AttemptInv
<1>8. QED BY <1>1, <1>5, <1>6, <1>7 DEF DeliveryInv

(* An attempt that is lost leaves the row running: nothing more is sent. *)
LEMMA CrashKeeps ==
  ASSUME DeliveryInv, Crash
  PROVE  DeliveryInv'
<1>1. work' = Idle /\ UNCHANGED <<target, edit, linked, run, got, unclear>> BY DEF Crash
<1>2. work'.at = "idle" /\ work'.left = {} /\ work'.total = {} BY <1>1, IdleFields
<1>3. work' = [at |-> work'.at, left |-> work'.left, failures |-> work'.failures, total |-> work'.total]
  BY <1>1 DEF Idle
<1>4. DeliveryTyped' BY <1>1, <1>2, <1>3 DEF DeliveryInv, DeliveryTyped
<1>5. RunInv' BY <1>1 DEF DeliveryInv, RunInv, Settled, Reached
<1>6. QED BY <1>2, <1>4, <1>5 DEF DeliveryInv

(* The outcome: only when every destination failed was nobody reached. *)
LEMMA SettleKeeps ==
  ASSUME MaxAttempts \in Nat \ {0}, DeliveryInv, Settle
  PROVE  DeliveryInv'
<1> DEFINE status == IF ~ExecErr(work.failures, work.total) THEN "succeeded"
                     ELSE IF run.attempt < MaxAttempts THEN "pending" ELSE "failed"
<1>1. /\ work.at = "sending" /\ work.left = {}
      /\ run' = [run EXCEPT !.status = status] \/ UNCHANGED run
      /\ work' = Idle /\ UNCHANGED <<target, edit, linked, got, unclear>>
  BY DEF Settle
<1>2. work'.at = "idle" /\ work'.left = {} /\ work'.total = {} BY <1>1, IdleFields
<1>3. work' = [at |-> work'.at, left |-> work'.left, failures |-> work'.failures, total |-> work'.total]
  BY <1>1 DEF Idle
<1>4. /\ run = [status |-> run.status, attempt |-> run.attempt, loaded |-> run.loaded]
      /\ run.attempt \in Nat /\ run.attempt <= MaxAttempts
  BY DEF DeliveryInv, DeliveryTyped, RunInv
<1>5. AttemptInv BY <1>1 DEF DeliveryInv
<1>6. linked # {} BY <1>5 DEF DeliveryInv, RunInv, AttemptInv
<1>7. \A n \in Targets : ~Awaits(n) BY <1>1 DEF Awaits
<1>8. ExecErr(work.failures, work.total) => \A n \in Targets : Settled(n)
  BY <1>5 DEF AttemptInv, ExecErr
<1>9. ~ExecErr(work.failures, work.total) => \E n \in Targets : Reached(n)
  <2>1. SUFFICES ASSUME work.failures # work.total PROVE \E n \in Targets : Reached(n)
    BY DEF ExecErr
  <2>2. work.failures \subseteq work.total /\ work.total \subseteq Targets
    BY <1>5 DEF AttemptInv, DeliveryInv, DeliveryTyped
  <2>3. PICK n \in work.total : n \notin work.failures BY <2>1, <2>2
  <2>4. n \in Targets BY <2>2
  <2>5. Reached(n) BY <1>5, <1>7, <2>3, <2>4 DEF AttemptInv
  <2>6. QED BY <2>4, <2>5
<1>10. \A n \in Targets : Settled(n) \/ Reached(n) BY DEF DeliveryInv, RunInv
<1>11. \A n \in Targets : (Settled(n)' <=> Settled(n)) /\ (Reached(n)' <=> Reached(n))
  BY <1>1 DEF Settled, Reached
<1>12. CASE UNCHANGED run
  <2>1. DeliveryTyped' BY <1>1, <1>2, <1>3, <1>12 DEF DeliveryInv, DeliveryTyped
  <2>2. RunInv' BY <1>1, <1>12 DEF DeliveryInv, RunInv, Settled, Reached
  <2>3. QED BY <1>2, <2>1, <2>2 DEF DeliveryInv
<1>13. CASE run' = [run EXCEPT !.status = status]
  <2>1. status \in {"succeeded", "pending", "failed"} OBVIOUS
  <2>2. /\ status = "succeeded" => ~ExecErr(work.failures, work.total)
        /\ status # "succeeded" => ExecErr(work.failures, work.total)
        /\ status = "pending" => run.attempt < MaxAttempts
        /\ status = "failed" => ~(run.attempt < MaxAttempts)
    OBVIOUS
  <2> HIDE DEF status
  <2>3. run' = [status |-> status, attempt |-> run.attempt, loaded |-> run.loaded]
    BY <1>4, <1>13
  <2>4. run'.status = status /\ run'.attempt = run.attempt BY <2>3
  <2>5. DeliveryTyped'
    <3>1. run' = [status |-> run'.status, attempt |-> run'.attempt, loaded |-> run'.loaded]
          /\ run'.status \in Status /\ run'.attempt \in Nat
      BY <1>4, <2>1, <2>3, <2>4 DEF Status
    <3>2. QED BY <1>1, <1>2, <1>3, <3>1 DEF DeliveryInv, DeliveryTyped
  <2>6. RunInv'
    <3>1. /\ status = "pending" => run.attempt < MaxAttempts
          /\ status = "failed" => run.attempt = MaxAttempts
      BY <1>4, <2>2
    <3>2. status \in {"pending", "failed"} => \A n \in Targets : Settled(n)' BY <1>8, <1>11, <2>2
    <3>3. status = "succeeded" => \E n \in Targets : Reached(n)' BY <1>9, <1>11, <2>2
    <3>4. \A n \in Targets : Settled(n)' \/ Reached(n)' BY <1>10, <1>11
    <3>5. linked' # {} BY <1>1, <1>6
    <3>6. QED BY <1>4, <2>1, <2>4, <3>1, <3>2, <3>3, <3>4, <3>5 DEF RunInv
  <2>7. QED BY <1>2, <2>5, <2>6 DEF DeliveryInv
<1>14. QED BY <1>1, <1>12, <1>13

-----------------------------------------------------------------------------
(* One message: it is counted where it arrived, and the destination is either *)
(* reached or a failure from then on.                                         *)
LEMMA SendKeeps ==
  ASSUME DeliveryInv, NEW x \in work.left, NEW answer \in Answers, SendNext(x, answer)
  PROVE  DeliveryInv'
<1> DEFINE arrives == Callable(x.row) /\ Arrived(answer)
           sent == Callable(x.row) /\ Send(x.row.kind, answer)
           failed == IF sent THEN work.failures ELSE work.failures \cup {x.id}
<1>0. /\ work' = [work EXCEPT !.left = @ \ {x}, !.failures = IF sent THEN @ ELSE @ \cup {x.id}]
      /\ got' = (IF arrives THEN [got EXCEPT ![x.id] = @ + 1] ELSE got)
      /\ unclear' = (IF arrives /\ ~sent THEN [unclear EXCEPT ![x.id] = @ + 1] ELSE unclear)
      /\ UNCHANGED <<target, edit, linked, run>>
  BY DEF SendNext
<1>1. work.at = "sending" /\ AttemptInv BY DEF DeliveryInv
<1>2. /\ work = [at |-> work.at, left |-> work.left, failures |-> work.failures, total |-> work.total]
      /\ work.left \subseteq Pending /\ work.total \subseteq Targets
      /\ got \in [Targets -> Nat] /\ unclear \in [Targets -> Nat]
  BY DEF DeliveryInv, DeliveryTyped
<1>3. x.id \in Targets /\ x.row \in Row BY <1>2 DEF Pending
<1>4. sent => arrives BY <1>3, SentArrives
<1>5. (sent => failed = work.failures) /\ (~sent => failed = work.failures \cup {x.id}) OBVIOUS
<1>6. PICK m : m = x.id OBVIOUS
<1>7. m \in Targets BY <1>3, <1>6
<1>8. got' \in [Targets -> Nat] /\ unclear' \in [Targets -> Nat]
  BY <1>0, <1>2, <1>3
<1>9. \A n \in Targets : n # m => got'[n] = got[n] /\ unclear'[n] = unclear[n]
  BY <1>0, <1>2, <1>6
<1>10. /\ sent => got'[m] = got[m] + 1 /\ unclear'[m] = unclear[m]
       /\ ~sent /\ arrives => got'[m] = got[m] + 1 /\ unclear'[m] = unclear[m] + 1
       /\ ~arrives => got'[m] = got[m] /\ unclear'[m] = unclear[m]
  BY <1>0, <1>2, <1>4, <1>6, <1>7
<1>11. work' = [at |-> work.at, left |-> work.left \ {x}, failures |-> failed, total |-> work.total]
  <2>1. PICK w : w = work OBVIOUS
  <2>2. work' = [w EXCEPT !.left = w.left \ {x}, !.failures = failed] BY <1>0, <2>1
  <2>3. w = [at |-> w.at, left |-> w.left, failures |-> w.failures, total |-> w.total] BY <1>2, <2>1
  <2> HIDE DEF failed
  <2>4. work' = [at |-> w.at, left |-> w.left \ {x}, failures |-> failed, total |-> w.total]
    BY <2>2, <2>3
  <2>5. QED BY <2>1, <2>4
<1> HIDE DEF arrives, sent, failed
<1>12. work'.at = "sending" /\ work'.left = work.left \ {x} BY <1>1, <1>11
<1>13. work'.failures = failed /\ work'.total = work.total BY <1>11
<1>14. DeliveryTyped'
  <2>1. work' = [at |-> work'.at, left |-> work'.left, failures |-> work'.failures, total |-> work'.total]
    BY <1>11, <1>12, <1>13
  <2>2. work'.left \subseteq Pending /\ work'.total \subseteq Targets BY <1>2, <1>12, <1>13
  <2>3. QED BY <1>0, <1>8, <1>12, <2>1, <2>2 DEF DeliveryInv, DeliveryTyped
<1>15. /\ work.failures \subseteq work.total /\ work.total # {} /\ run.status = "running"
       /\ \A y, z \in work.left : y.id = z.id => y = z
       /\ \A y \in work.left : y.id \in work.total /\ y.id \notin work.failures
  BY <1>1 DEF AttemptInv
<1>16. \A n \in Targets : n # m => (Awaits(n)' <=> Awaits(n)) /\ (n \in work'.failures <=> n \in work.failures)
  <2>1. \A n : n # m => (n \in failed <=> n \in work.failures) BY <1>5, <1>6
  <2>2. ASSUME NEW n \in Targets, n # m PROVE Awaits(n)' <=> Awaits(n)
    <3>1. \A y \in work.left : y.id = n => y \in work.left \ {x} BY <1>6, <2>2
    <3>2. QED BY <1>12, <3>1 DEF Awaits
  <2>3. QED BY <1>13, <2>1, <2>2
<1>17. Awaits(m) /\ ~Awaits(m)'
  <2>1. Awaits(m) BY <1>6 DEF Awaits
  <2>2. \A y \in work.left \ {x} : y.id # m BY <1>6, <1>15
  <2>3. QED BY <1>12, <2>1, <2>2 DEF Awaits
<1>18. m \in work.total /\ m \notin work.failures BY <1>6, <1>15
<1>19. (sent => m \notin work'.failures) /\ (~sent => m \in work'.failures)
  BY <1>5, <1>6, <1>13, <1>18
<1>20. \A n \in Targets : IF n \in work.total /\ ~Awaits(n) /\ n \notin work.failures
                          THEN Reached(n) ELSE Settled(n)
  BY <1>1 DEF AttemptInv
<1>21. Settled(m) BY <1>7, <1>17, <1>20
<1>22. got[m] \in Nat /\ unclear[m] \in Nat BY <1>2, <1>7
<1>23. sent => Reached(m)' BY <1>10, <1>21, <1>22 DEF Settled, Reached
<1>24. ~sent => Settled(m)' BY <1>10, <1>21, <1>22 DEF Settled
<1>25. \A n \in Targets : n # m => (Settled(n)' <=> Settled(n)) /\ (Reached(n)' <=> Reached(n))
  BY <1>9 DEF Settled, Reached
<1>26. \A n \in Targets : IF n \in work'.total /\ ~Awaits(n)' /\ n \notin work'.failures
                          THEN Reached(n)' ELSE Settled(n)'
  <2>1. TAKE n \in Targets
  <2>2. CASE n = m BY <1>13, <1>17, <1>18, <1>19, <1>23, <1>24, <2>2
  <2>3. CASE n # m BY <1>13, <1>16, <1>20, <1>25, <2>3
  <2>4. QED BY <2>2, <2>3
<1>27. AttemptInv'
  <2>1. work'.failures \subseteq work'.total BY <1>5, <1>6, <1>13, <1>15, <1>18
  <2>2. \A y, z \in work'.left : y.id = z.id => y = z BY <1>12, <1>15
  <2>3. \A y \in work'.left : y.id \in work'.total /\ y.id \notin work'.failures
    <3>1. TAKE y \in work'.left
    <3>2. y \in work.left /\ y # x BY <1>12
    <3>3. y.id # m BY <1>6, <1>15, <3>2
    <3>4. QED BY <1>5, <1>6, <1>13, <1>15, <3>2, <3>3
  <2>4. run'.status = "running" /\ work'.total # {} BY <1>0, <1>13, <1>15
  <2>5. QED BY <1>26, <2>1, <2>2, <2>3, <2>4 DEF AttemptInv
<1>28. RunInv'
  <2>1. \A n \in Targets : Settled(n)' \/ Reached(n)' BY <1>26
  <2>2. RunInv /\ UNCHANGED <<run, linked>> BY <1>0 DEF DeliveryInv
  <2>3. QED BY <1>15, <2>1, <2>2 DEF RunInv
<1>29. QED BY <1>12, <1>14, <1>27, <1>28 DEF DeliveryInv

LEMMA NextKeepsDelivery ==
  ASSUME MaxAttempts \in Nat \ {0}, DeliveryInv, [Next]_deliveryVars
  PROVE  DeliveryInv'
<1>1. CASE \/ \E ids \in SUBSET Targets : CreateEvent(ids) \/ UpdateEvent(ids)
           \/ ReplaceNotifiers
           \/ \E n \in Targets : DeleteNotifier(n) \/ \E s \in {"unproved", "verified"} : ChangeStatus(n, s)
  BY <1>1, BuildingKeeps
<1>2. CASE Schedule BY <1>2, ScheduleKeeps
<1>3. CASE Begin BY <1>3, BeginKeeps
<1>4. CASE Settle BY <1>4, SettleKeeps
<1>5. CASE Crash BY <1>5, CrashKeeps
<1>6. CASE Retry BY <1>6, RetryKeeps
<1>7. CASE \E x \in work.left, answer \in Answers : SendNext(x, answer)
  <2>1. PICK x \in work.left, answer \in Answers : SendNext(x, answer) BY <1>7
  <2>2. QED BY <2>1, SendKeeps
<1>8. CASE UNCHANGED deliveryVars
  <2>1. target \in [Targets -> Row] /\ edit \subseteq Targets /\ linked \subseteq Targets
    BY DEF DeliveryInv, DeliveryTyped
  <2>2. UNCHANGED <<target, edit, linked, run, work, got, unclear>> BY <1>8 DEF deliveryVars
  <2>3. QED BY <2>1, <2>2, SameRun
<1>9. QED BY <1>1, <1>2, <1>3, <1>4, <1>5, <1>6, <1>7, <1>8 DEF Next

LEMMA DeliveryMeans ==
  ASSUME DeliveryInv
  PROVE  SentOnce /\ OutcomeIsTrue
<1>1. \A n \in Targets : got[n] \in Nat /\ unclear[n] \in Nat BY DEF DeliveryInv, DeliveryTyped
<1>2. RunInv BY DEF DeliveryInv
<1>3. SentOnce BY <1>1, <1>2 DEF RunInv, SentOnce, Settled, Reached
<1>4. OutcomeIsTrue BY <1>1, <1>2 DEF RunInv, OutcomeIsTrue, Settled, Reached
<1>5. QED BY <1>3, <1>4

LEMMA DeliveryHolds ==
  ASSUME MaxAttempts \in Nat \ {0}
  PROVE  DeliverySpec => []DeliveryInv
<1>1. Init => DeliveryInv BY InitDelivery
<1>2. DeliveryInv /\ [Next]_deliveryVars => DeliveryInv' BY NextKeepsDelivery
<1>3. QED BY <1>1, <1>2, PTL DEF DeliverySpec

(* Nobody receives a message twice unless its sending was reported as failed, *)
(* whatever the notifiers, the answers and the stops: an attempt that worked  *)
(* for one destination is not made again (notify_handler.go 182-190).         *)
THEOREM MessagesAreSentOnce ==
  ASSUME MaxAttempts \in Nat \ {0}
  PROVE  DeliverySpec => []SentOnce
<1>1. DeliverySpec => []DeliveryInv BY DeliveryHolds
<1>2. DeliveryInv => SentOnce BY DeliveryMeans
<1>3. QED BY <1>1, <1>2, PTL

(* A run that succeeded reached somebody, and one that failed reached nobody  *)
(* as far as anybody was told, after all its attempts or without its rows     *)
(* (dispatcher_usecase.go 138-158, 184-206).                                  *)
THEOREM OutcomesAreTrue ==
  ASSUME MaxAttempts \in Nat \ {0}
  PROVE  DeliverySpec => []OutcomeIsTrue
<1>1. DeliverySpec => []DeliveryInv BY DeliveryHolds
<1>2. DeliveryInv => OutcomeIsTrue BY DeliveryMeans
<1>3. QED BY <1>1, <1>2, PTL
=============================================================================
