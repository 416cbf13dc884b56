------------------------- MODULE TokenRefreshProofs -------------------------
(***************************************************************************)
(* Theorems about TokenRefresh, for any processes and any faults.          *)
(***************************************************************************)
EXTENDS TokenRefresh, TLAPS

-----------------------------------------------------------------------------
(* Types.                                                                  *)

LEMMA InitType == Init => TypeOK
<1> SUFFICES ASSUME Init PROVE TypeOK OBVIOUS
<1>1. row \in Row /\ row.grant = 1 /\ issued = 1 /\ aged = 0
  BY DEF Init, Row, Connected
<1>2. NoJob \in Job /\ NoJob.row.grant = 1
  BY DEF NoJob, Connected, Job, Row, Phase
<1>3. job \in [Proc -> Job] /\ \A p \in Proc : job[p].row.grant = 1
  BY <1>2 DEF Init
<1>4. /\ issued \in Nat /\ aged \in 0..issued /\ row.grant \in 1..issued
      /\ \A p \in Proc : job[p].row.grant \in 1..issued
  BY <1>1, <1>3
<1>5. QED BY <1>1, <1>3, <1>4 DEF Init, TypeOK

\* p's job becomes [pc, row r], and no other changes.
Moves(p, pc, r) == job' = [job EXCEPT ![p] = [pc |-> pc, row |-> r]]

LEMMA MovesTo ==
  ASSUME TypeOK, NEW p \in Proc, NEW pc, NEW r, Moves(p, pc, r)
  PROVE  /\ job'[p] = [pc |-> pc, row |-> r]
         /\ \A q \in Proc : q # p => job'[q] = job[q]
BY DEF TypeOK, Moves

LEMMA GoMoves ==
  ASSUME TypeOK, NEW p \in Proc, NEW pc, job' = Go(p, pc)
  PROVE  Moves(p, pc, job[p].row)
<1>1. job[p] \in Job BY DEF TypeOK
<1>2. [job[p] EXCEPT !.pc = pc] = [pc |-> pc, row |-> job[p].row] BY <1>1 DEF Job
<1>3. QED BY <1>2 DEF Go, Moves

LEMMA MovesType ==
  ASSUME TypeOK, NEW p \in Proc, NEW pc \in Phase, NEW r \in Row, Moves(p, pc, r),
         issued' \in Nat, issued <= issued', r.grant \in 1..issued'
  PROVE  job' \in [Proc -> Job] /\ \A q \in Proc : job'[q].row.grant \in 1..issued'
<1>1. [pc |-> pc, row |-> r] \in Job BY DEF Job
<1>2. job' \in [Proc -> Job] BY <1>1 DEF TypeOK, Moves
<1>3. ASSUME NEW q \in Proc PROVE job'[q].row.grant \in 1..issued'
  <2>1. job[q].row.grant \in 1..issued /\ issued \in Nat BY DEF TypeOK
  <2>2. IF q = p THEN job'[q].row = r ELSE job'[q] = job[q]
    BY DEF TypeOK, Moves
  <2>3. QED BY <2>1, <2>2
<1>4. QED BY <1>2, <1>3

\* What p's job becomes.  No step of p but Save and the writes of refresh
\* touches the row, and none but the exchange the newest grant.
LEMMA JobSteps ==
  ASSUME TypeOK, NEW p \in Proc
  PROVE  /\ Read(p) => Moves(p, "read", row)
         /\ Fresh(p) => Moves(p, "done", job[p].row)
         /\ Acquire(p) => Moves(p, "locked", job[p].row)
         /\ Bypass(p) => Moves(p, "locked", job[p].row)
         /\ Contend(p) => Moves(p, "waiting", job[p].row)
         /\ Adopt(p) => Moves(p, "done", Adopted(job[p].row, row))
         /\ GiveUp(p) => Moves(p, "done", job[p].row)
         /\ Recheck(p) => IF NeedsRefresh(row)
                          THEN Moves(p, "exchanging", job[p].row)
                          ELSE Moves(p, "releasing", Adopted(job[p].row, row))
         /\ RecheckFails(p) => Moves(p, "exchanging", job[p].row)
         /\ Exchange(p) => Moves(p, "storing", Renewed(job[p].row))
         /\ Refuse(p) => Moves(p, "parking", [job[p].row EXCEPT !.parked = TRUE])
         /\ Unanswered(p) => Moves(p, "releasing", job[p].row)
         /\ Write(p) => Moves(p, "releasing", job[p].row)
         /\ Unwritten(p) => Moves(p, "releasing", job[p].row)
         /\ Release(p) => Moves(p, "done", job[p].row)
         /\ Unreleased(p) => Moves(p, "done", job[p].row)
         /\ (Save(p) \/ Leave(p) \/ Crash(p)) => Moves(p, "idle", Connected)
<1>1. /\ Read(p) => Moves(p, "read", row)
      /\ Adopt(p) => Moves(p, "done", Adopted(job[p].row, row))
      /\ Exchange(p) => Moves(p, "storing", Renewed(job[p].row))
      /\ Refuse(p) => Moves(p, "parking", [job[p].row EXCEPT !.parked = TRUE])
      /\ (Save(p) \/ Leave(p) \/ Crash(p)) => Moves(p, "idle", Connected)
  BY DEF Moves, GoWith, Read, Adopt, Exchange, Refuse, Save, Leave, Crash, NoJob
<1>2. /\ Fresh(p) => Moves(p, "done", job[p].row)
      /\ Acquire(p) => Moves(p, "locked", job[p].row)
      /\ Bypass(p) => Moves(p, "locked", job[p].row)
      /\ Contend(p) => Moves(p, "waiting", job[p].row)
      /\ GiveUp(p) => Moves(p, "done", job[p].row)
  BY GoMoves DEF Fresh, Acquire, Bypass, Contend, GiveUp
<1>3. /\ RecheckFails(p) => Moves(p, "exchanging", job[p].row)
      /\ Unanswered(p) => Moves(p, "releasing", job[p].row)
      /\ Write(p) => Moves(p, "releasing", job[p].row)
      /\ Unwritten(p) => Moves(p, "releasing", job[p].row)
      /\ Release(p) => Moves(p, "done", job[p].row)
      /\ Unreleased(p) => Moves(p, "done", job[p].row)
  BY GoMoves DEF RecheckFails, Unanswered, Write, Unwritten, Release, Unreleased
<1>4. Recheck(p) => IF NeedsRefresh(row)
                    THEN Moves(p, "exchanging", job[p].row)
                    ELSE Moves(p, "releasing", Adopted(job[p].row, row))
  BY DEF Recheck, Rechecked, Moves
<1>5. QED BY <1>1, <1>2, <1>3, <1>4

LEMMA RowTypes ==
  ASSUME TypeOK, NEW p \in Proc
  PROVE  /\ job[p] \in Job /\ job[p].row \in Row /\ job[p].pc \in Phase
         /\ Adopted(job[p].row, row) \in Row
         /\ Adopted(job[p].row, row).grant = row.grant
         /\ Renewed(job[p].row) \in Row
         /\ Renewed(job[p].row).grant = issued + 1
         /\ \A b \in BOOLEAN : /\ [job[p].row EXCEPT !.parked = b] \in Row
                               /\ [job[p].row EXCEPT !.parked = b].grant = job[p].row.grant
                               /\ [job[p].row EXCEPT !.parked = b].parked = b
         /\ Connected \in Row /\ Connected.grant = 1
<1>1. job[p] \in Job /\ job[p].row \in Row /\ job[p].pc \in Phase BY DEF TypeOK, Job
<1>2. row.grant \in Nat /\ issued \in Nat BY DEF TypeOK, Row
<1>3. QED BY <1>1, <1>2 DEF Row, Adopted, Renewed, Connected

LEMMA NextType == TypeOK /\ [Next]_vars => TypeOK'
<1> SUFFICES ASSUME TypeOK, [Next]_vars PROVE TypeOK'
  OBVIOUS
<1>n. /\ issued \in Nat /\ aged \in Nat /\ aged <= issued /\ row \in Row
      /\ row.grant \in 1..issued /\ faults \in Nat
  BY DEF TypeOK
<1>1. ASSUME NEW p \in Proc, Read(p) PROVE TypeOK'
  <2>1. job' \in [Proc -> Job] /\ \A q \in Proc : job'[q].row.grant \in 1..issued'
    <3>1. Moves(p, "read", row) BY <1>1, JobSteps
    <3>2. issued' = issued BY <1>1 DEF Read, provider
    <3>3. QED BY <3>1, <3>2, <1>n, MovesType DEF Phase
  <2>2. QED BY <1>1, <2>1 DEF Read, TypeOK, provider
\* The steps of Resolve that leave p with the row it has.
<1>2. ASSUME NEW p \in Proc,
             \/ Fresh(p) \/ Acquire(p) \/ Bypass(p) \/ Contend(p) \/ GiveUp(p)
             \/ RecheckFails(p) \/ Release(p) \/ Unreleased(p) \/ Unwritten(p)
      PROVE  TypeOK'
  <2>1. PICK pc \in Phase : Moves(p, pc, job[p].row)
    BY <1>2, JobSteps DEF Phase
  <2>2. UNCHANGED <<row, provider>>
    BY <1>2 DEF Fresh, Acquire, Bypass, Contend, GiveUp, RecheckFails, Release,
                Unreleased, Unwritten
  <2>3. job[p].row.grant \in 1..issued' /\ issued' = issued
    BY <2>2 DEF provider, TypeOK
  <2>4. job' \in [Proc -> Job] /\ \A q \in Proc : job'[q].row.grant \in 1..issued'
    BY <2>1, <2>3, <1>n, MovesType, RowTypes
  <2>5. lock' \in Proc \cup {Free} /\ faults' \in Nat
    BY <1>2, <1>n DEF Fresh, Acquire, Bypass, Contend, GiveUp, RecheckFails, Release,
                Unreleased, Unwritten, Fault, TypeOK
  <2>6. incidents' \subseteq Incident
    BY <1>2 DEF Fresh, Acquire, Bypass, Contend, GiveUp, RecheckFails, Release,
                Unreleased, Unwritten, Note, TypeOK, Incident
  <2>7. QED BY <2>2, <2>4, <2>5, <2>6 DEF TypeOK, provider
<1>3. ASSUME NEW p \in Proc, Adopt(p) \/ Recheck(p) PROVE TypeOK'
  <2>1. PICK pc \in Phase, r \in {job[p].row, Adopted(job[p].row, row)} : Moves(p, pc, r)
    BY <1>3, JobSteps DEF Phase
  <2>2. UNCHANGED <<row, provider, lock, faults, incidents>>
    BY <1>3 DEF Adopt, Recheck
  <2>3. r \in Row /\ r.grant \in 1..issued' /\ issued' = issued
    BY <2>1, <2>2, <1>n, RowTypes DEF provider, TypeOK
  <2>4. job' \in [Proc -> Job] /\ \A q \in Proc : job'[q].row.grant \in 1..issued'
    BY <2>1, <2>3, <1>n, MovesType
  <2>5. QED BY <2>2, <2>4 DEF TypeOK, provider
<1>4. ASSUME NEW p \in Proc, Exchange(p) PROVE TypeOK'
  <2>1. issued' = issued + 1 /\ UNCHANGED <<row, revoked, aged, lock, faults, incidents>>
    BY <1>4 DEF Exchange
  <2>2. Renewed(job[p].row) \in Row /\ Renewed(job[p].row).grant \in 1..issued'
    BY <2>1, <1>n, RowTypes
  <2>3. job' \in [Proc -> Job] /\ \A q \in Proc : job'[q].row.grant \in 1..issued'
    <3>1. Moves(p, "storing", Renewed(job[p].row)) BY <1>4, JobSteps
    <3>2. QED BY <3>1, <2>1, <2>2, <1>n, MovesType DEF Phase
  <2>4. QED BY <2>1, <2>3, <1>n DEF TypeOK
<1>5. ASSUME NEW p \in Proc, Refuse(p) PROVE TypeOK'
  <2>1. UNCHANGED <<row, provider, lock, faults, incidents>> BY <1>5 DEF Refuse
  <2>2. PICK r \in Row : Moves(p, "parking", r) /\ r.grant = job[p].row.grant
    BY <1>5, JobSteps, RowTypes
  <2>3. job' \in [Proc -> Job] /\ \A q \in Proc : job'[q].row.grant \in 1..issued'
    <3>1. issued' = issued /\ r.grant \in 1..issued BY <2>1, <2>2 DEF provider, TypeOK
    <3>2. QED BY <3>1, <2>2, <1>n, MovesType DEF Phase
  <2>4. QED BY <2>1, <2>3 DEF TypeOK, provider
<1>6. ASSUME NEW p \in Proc, Unanswered(p) PROVE TypeOK'
  <2>1. issued' \in Nat /\ issued <= issued' BY <1>6, <1>n DEF Unanswered
  <2>2. UNCHANGED <<row, revoked, aged, lock>> /\ faults' \in Nat
    BY <1>6, <1>n DEF Unanswered, Fault
  <2>2a. incidents' \subseteq Incident
    BY <1>6 DEF Unanswered, Note, TypeOK, Incident
  <2>3. job[p].row \in Row /\ job[p].row.grant \in 1..issued'
    BY <2>1, <1>n, RowTypes DEF TypeOK
  <2>4. job' \in [Proc -> Job] /\ \A q \in Proc : job'[q].row.grant \in 1..issued'
    BY <1>6, <2>1, <2>3, JobSteps, MovesType DEF Phase
  <2>5. QED BY <2>1, <2>2, <2>2a, <2>4, <1>n DEF TypeOK
<1>7. ASSUME NEW p \in Proc, Write(p) PROVE TypeOK'
  <2>1. row' = job[p].row /\ UNCHANGED <<provider, lock, faults, incidents>>
    BY <1>7 DEF Write
  <2>2. job[p].row \in Row /\ job[p].row.grant \in 1..issued'
    BY <2>1, RowTypes DEF provider, TypeOK
  <2>3. job' \in [Proc -> Job] /\ \A q \in Proc : job'[q].row.grant \in 1..issued'
    <3>1. Moves(p, "releasing", job[p].row) BY <1>7, JobSteps
    <3>2. issued' = issued BY <2>1 DEF provider
    <3>3. QED BY <3>1, <3>2, <2>2, <1>n, MovesType DEF Phase
  <2>4. QED BY <2>1, <2>2, <2>3 DEF TypeOK, provider
<1>8. ASSUME NEW p \in Proc, Save(p) \/ Leave(p) \/ Crash(p) PROVE TypeOK'
  <2>1. UNCHANGED <<provider, lock>> BY <1>8 DEF Save, Leave, Crash
  <2>2. job' \in [Proc -> Job] /\ \A q \in Proc : job'[q].row.grant \in 1..issued'
    <3>1. Moves(p, "idle", Connected) BY <1>8, JobSteps
    <3>2. issued' = issued BY <2>1 DEF provider
    <3>3. Connected \in Row /\ Connected.grant \in 1..issued' BY <3>2, <1>n, RowTypes
    <3>4. QED BY <3>1, <3>2, <3>3, <1>n, MovesType DEF Phase
  <2>3. row' \in Row /\ row'.grant \in 1..issued
    <3>1. CASE Save(p)
      <4>1. PICK parked \in {job[p].row.parked, FALSE} :
              row' = [job[p].row EXCEPT !.parked = parked]
        BY <3>1 DEF Save
      <4>2. parked \in BOOLEAN BY RowTypes DEF Row
      <4>3. job[p].row.grant \in 1..issued BY DEF TypeOK
      <4>4. QED BY <4>1, <4>2, <4>3, RowTypes
    <3>2. CASE Leave(p) \/ Crash(p) BY <3>2, <1>n DEF Leave, Crash
    <3>3. QED BY <1>8, <3>1, <3>2
  <2>4. faults' \in Nat /\ incidents' \subseteq Incident
    BY <1>8, <1>n DEF Save, Leave, Crash, Fault, Note, TypeOK, Incident
  <2>5. QED BY <2>1, <2>2, <2>3, <2>4 DEF TypeOK, provider
<1>9. CASE LockExpires
  <2>1. lock' = Free /\ UNCHANGED <<row, provider, job>> BY <1>9 DEF LockExpires
  <2>2. faults' \in Nat BY <1>9, <1>n DEF LockExpires, Fault
  <2>3. incidents' \subseteq Incident BY <1>9 DEF LockExpires, Note, TypeOK, Incident
  <2>4. QED BY <2>1, <2>2, <2>3 DEF TypeOK, provider
<1>10. CASE Age
  <2>1. aged' \in 0..issued /\ UNCHANGED <<row, issued, revoked, lock, job>>
    BY <1>10, <1>n DEF Age
  <2>2. faults' \in Nat BY <1>10, <1>n DEF Age, Fault
  <2>3. incidents' \subseteq Incident BY <1>10 DEF Age, Note, TypeOK, Incident
  <2>4. QED BY <2>1, <2>2, <2>3 DEF TypeOK
<1>11. CASE Withdraw
  BY <1>11, <1>n DEF Withdraw, TypeOK, Fault, Note, Incident
<1>12. CASE UNCHANGED vars BY <1>12 DEF vars, TypeOK
<1>13. QED
  BY <1>1, <1>2, <1>3, <1>4, <1>5, <1>6, <1>7, <1>8, <1>9, <1>10, <1>11, <1>12
     DEF Next, Resolve

\* Type correctness: no row and no copy holds a grant that was not issued.
THEOREM TypeCorrect == Spec => []TypeOK
<1>1. QED BY InitType, NextType, PTL DEF Spec

-----------------------------------------------------------------------------
(* The lock.  While it was neither bypassed nor overrun, who refreshes is   *)
(* who set it; a left key blocks others, it does not let them in.           *)

Guarded == incidents \cap {"bypassed", "overrun"} = {}

LockInv == Guarded => \A p \in Proc : Refreshing(p) => lock = p

LEMMA NextIncidents == [Next]_vars => incidents \subseteq incidents'
BY DEF Next, vars, Resolve, Read, Fresh, Acquire, Bypass, Contend, Adopt, GiveUp,
       Recheck, RecheckFails, Exchange, Refuse, Unanswered, Write, Unwritten, Release,
       Unreleased, Save, Leave, Crash, LockExpires, Age, Withdraw, Note

LEMMA LockInvOne == LockInv => OneRefresher
BY DEF LockInv, OneRefresher, Guarded

LEMMA NextLock == TypeOK /\ LockInv /\ [Next]_vars => LockInv'
<1> SUFFICES ASSUME TypeOK, LockInv, [Next]_vars, Guarded', NEW q \in Proc, Refreshing(q)'
             PROVE  lock' = q
  BY DEF LockInv
<1>n. Guarded => \A p \in Proc : Refreshing(p) => lock = p
  BY DEF LockInv
<1> DEFINE Entered(p) == Acquire(p) \/ Bypass(p)
           Inside(p) == \/ Recheck(p) \/ RecheckFails(p) \/ Exchange(p) \/ Refuse(p)
                        \/ Unanswered(p) \/ Write(p) \/ Unwritten(p)
           Outside(p) == \/ Read(p) \/ Fresh(p) \/ Contend(p) \/ Adopt(p) \/ GiveUp(p)
                         \/ Save(p) \/ Leave(p) \/ Crash(p) \/ Unreleased(p)
<1>g. Guarded
  <2>1. incidents \subseteq incidents' BY NextIncidents
  <2>2. QED BY <2>1 DEF Guarded
<1>1. ASSUME NEW p \in Proc, Acquire(p) PROVE lock' = q
  <2>1. lock = Free \/ IsFree BY <1>1 DEF Acquire
  <2>2. ~Refreshing(q) BY <2>1, <1>g, <1>n, TokenAssumption DEF IsFree
  <2>3. q = p BY <1>1, <2>2, JobSteps, MovesTo DEF Refreshing
  <2>4. QED BY <1>1, <2>3 DEF Acquire
<1>2. ASSUME NEW p \in Proc, Bypass(p) PROVE FALSE
  BY <1>2 DEF Bypass, Note, Guarded
<1>3. ASSUME NEW p \in Proc, Inside(p) PROVE lock' = q
  <2>1. lock' = lock
    BY <1>3 DEF Recheck, RecheckFails, Exchange, Refuse, Unanswered, Write, Unwritten
  <2>2. Refreshing(p)
    BY <1>3 DEF Recheck, RecheckFails, Exchange, Refuse, Unanswered, Write, Unwritten,
                At, Refreshing
  <2>3. PICK pc, r : Moves(p, pc, r) BY <1>3, JobSteps
  <2>4. Refreshing(q) BY <2>2, <2>3, MovesTo DEF Refreshing
  <2>5. QED BY <2>1, <2>4, <1>g, <1>n
<1>4. ASSUME NEW p \in Proc, Outside(p) PROVE lock' = q
  <2>1. lock' = lock
    BY <1>4 DEF Read, Fresh, Contend, Adopt, GiveUp, Save, Leave, Crash, Unreleased
  <2>2. PICK pc \in {"read", "done", "waiting", "idle"} : \E r : Moves(p, pc, r)
    BY <1>4, JobSteps
  <2>3. job'[p].pc = pc /\ \A o \in Proc : o # p => job'[o] = job[o]
    <3>1. PICK r : Moves(p, pc, r) BY <2>2
    <3>2. QED BY <3>1 DEF Moves, TypeOK
  <2>4. q # p BY <2>3 DEF Refreshing
  <2>5. Refreshing(q) BY <2>3, <2>4 DEF Refreshing
  <2>6. QED BY <2>1, <2>5, <1>g, <1>n
<1>5. ASSUME NEW p \in Proc, Release(p) PROVE FALSE
  <2>1. Refreshing(p) BY <1>5 DEF Release, At, Refreshing
  <2>2. Moves(p, "done", job[p].row) BY <1>5, JobSteps
  <2>3. job'[p].pc = "done" /\ \A o \in Proc : o # p => job'[o] = job[o]
    BY <2>2 DEF Moves, TypeOK
  <2>4. q # p BY <2>3 DEF Refreshing
  <2>5. Refreshing(q) BY <2>3, <2>4 DEF Refreshing
  <2>6. QED BY <2>1, <2>4, <2>5, <1>g, <1>n
<1>6. CASE LockExpires
  <2>1. job' = job BY <1>6 DEF LockExpires
  <2>2. Refreshing(q) /\ lock = q BY <2>1, <1>g, <1>n DEF Refreshing
  <2>3. "overrun" \in incidents' BY <1>6, <2>2 DEF LockExpires, Note
  <2>4. QED BY <2>3 DEF Guarded
<1>7. CASE Age \/ Withdraw \/ UNCHANGED vars
  <2>1. job' = job /\ lock' = lock BY <1>7 DEF Age, Withdraw, vars
  <2>2. QED BY <2>1, <1>g, <1>n DEF Refreshing
<1>8. QED
  BY <1>1, <1>2, <1>3, <1>4, <1>5, <1>6, <1>7 DEF Next, Resolve

\* One process renews a token at a time (refresh, Lock), unless Redis failed or
\* the lock ran out under its holder.
THEOREM OneRefresherAtATime == Spec => []OneRefresher
<1>1. Init => LockInv
  BY DEF Init, LockInv, Refreshing, NoJob
<1>2. QED BY <1>1, InitType, NextType, NextLock, LockInvOne, PTL DEF Spec

-----------------------------------------------------------------------------
(* The grant.  While nothing but a withdrawal of consent has happened, the  *)
(* row holds the newest grant or the one refresher is about to store it;    *)
(* nobody holds a grant older than the one that last came near its expiry;  *)
(* and what is about to be spent is the newest.                             *)

Quiet == incidents \subseteq {"withdrawn"}

\* What holds of a process in a quiet system.
GrantOK(p) ==
  /\ ~At(p, "idle") => job[p].row.grant >= aged
  /\ job[p].pc \in {"exchanging", "parking"} => row.grant = issued /\ job[p].row.grant = issued
  /\ At(p, "storing") => job[p].row.grant = issued
  /\ job[p].row.parked => "withdrawn" \in incidents

\* What holds of a quiet system.
GrantsOK ==
  /\ NewestIsKept
  /\ row.grant >= aged /\ issued <= row.grant + 1
  /\ row.parked => "withdrawn" \in incidents
  /\ \A p \in Proc : GrantOK(p)

GrantInv ==
  /\ revoked => "withdrawn" \in incidents
  /\ Quiet => GrantsOK

LEMMA GrantInvParked == GrantInv => ParkedHasCause
BY DEF GrantInv, GrantsOK, ParkedHasCause, Quiet

LEMMA GrantInvKept == GrantInv => NewestIsKept
BY DEF GrantInv, GrantsOK, NewestIsKept, Quiet

LEMMA InitGrant == Init => GrantInv
<1> SUFFICES ASSUME Init PROVE GrantInv OBVIOUS
<1>1. row.grant = 1 /\ row.parked = FALSE /\ issued = 1 /\ aged = 0 /\ revoked = FALSE
  BY DEF Init, Connected
<1>2. \A p \in Proc : job[p].pc = "idle" /\ job[p].row.parked = FALSE
  BY DEF Init, NoJob, Connected
<1>3. \A p \in Proc : GrantOK(p) BY <1>2 DEF GrantOK, At
<1>4. row.grant >= aged /\ issued <= row.grant + 1 BY <1>1
<1>5. QED BY <1>1, <1>3, <1>4 DEF GrantInv, GrantsOK, NewestIsKept

\* A move of p to a phase and row that fit, with the row as it was or the newest.
Fits(pc, r) ==
  /\ pc # "idle" => r.grant >= aged
  /\ pc \in {"exchanging", "parking"} => row.grant = issued /\ r.grant = issued
  /\ pc # "storing"
  /\ r.parked => "withdrawn" \in incidents

LEMMA MoveKeepsGrants ==
  ASSUME TypeOK, NEW p \in Proc, NEW pc, NEW r, Moves(p, pc, r), Fits(pc, r),
         UNCHANGED <<issued, aged>>, incidents \subseteq incidents',
         row'.grant \in {row.grant, issued},
         At(p, "storing") => row'.grant = issued,
         NewestIsKept, Quiet, \A q \in Proc : GrantOK(q)
  PROVE  NewestIsKept' /\ \A q \in Proc : GrantOK(q)'
<1>1. job'[p] = [pc |-> pc, row |-> r] /\ \A q \in Proc : q # p => job'[q] = job[q]
  BY DEF Moves, TypeOK
<1>2. GrantOK(p)'
  BY <1>1 DEF Fits, GrantOK, At
<1>3. ASSUME NEW q \in Proc, q # p PROVE GrantOK(q)'
  BY <1>1, <1>3 DEF GrantOK, At
<1>4. NewestIsKept'
  <2>1. CASE row.grant = issued BY <2>1 DEF NewestIsKept
  <2>2. CASE \E q \in Proc : At(q, "storing") /\ job[q].row.grant = issued
    <3>1. PICK q \in Proc : At(q, "storing") /\ job[q].row.grant = issued BY <2>2
    <3>2. CASE q = p BY <3>1, <3>2 DEF NewestIsKept
    <3>3. CASE q # p
      <4>1. job'[q] = job[q] BY <1>1, <3>3
      <4>2. QED BY <3>1, <4>1 DEF NewestIsKept, At
    <3>4. QED BY <3>2, <3>3
  <2>3. QED BY <2>1, <2>2 DEF NewestIsKept, Quiet
<1>5. QED BY <1>2, <1>3, <1>4

LEMMA NextGrant == TypeOK /\ LockInv /\ GrantInv /\ [Next]_vars => GrantInv'
<1> SUFFICES ASSUME TypeOK, LockInv, GrantInv, [Next]_vars PROVE GrantInv'
  OBVIOUS
<1>i. incidents \subseteq incidents' BY NextIncidents
<1>r. revoked' => "withdrawn" \in incidents'
  <2>1. revoked' = revoked \/ Withdraw
    BY DEF Next, vars, provider, Resolve, Read, Fresh, Acquire, Bypass, Contend, Adopt,
           GiveUp, Recheck, RecheckFails, Exchange, Refuse, Unanswered, Write, Unwritten,
           Release, Unreleased, Save, Leave, Crash, LockExpires, Age
  <2>2. QED BY <2>1, <1>i DEF GrantInv, Withdraw, Note
<1> SUFFICES ASSUME Quiet' PROVE GrantsOK'
  BY <1>r DEF GrantInv
<1>q. Quiet BY <1>i DEF Quiet
<1>k. /\ NewestIsKept
      /\ row.grant >= aged /\ issued <= row.grant + 1
      /\ row.parked => "withdrawn" \in incidents
      /\ \A p \in Proc : GrantOK(p)
      /\ revoked => "withdrawn" \in incidents
  BY <1>q DEF GrantInv, GrantsOK
<1>l. \A p, q \in Proc : Refreshing(p) /\ Refreshing(q) => p = q
  BY <1>q DEF Quiet, Guarded, LockInv
<1>n. /\ issued \in Nat /\ aged \in Nat /\ aged <= issued /\ row \in Row
      /\ row.grant \in 1..issued
      /\ \A p \in Proc : job[p].row.grant \in 1..issued
  BY DEF TypeOK
<1>1. ASSUME NEW p \in Proc, Read(p) PROVE GrantsOK'
  <2>1. Moves(p, "read", row) /\ Fits("read", row)
    BY <1>1, <1>k, JobSteps DEF Fits
  <2>2. UNCHANGED <<row, issued, aged>> /\ ~At(p, "storing")
    BY <1>1 DEF Read, provider, At
  <2>3. QED BY <2>1, <2>2, <1>i, <1>q, <1>k, MoveKeepsGrants DEF GrantsOK
<1>2. ASSUME NEW p \in Proc,
             \/ Fresh(p) \/ Acquire(p) \/ Contend(p) \/ GiveUp(p) \/ Release(p)
             \/ Unreleased(p) \/ (Unanswered(p) /\ issued' = issued)
      PROVE  GrantsOK'
  <2>1. PICK pc \in {"done", "locked", "waiting", "releasing"} : Moves(p, pc, job[p].row)
    BY <1>2, JobSteps
  <2>2. /\ UNCHANGED <<row, issued, aged>> /\ ~At(p, "storing") /\ ~At(p, "idle")
    BY <1>2 DEF Fresh, Acquire, Contend, GiveUp, Release, Unreleased, Unanswered, provider, At
  <2>3. Fits(pc, job[p].row) BY <2>1, <2>2, <1>k DEF Fits, GrantOK
  <2>4. QED BY <2>1, <2>2, <2>3, <1>i, <1>q, <1>k, MoveKeepsGrants DEF GrantsOK
<1>3. ASSUME NEW p \in Proc, Bypass(p) \/ RecheckFails(p) PROVE FALSE
  BY <1>3 DEF Bypass, RecheckFails, Note, Quiet
<1>4. ASSUME NEW p \in Proc, Adopt(p) PROVE GrantsOK'
  <2>1. Moves(p, "done", Adopted(job[p].row, row)) BY <1>4, JobSteps
  <2>2. UNCHANGED <<row, issued, aged>> /\ ~At(p, "storing") BY <1>4 DEF Adopt, provider, At
  <2>3. Adopted(job[p].row, row).parked = job[p].row.parked BY RowTypes DEF Row, Adopted
  <2>4. Fits("done", Adopted(job[p].row, row))
    BY <2>3, <1>k, RowTypes DEF Fits, GrantOK
  <2>5. QED BY <2>1, <2>2, <2>4, <1>i, <1>q, <1>k, MoveKeepsGrants DEF GrantsOK
\* Nobody but p refreshes, so the row holds the newest grant; if it needs a
\* refresh, that grant came near its expiry and p's is no older.
<1>5. ASSUME NEW p \in Proc, Recheck(p) PROVE GrantsOK'
  <2>1. UNCHANGED <<row, issued, aged>> /\ At(p, "locked") /\ ~At(p, "storing") /\ ~At(p, "idle")
    BY <1>5 DEF Recheck, provider, At
  <2>2. row.grant = issued
    <3>1. ASSUME NEW q \in Proc, At(q, "storing") PROVE FALSE
      BY <2>1, <3>1, <1>l DEF Refreshing, At
    <3>2. QED BY <3>1, <1>k, <1>q DEF NewestIsKept, Quiet
  <2>3. CASE NeedsRefresh(row)
    <3>1. Moves(p, "exchanging", job[p].row) BY <1>5, <2>3, JobSteps
    <3>2. job[p].row.grant = issued
      BY <2>1, <2>2, <2>3, <1>k, <1>n DEF NeedsRefresh, GrantOK
    <3>3. Fits("exchanging", job[p].row) BY <2>1, <2>2, <3>2, <1>k DEF Fits, GrantOK
    <3>4. QED BY <2>1, <3>1, <3>3, <1>i, <1>q, <1>k, MoveKeepsGrants DEF GrantsOK
  <2>4. CASE ~NeedsRefresh(row)
    <3>1. Moves(p, "releasing", Adopted(job[p].row, row)) BY <1>5, <2>4, JobSteps
    <3>2. Adopted(job[p].row, row).parked = job[p].row.parked BY RowTypes DEF Row, Adopted
    <3>3. Fits("releasing", Adopted(job[p].row, row))
      BY <3>2, <1>k, RowTypes DEF Fits, GrantOK
    <3>4. QED BY <2>1, <3>1, <3>3, <1>i, <1>q, <1>k, MoveKeepsGrants DEF GrantsOK
  <2>5. QED BY <2>3, <2>4
<1>6. ASSUME NEW p \in Proc, Exchange(p) PROVE GrantsOK'
  <2>1. issued' = issued + 1 /\ UNCHANGED <<row, aged, incidents>> /\ At(p, "exchanging")
    BY <1>6 DEF Exchange
  <2>2. Moves(p, "storing", Renewed(job[p].row)) BY <1>6, JobSteps
  <2>3. /\ job'[p] = [pc |-> "storing", row |-> Renewed(job[p].row)]
        /\ \A q \in Proc : q # p => job'[q] = job[q]
    BY <2>2 DEF Moves, TypeOK
  <2>4. row.grant = issued BY <2>1, <1>k DEF GrantOK, At
  <2>5. Renewed(job[p].row).parked = job[p].row.parked BY RowTypes DEF Row, Renewed
  <2>6. GrantOK(p)'
    BY <2>1, <2>3, <2>5, <1>k, <1>n, RowTypes DEF GrantOK, At
  <2>7. ASSUME NEW q \in Proc, q # p PROVE GrantOK(q)'
    <3>1. ~Refreshing(q) BY <2>1, <2>7, <1>l DEF Refreshing, At
    <3>2. QED BY <2>1, <2>3, <2>7, <3>1, <1>k DEF GrantOK, At, Refreshing
  <2>8. NewestIsKept' BY <2>1, <2>3, RowTypes DEF NewestIsKept, At
  <2>9. QED BY <2>1, <2>4, <2>6, <2>7, <2>8, <1>k, <1>n DEF GrantsOK
<1>7. ASSUME NEW p \in Proc, Refuse(p) PROVE GrantsOK'
  <2>1. PICK r \in Row : /\ Moves(p, "parking", r)
                         /\ r.grant = job[p].row.grant
    BY <1>7, JobSteps, RowTypes
  <2>2. UNCHANGED <<row, issued, aged>> /\ At(p, "exchanging") /\ ~At(p, "storing")
    BY <1>7 DEF Refuse, provider, At
  <2>3. row.grant = issued /\ job[p].row.grant = issued BY <2>2, <1>k DEF GrantOK, At
  <2>4. "withdrawn" \in incidents BY <1>7, <2>3, <1>k DEF Refuse, Accepted
  <2>5. Fits("parking", r) BY <2>1, <2>3, <2>4, <1>k DEF Fits
  <2>6. QED BY <2>1, <2>2, <2>5, <1>i, <1>q, <1>k, MoveKeepsGrants DEF GrantsOK
<1>8. ASSUME NEW p \in Proc, Unanswered(p), issued' # issued PROVE FALSE
  BY <1>8 DEF Unanswered, Note, Quiet
<1>9. ASSUME NEW p \in Proc, Write(p) PROVE GrantsOK'
  <2>1. row' = job[p].row /\ UNCHANGED <<issued, aged>> /\ job[p].pc \in {"storing", "parking"}
    BY <1>9 DEF Write, provider
  <2>2. Moves(p, "releasing", job[p].row) BY <1>9, JobSteps
  <2>3. row'.grant = issued BY <2>1, <1>k DEF GrantOK, At
  <2>4. Fits("releasing", job[p].row) BY <2>1, <2>3, <1>k, <1>n DEF Fits, GrantOK
  <2>5. NewestIsKept' /\ \A q \in Proc : GrantOK(q)'
    BY <2>1, <2>2, <2>3, <2>4, <1>i, <1>q, <1>k, MoveKeepsGrants
  <2>6. row'.parked => "withdrawn" \in incidents' BY <2>1, <1>k, <1>i DEF GrantOK
  <2>7. row'.grant >= aged' /\ issued' <= row'.grant + 1 BY <2>1, <2>3, <1>n
  <2>8. QED BY <2>5, <2>6, <2>7 DEF GrantsOK
<1>10. ASSUME NEW p \in Proc, Unwritten(p) PROVE GrantsOK'
  <2>1. /\ UNCHANGED <<row, issued, aged>> /\ ~At(p, "storing") /\ ~At(p, "idle")
    BY <1>10 DEF Unwritten, provider, At, Note, Quiet
  <2>2. Moves(p, "releasing", job[p].row) BY <1>10, JobSteps
  <2>3. Fits("releasing", job[p].row) BY <2>1, <1>k DEF Fits, GrantOK
  <2>4. QED BY <2>1, <2>2, <2>3, <1>i, <1>q, <1>k, MoveKeepsGrants DEF GrantsOK
<1>11. ASSUME NEW p \in Proc, Save(p) PROVE GrantsOK'
  <2>1. UNCHANGED <<issued, aged>> /\ At(p, "done") /\ ~At(p, "storing")
    BY <1>11 DEF Save, provider, At
  <2>2. Moves(p, "idle", Connected) BY <1>11, JobSteps
  <2>3. ~(job[p].row.grant < row.grant) BY <1>11 DEF Save, Note, Quiet
  <2>4. PICK parked \in {job[p].row.parked, FALSE} :
          row' = [job[p].row EXCEPT !.parked = parked]
    BY <1>11 DEF Save
  <2>5. parked \in BOOLEAN BY RowTypes DEF Row
  <2>6. row'.grant = job[p].row.grant /\ row'.parked = parked BY <2>4, <2>5, RowTypes
  <2>7. row'.grant \in {row.grant, issued} BY <2>3, <2>6, <1>k, <1>n
  <2>8. row'.parked => "withdrawn" \in incidents'
    BY <2>4, <2>6, <1>k, <1>i DEF GrantOK
  <2>9. Fits("idle", Connected) BY DEF Fits, Connected
  <2>10. NewestIsKept' /\ \A q \in Proc : GrantOK(q)'
    BY <2>1, <2>2, <2>7, <2>9, <1>i, <1>q, <1>k, MoveKeepsGrants
  <2>11. row'.grant >= aged' /\ issued' <= row'.grant + 1 BY <2>1, <2>7, <1>k, <1>n
  <2>12. QED BY <2>8, <2>10, <2>11 DEF GrantsOK
<1>12. ASSUME NEW p \in Proc, Leave(p) \/ Crash(p) PROVE GrantsOK'
  <2>1. UNCHANGED <<row, issued, aged>> /\ ~At(p, "storing")
    BY <1>12 DEF Leave, Crash, provider, At, Note, Quiet
  <2>2. Moves(p, "idle", Connected) BY <1>12, JobSteps
  <2>3. Fits("idle", Connected) BY DEF Fits, Connected
  <2>4. QED BY <2>1, <2>2, <2>3, <1>i, <1>q, <1>k, MoveKeepsGrants DEF GrantsOK
<1>13. CASE Age
  <2>1. \A p \in Proc : ~Refreshing(p) /\ (At(p, "idle") \/ ~NeedsRefresh(job[p].row))
    BY <1>13 DEF Age, Note, Quiet
  <2>2. aged' = aged + 1 /\ aged < issued /\ UNCHANGED <<row, issued, job>> BY <1>13 DEF Age
  <2>3. row.grant = issued BY <2>1, <1>k, <1>q DEF NewestIsKept, Quiet, Refreshing, At
  <2>4. ASSUME NEW p \in Proc PROVE GrantOK(p)'
    <3>1. ~At(p, "idle") => job[p].row.grant >= aged'
      BY <2>1, <2>2, <1>n DEF NeedsRefresh
    <3>2. ~Refreshing(p) /\ GrantOK(p) BY <2>1, <1>k
    <3>3. QED BY <2>2, <3>1, <3>2, <1>i DEF GrantOK, At, Refreshing
  <2>5. NewestIsKept' BY <2>2, <2>3 DEF NewestIsKept
  <2>6. QED BY <2>2, <2>3, <2>4, <2>5, <1>k, <1>n, <1>i DEF GrantsOK
<1>14. CASE LockExpires \/ Withdraw \/ UNCHANGED vars
  <2>1. UNCHANGED <<row, issued, aged, job>>
    BY <1>14 DEF LockExpires, Withdraw, vars, provider
  <2>2. \A p \in Proc : GrantOK(p)' BY <2>1, <1>k, <1>i DEF GrantOK, At
  <2>3. NewestIsKept' BY <2>1, <1>k, <1>q DEF NewestIsKept, Quiet, At
  <2>4. QED BY <2>1, <2>2, <2>3, <1>k, <1>i DEF GrantsOK
<1>15. ASSUME NEW p \in Proc, Resolve(p) PROVE GrantsOK'
  <2>1. CASE Unanswered(p) BY <2>1, <1>2, <1>8
  <2>2. QED BY <1>2, <1>3, <1>4, <1>5, <1>6, <1>7, <1>9, <1>10, <1>15, <2>1 DEF Resolve
<1>16. QED
  BY <1>1, <1>11, <1>12, <1>13, <1>14, <1>15 DEF Next

\* The refresh under the lock never puts an older grant in place of a newer one:
\* without faults or stale saves the row holds the newest, or is about to.
THEOREM NewestGrantIsKept == Spec => []NewestIsKept
<1>1. Init => LockInv
  BY DEF Init, LockInv, Refreshing, NoJob
<1>2. QED BY <1>1, InitType, NextType, NextLock, InitGrant, NextGrant, GrantInvKept, PTL DEF Spec

\* No account is parked unless consent was withdrawn or one of the incidents took
\* its newest grant (handleRefreshFailure).
THEOREM ParkedForACause == Spec => []ParkedHasCause
<1>1. Init => LockInv
  BY DEF Init, LockInv, Refreshing, NoJob
<1>2. QED BY <1>1, InitType, NextType, NextLock, InitGrant, NextGrant, GrantInvParked, PTL DEF Spec
=============================================================================
