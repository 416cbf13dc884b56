----------------------------- MODULE LoopHealth -----------------------------
(***************************************************************************)
(* The loops of the worker and the probe that watches them for silence      *)
(* (src/cmd/worker/health.go, src/cmd/worker/main.go).  Time is counted in  *)
(* units; a goroutine that can run does so before the next unit.            *)
(***************************************************************************)
EXTENDS Naturals

CONSTANTS
    Loops,          \* the loops of the process
    Interval,       \* the ticker of each, in units
    Floor,          \* the least budget: a minute
    Horizon         \* bound: units a loop may be silent

VARIABLES
    working,    \* the loop's work has begun and not ended
    since,      \* units since it began
    due,        \* units until the ticker fires
    fired,      \* the ticker's channel holds a tick; it has room for one
    silent      \* units since the loop last came around, or registered

loopVars == <<working, since, due, fired, silent>>

-----------------------------------------------------------------------------

(* register: three cycles of slack, and never less than the floor. *)
Budget(l) == IF 3 * Interval[l] < Floor THEN Floor ELSE 3 * Interval[l]

(* The type of every variable. *)
LoopTypeOK ==
    /\ working \in [Loops -> BOOLEAN] /\ fired \in [Loops -> BOOLEAN]
    /\ since \in [Loops -> Nat] /\ silent \in [Loops -> Nat]
    /\ due \in [Loops -> Nat]

Init ==
    /\ working = [l \in Loops |-> FALSE] /\ fired = [l \in Loops |-> FALSE]
    /\ since = [l \in Loops |-> 0] /\ silent = [l \in Loops |-> 0]
    /\ due = Interval

-----------------------------------------------------------------------------

(* A unit passes: every ticker counts down, and drops a tick nobody took. *)
Clock ==
    /\ \A l \in Loops : (fired[l] => working[l]) /\ silent[l] < Horizon
    /\ silent' = [l \in Loops |-> silent[l] + 1]
    /\ since' = [l \in Loops |-> IF working[l] THEN since[l] + 1 ELSE 0]
    /\ due' = [l \in Loops |-> IF due[l] = 1 THEN Interval[l] ELSE due[l] - 1]
    /\ fired' = [l \in Loops |-> fired[l] \/ due[l] = 1]
    /\ UNCHANGED working

(* The tick is taken, and the poll, the dispatch or the check begins. *)
Begin(l) ==
    /\ ~working[l] /\ fired[l]
    /\ working' = [working EXCEPT ![l] = TRUE]
    /\ since' = [since EXCEPT ![l] = 0]
    /\ fired' = [fired EXCEPT ![l] = FALSE]
    /\ UNCHANGED <<due, silent>>

(* tick: the loop came around, whether or not the work succeeded. *)
Tick(l) == silent' = [silent EXCEPT ![l] = 0]

(* Mutant: work that failed does not count as coming around. *)
FinishWell(l, err) ==
    /\ working[l]
    /\ working' = [working EXCEPT ![l] = FALSE]
    /\ since' = [since EXCEPT ![l] = 0]
    /\ IF err THEN UNCHANGED silent ELSE Tick(l)
    /\ UNCHANGED <<due, fired>>

Finish(l, err) ==
    /\ working[l]
    /\ working' = [working EXCEPT ![l] = FALSE]
    /\ since' = [since EXCEPT ![l] = 0]
    /\ Tick(l)
    /\ UNCHANGED <<due, fired>>

Next ==
    \/ Clock
    \/ \E l \in Loops : Begin(l) \/ \E err \in BOOLEAN : Finish(l, err)

LoopSpec == Init /\ [][Next]_loopVars

-----------------------------------------------------------------------------

(* report: the loop has overrun its budget, which makes the probe fail. *)
Stalled(l) == silent[l] > Budget(l)

(* The probe reports a loop only while one round of its work has taken      *)
(* longer than the budget less one interval, however late the round began,  *)
(* and it does report a loop whose work has taken longer than the budget     *)
(* (health.go 59-62, 80-113).                                                *)
StalledIsStuck ==
    \A l \in Loops :
        /\ Stalled(l) => working[l] /\ since[l] > Budget(l) - Interval[l]
        /\ since[l] > Budget(l) => Stalled(l)
=============================================================================
