-------------------------- MODULE LoopHealthProofs --------------------------
(***************************************************************************)
(* Proof that the probe of LoopHealth tells the loops that are stuck from    *)
(* those that are not, for any loops, intervals and floor.                   *)
(***************************************************************************)
EXTENDS LoopHealth, TLAPS

(* The durations of the configuration; a ticker's must be positive. *)
Timed == Interval \in [Loops -> Nat \ {0}] /\ Floor \in Nat /\ Horizon \in Nat

(* A loop at rest has not been silent for longer than its ticker has run,    *)
(* and one at work had not been when its work began.                         *)
Punctual(l) ==
    /\ due[l] >= 1 /\ due[l] <= Interval[l]
    /\ ~working[l] /\ ~fired[l] => silent[l] + due[l] <= Interval[l]
    /\ ~working[l] => silent[l] <= Interval[l] /\ since[l] = 0
    /\ working[l] => since[l] <= silent[l] /\ silent[l] <= since[l] + Interval[l]

LoopInv == LoopTypeOK /\ \A l \in Loops : Punctual(l)

LEMMA BudgetIsRoomy ==
  ASSUME Timed, NEW l \in Loops
  PROVE  Budget(l) \in Nat /\ Budget(l) >= 3 * Interval[l]
BY DEF Timed, Budget

LEMMA InitPunctual == Timed /\ Init => LoopInv
BY DEF Timed, Init, LoopInv, LoopTypeOK, Punctual

LEMMA ClockKeeps ==
  ASSUME Timed, LoopInv, Clock
  PROVE  LoopInv'
<1>1. LoopTypeOK' BY DEF Timed, LoopInv, LoopTypeOK, Clock, Punctual
<1>2. ASSUME NEW l \in Loops PROVE Punctual(l)'
  <2>1. /\ Interval[l] \in Nat \ {0} /\ silent[l] \in Nat /\ since[l] \in Nat /\ due[l] \in Nat
        /\ Punctual(l) /\ (fired[l] => working[l])
    BY DEF Timed, LoopInv, LoopTypeOK, Clock
  <2>2. /\ silent'[l] = silent[l] + 1
        /\ since'[l] = (IF working[l] THEN since[l] + 1 ELSE 0)
        /\ due'[l] = (IF due[l] = 1 THEN Interval[l] ELSE due[l] - 1)
        /\ fired'[l] = (fired[l] \/ due[l] = 1)
        /\ working'[l] = working[l]
    BY DEF Clock
  <2>3. due'[l] >= 1 /\ due'[l] <= Interval[l] BY <2>1, <2>2 DEF Punctual
  <2>4. CASE working[l]
    <3>1. working'[l] /\ since'[l] = since[l] + 1 BY <2>2, <2>4
    <3>2. since[l] <= silent[l] /\ silent[l] <= since[l] + Interval[l] BY <2>1, <2>4 DEF Punctual
    <3>3. since'[l] <= silent'[l] /\ silent'[l] <= since'[l] + Interval[l] BY <2>1, <2>2, <3>1, <3>2
    <3>4. QED BY <2>3, <3>1, <3>3 DEF Punctual
  <2>5. CASE ~working[l]
    <3>1. ~working'[l] /\ ~fired[l] /\ since'[l] = 0 BY <2>1, <2>2, <2>5
    <3>2. silent[l] + due[l] <= Interval[l] /\ due[l] >= 1 BY <2>1, <2>5, <3>1 DEF Punctual
    <3>3. silent'[l] <= Interval[l] BY <2>1, <2>2, <3>2
    <3>4. ~fired'[l] => silent'[l] + due'[l] <= Interval[l]
      <4>1. ~fired'[l] => due[l] # 1 BY <2>2
      <4>2. due[l] # 1 => silent'[l] + due'[l] <= Interval[l] BY <2>1, <2>2, <3>2
      <4>3. QED BY <4>1, <4>2
    <3>5. QED BY <2>3, <3>1, <3>3, <3>4 DEF Punctual
  <2>6. QED BY <2>4, <2>5
<1>3. QED BY <1>1, <1>2 DEF LoopInv

LEMMA BeginKeeps ==
  ASSUME Timed, LoopInv, NEW l \in Loops, Begin(l)
  PROVE  LoopInv'
<1>1. LoopTypeOK' BY DEF LoopInv, LoopTypeOK, Begin
<1>2. ASSUME NEW k \in Loops PROVE Punctual(k)'
  <2>1. /\ Interval[k] \in Nat \ {0} /\ silent[k] \in Nat /\ since[k] \in Nat /\ due[k] \in Nat
        /\ Punctual(k)
    BY DEF Timed, LoopInv, LoopTypeOK
  <2>2. silent'[k] = silent[k] /\ due'[k] = due[k] BY DEF Begin
  <2>3. CASE k = l
    <3>1. ~working[k] /\ working'[k] /\ since'[k] = 0 BY <2>3 DEF Begin, LoopInv, LoopTypeOK
    <3>2. QED BY <2>1, <2>2, <3>1 DEF Punctual
  <2>4. CASE k # l
    <3>1. working'[k] = working[k] /\ since'[k] = since[k] /\ fired'[k] = fired[k]
      BY <2>4 DEF Begin, LoopInv, LoopTypeOK
    <3>2. QED BY <2>1, <2>2, <3>1 DEF Punctual
  <2>5. QED BY <2>3, <2>4
<1>3. QED BY <1>1, <1>2 DEF LoopInv

LEMMA FinishKeeps ==
  ASSUME Timed, LoopInv, NEW l \in Loops, NEW err \in BOOLEAN, Finish(l, err)
  PROVE  LoopInv'
<1>1. LoopTypeOK' BY DEF LoopInv, LoopTypeOK, Finish, Tick
<1>2. ASSUME NEW k \in Loops PROVE Punctual(k)'
  <2>1. /\ Interval[k] \in Nat \ {0} /\ silent[k] \in Nat /\ since[k] \in Nat /\ due[k] \in Nat
        /\ Punctual(k)
    BY DEF Timed, LoopInv, LoopTypeOK
  <2>2. fired'[k] = fired[k] /\ due'[k] = due[k] BY DEF Finish
  <2>3. CASE k = l
    <3>1. ~working'[k] /\ since'[k] = 0 /\ silent'[k] = 0
      BY <2>3 DEF Finish, Tick, LoopInv, LoopTypeOK
    <3>2. QED BY <2>1, <2>2, <3>1 DEF Punctual
  <2>4. CASE k # l
    <3>1. working'[k] = working[k] /\ since'[k] = since[k] /\ silent'[k] = silent[k]
      BY <2>4 DEF Finish, Tick, LoopInv, LoopTypeOK
    <3>2. QED BY <2>1, <2>2, <3>1 DEF Punctual
  <2>5. QED BY <2>3, <2>4
<1>3. QED BY <1>1, <1>2 DEF LoopInv

LEMMA NextPunctual == Timed /\ LoopInv /\ [Next]_loopVars => LoopInv'
<1> SUFFICES ASSUME Timed, LoopInv, [Next]_loopVars PROVE LoopInv'
  OBVIOUS
<1>1. CASE UNCHANGED loopVars BY <1>1 DEF loopVars, LoopInv, LoopTypeOK, Punctual
<1>2. CASE Next BY <1>2, ClockKeeps, BeginKeeps, FinishKeeps DEF Next
<1>3. QED BY <1>1, <1>2

LEMMA PunctualIsJudged == Timed /\ LoopInv => StalledIsStuck
<1> SUFFICES ASSUME Timed, LoopInv, NEW l \in Loops
             PROVE  /\ Stalled(l) => working[l] /\ since[l] > Budget(l) - Interval[l]
                    /\ since[l] > Budget(l) => Stalled(l)
  BY DEF StalledIsStuck
<1>1. /\ Interval[l] \in Nat \ {0} /\ silent[l] \in Nat /\ since[l] \in Nat /\ working[l] \in BOOLEAN
      /\ Punctual(l) /\ Budget(l) \in Nat /\ Budget(l) >= 3 * Interval[l]
  BY BudgetIsRoomy DEF Timed, LoopInv, LoopTypeOK
<1>2. ~working[l] => since[l] <= Budget(l) BY <1>1 DEF Punctual
<1>3. QED BY <1>1, <1>2 DEF Punctual, Stalled

(* health.go promises a probe that fails for a stuck loop and for no other:  *)
(* it reports a loop only while one round of its work has taken longer than  *)
(* the budget less an interval, and always once it has taken longer than the *)
(* budget, whatever the loops, their intervals and the floor.                *)
THEOREM ProbeTellsStuckLoops ==
  ASSUME Timed
  PROVE  LoopSpec => []StalledIsStuck
<1>1. Init => LoopInv BY InitPunctual
<1>2. LoopInv /\ [Next]_loopVars => LoopInv' BY NextPunctual
<1>3. LoopInv => StalledIsStuck BY PunctualIsJudged
<1>4. QED BY <1>1, <1>2, <1>3, PTL DEF LoopSpec
=============================================================================
