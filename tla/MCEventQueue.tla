---------------------------- MODULE MCEventQueue ----------------------------
(***************************************************************************)
(* Small instances of EventQueue.                                          *)
(***************************************************************************)
EXTENDS EventQueue, TLC

CONSTANTS m1, e1, w1, w2, q1

\* A plain event, and recurring ones that stop by themselves after occurrence
\* 2, on acknowledgement, or when repeat_until passes.
Immediate == [NoConfig EXCEPT !.enabled = TRUE]

Twice == [Immediate EXCEPT !.recurring = TRUE, !.repeatMax = 2]

UntilAcked == [Twice EXCEPT !.repeatMax = 0, !.stopOnAck = TRUE]

TwiceUntilDate == [Twice EXCEPT !.until = TRUE]

OnlyTwice == {Twice}

OnlyUntilAcked == {UntilAcked}

OnceOrTwiceUntilDate == {Immediate, TwiceUntilDate}

\* The workers are alike; only the run without liveness uses this.
Symmetry == Permutations({w1, w2})
=============================================================================
