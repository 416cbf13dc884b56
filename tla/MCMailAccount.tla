--------------------------- MODULE MCMailAccount ---------------------------
(***************************************************************************)
(* Small instances of MailAccount.                                         *)
(***************************************************************************)
EXTENDS MailAccount, TLC

CONSTANTS a1, a2, w1, w2, p1, p2, c1, q1, q2

\* Every watcher is on the first mailbox; a2 has none, so it can be deleted.
AllOnFirst == [w \in Watcher |-> a1]
=============================================================================
