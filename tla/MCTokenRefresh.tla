-------------------------- MODULE MCTokenRefresh ---------------------------
(***************************************************************************)
(* Small instances of TokenRefresh.                                        *)
(***************************************************************************)
EXTENDS TokenRefresh

CONSTANTS p1, p2
=============================================================================
