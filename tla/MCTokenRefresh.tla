---------------------------- MODULE MCTokenRefresh ----------------------------
(* One account, two goroutines refreshing it. *)
EXTENDS TokenRefresh

CONSTANTS p1, p2, a1

MCCallers == {p1, p2}
MCAccounts == {a1}
=============================================================================
