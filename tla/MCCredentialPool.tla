--------------------------- MODULE MCCredentialPool ---------------------------
(* Three credentials, two of them OAuth logins, two callers. *)
EXTENDS CredentialPool, TLC

CONSTANTS p1, p2

MCCallers == {p1, p2}
MCOAuth == {1, 2}
MCNameOf == <<"a", "b", "c">>

CallerSymmetry == Permutations(MCCallers)
=============================================================================
