------------------------------ MODULE MCDispatch ------------------------------
(* Two requests over an OAuth login and an API key. *)
EXTENDS Dispatch

CONSTANTS r1, r2

MCRequests == {r1, r2}
MCOAuth == {1}
MCNameOf == <<"max", "key">>

(* Round-robin over two enabled credentials; one request may use either, the other
   is pinned to the login. *)
MCInit ==
    /\ Init
    /\ ~fillFirst
    /\ \A c \in Creds : ~disabled[c]
    /\ req[r1].match = Creds
    /\ req[r2].match = OAuth

MCSpec == MCInit /\ [][Next]_dispatchVars
MCFairSpec == MCSpec /\ Fairness
=============================================================================
