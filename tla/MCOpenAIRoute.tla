----------------------------- MODULE MCOpenAIRoute -----------------------------
(* Two requests over a capped host and an unlimited one, or the capped one alone. *)
EXTENDS OpenAIRoute

CONSTANTS r1, r2

MCRequests == {r1, r2}
MCNameOf == <<"ollama">>
MCOAuth == {}
MCCap == <<1, 0>>
(* The first request follows a chain of fallbacks; the second has one target and
   is raw, a competitor for the slot.  Credentials are enabled and served round-robin. *)
MCChains ==
    {<<"gated", "gated">>, <<"gated", "other">>, <<"unrouted", "other">>,
     <<"other", "unrouted">>, <<"untranslatable", "gated">>}

MCInit ==
    /\ Init
    /\ ~fillFirst
    /\ \A c \in Creds : ~disabled[c]
    /\ route[r1].raw = ("untranslatable" \in Kinds(route[r1].targets))
    /\ route[r1].targets \in MCChains
    /\ route[r2].targets = <<"gated">>
    /\ route[r2].raw

MCSpec == MCInit /\ [][Next]_routeVars
MCFairSpec == MCSpec /\ Fairness
=============================================================================
