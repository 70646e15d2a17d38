---------------------------- MODULE MCAccountState ----------------------------
(* Three accounts over two stores, two operators. *)
EXTENDS AccountState

CONSTANTS o1, o2, anthropic, grok

MCOperators == {o1, o2}
MCStores == {anthropic, grok}
MCStoreOf == <<anthropic, anthropic, grok>>
MCUniqueNames == <<"max", "team", "xai">>
MCNames == {"max", "team", "xai", "typo"}
=============================================================================
