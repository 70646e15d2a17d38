------------------------------- MODULE MCLedger -------------------------------
EXTENDS Ledger

\* "fast" stands for "haiku-4"; "opus" is the fallback.
fast == <<"fast">>
haiku == <<"haiku", "-", "4">>
opus == <<"o", "pus">>
MCCanonical == fast :> haiku

\* "haiku" covers "haiku-4"; "o*" covers "opus".
haikus == << <<"haiku">> >>
os == << <<"o">>, <<>> >>
MCMasks == {haikus, os}
MCConfigured == {{}, {os}}

MCPricing == <<"haiku">> :> [input |-> 20, output |-> 100, request |-> 7, cacheRead |-> 0, cacheWrite |-> 30]

Answered == [status |-> 200, reached |-> TRUE, credential |-> <<"main">>, error |-> FALSE,
             input |-> 3, output |-> 1, read |-> 1, write |-> 1, reported |-> 0]
Untranslated == [Answered EXCEPT !.status = 502]
Refused == [Answered EXCEPT !.error = TRUE, !.status = 429]
Priced == [Answered EXCEPT !.read = 0, !.write = 0, !.reported = 11]

\* A chat, whose answer is recorded and then cannot be translated (502); a count, whose
\* error is relayed and not recorded, or a search, that costs what Perplexity reports.
Chat == [handler |-> handleOpenAI, models |-> <<fast, opus>>, answers |-> {Untranslated}]
Count == [handler |-> handleCountTokens, models |-> <<fast>>, answers |-> {Refused}]
Search == [handler |-> handleSearch, models |-> <<>>, answers |-> {Priced}]
CONSTANTS r1, r2
MCCallsOf == r1 :> {Chat} @@ r2 :> {Count, Search}

MCClientOf == [r \in Requests |-> <<"key">>]

\* Match and glob on every mask of up to three parts and every name of up to four pieces.
Names == UNION {[1..n -> {"a", "-"}] : n \in 0..4}
Parts == UNION {[1..n -> {"a", "-"}] : n \in 0..2}
ASSUME GlobCovers ==
    \A name \in Names \ {<<>>}, n \in 2..3 : \A mask \in [1..n -> Parts] :
        Match(mask, name) <=> Covers(mask, name)
===============================================================================
