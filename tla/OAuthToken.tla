------------------------------ MODULE OAuthToken ------------------------------
(***************************************************************************)
(* The rotating tokens of OAuth credentials: the mutable half of           *)
(* credential.Credential, Store.EnsureFresh with the refresh closure that  *)
(* Server.refreshCred and openai.Provider.bearer pass to it, the token     *)
(* endpoint it calls (external), and the persister that saves the result.  *)
(*                                                                         *)
(* A token is the number of the answer that issued it.  The endpoint       *)
(* honours one refresh token per account: a rotating answer replaces it, an*)
(* answer that omits refresh_token leaves it in force.                     *)
(***************************************************************************)
EXTENDS Integers

CONSTANTS
    Accounts,    \* OAuth credentials
    Callers,     \* goroutines that may call EnsureFresh
    NoOne,       \* refreshMu is free
    NoAccount,   \* an idle caller's account
    Omits,       \* whether the endpoint may omit refresh_token from an answer
    MaxIssued    \* bound on the answers the endpoint issues per account

ASSUME OAuthAssumption ==
    /\ Omits \in BOOLEAN
    /\ MaxIssued \in Nat \ {0}
    /\ NoOne \notin Callers
    /\ NoAccount \notin Accounts

NoToken == 0   \* the empty string

VARIABLES
    accessToken, refreshToken,  \* Credential.accessToken, refreshToken
    nearExpiry,                 \* expiresAt is within the refresh skew of the clock
    refreshGen,                 \* Credential.refreshGen
    refreshMu,                  \* who holds Credential.refreshMu
    call,                       \* per caller: where it is in EnsureFresh and persist
    valid, issued,              \* endpoint: the refresh token honoured, answers issued
    disk                        \* the account's token file

credVars == <<accessToken, refreshToken, nearExpiry, refreshGen, refreshMu>>
endpointVars == <<valid, issued>>
tokenVars == <<credVars, call, endpointVars, disk>>

Stages == {"idle", "waiting", "exchanging", "answered", "saving", "writing", "returned"}
Outcomes == {"none", "did", "skipped", "failed", "aborted"}

Tokens == 0..MaxIssued
Pair == [access : Tokens, refresh : Tokens]
NoPair == [access |-> NoToken, refresh |-> NoToken]

\* What a caller remembers of its call; an idle caller remembers nothing.
IdleCall == [stage |-> "idle", account |-> NoAccount, force |-> FALSE, near |-> FALSE,
             gen |-> 0, sent |-> NoToken, tok |-> NoPair, outcome |-> "none"]
Call == [stage : Stages, account : Accounts \cup {NoAccount}, force : BOOLEAN, near : BOOLEAN,
         gen : Nat, sent : Tokens, tok : Pair, outcome : Outcomes]

\* A token file holds a whole record, or nothing usable between the truncation
\* and the write of os.WriteFile.
Torn == [access |-> NoToken, refresh |-> NoToken]

\* Login saved the first pair, and startup loaded it.
TokenInit ==
    /\ accessToken = [a \in Accounts |-> 1]
    /\ refreshToken = [a \in Accounts |-> 1]
    /\ nearExpiry = [a \in Accounts |-> FALSE]
    /\ refreshGen = [a \in Accounts |-> 0]
    /\ refreshMu = [a \in Accounts |-> NoOne]
    /\ call = [p \in Callers |-> IdleCall]
    /\ valid = [a \in Accounts |-> 1]
    /\ issued = [a \in Accounts |-> 1]
    /\ disk = [a \in Accounts |-> [access |-> 1, refresh |-> 1]]

TokenTypeOK ==
    /\ accessToken \in [Accounts -> Tokens]
    /\ refreshToken \in [Accounts -> Tokens]
    /\ nearExpiry \in [Accounts -> BOOLEAN]
    /\ refreshGen \in [Accounts -> Nat]
    /\ refreshMu \in [Accounts -> Callers \cup {NoOne}]
    /\ call \in [Callers -> Call]
    /\ valid \in [Accounts -> Tokens]
    /\ issued \in [Accounts -> Tokens]
    /\ disk \in [Accounts -> Pair]

-----------------------------------------------------------------------------
At(p, stage) == call[p].stage = stage
Proceed(p, next) == call' = [call EXCEPT ![p] = next]
Leave(p, outcome) == Proceed(p, [call[p] EXCEPT !.stage = "returned", !.outcome = outcome])
\* Mutant: the lock is released into the name of an account.
UnlockToAccount(a) == refreshMu' = [refreshMu EXCEPT ![a] = NoAccount]

Unlock(a) == refreshMu' = [refreshMu EXCEPT ![a] = NoOne]

\* EnsureFresh up to refreshMu.Lock: the caller's clock reading decides nearExpiry,
\* and the generation is captured before the wait.
Begin(p, a, force) ==
    /\ At(p, "idle")
    /\ Proceed(p, [IdleCall EXCEPT !.stage = "waiting", !.account = a, !.force = force,
                                   !.near = nearExpiry[a], !.gen = refreshGen[a]])
    /\ UNCHANGED <<credVars, endpointVars, disk>>

\* Lock acquired, but another goroutine refreshed meanwhile or nothing is due.
Skip(p) ==
    LET a == call[p].account IN
    /\ At(p, "waiting")
    /\ refreshMu[a] = NoOne
    /\ call[p].gen # refreshGen[a] \/ ~(call[p].force \/ call[p].near)
    /\ Leave(p, "skipped")
    /\ UNCHANGED <<credVars, endpointVars, disk>>

\* Mutant: the generation is not compared once the lock is held.
ExchangeRegardless(p) ==
    LET a == call[p].account IN
    /\ At(p, "waiting")
    /\ refreshMu[a] = NoOne
    /\ call[p].force \/ call[p].near
    /\ refreshMu' = [refreshMu EXCEPT ![a] = p]
    /\ Proceed(p, [call[p] EXCEPT !.stage = "exchanging", !.sent = refreshToken[a]])
    /\ UNCHANGED <<accessToken, refreshToken, nearExpiry, refreshGen, endpointVars, disk>>

\* Mutant: EnsureFresh does not take refreshMu.
ExchangeUnlocked(p) ==
    LET a == call[p].account IN
    /\ At(p, "waiting")
    /\ call[p].gen = refreshGen[a]
    /\ call[p].force \/ call[p].near
    /\ refreshMu' = [refreshMu EXCEPT ![a] = p]
    /\ Proceed(p, [call[p] EXCEPT !.stage = "exchanging", !.sent = refreshToken[a]])
    /\ UNCHANGED <<accessToken, refreshToken, nearExpiry, refreshGen, endpointVars, disk>>

\* Lock acquired and the refresh is due: the closure reads the refresh token and
\* presents it, holding refreshMu.
Exchange(p) ==
    LET a == call[p].account IN
    /\ At(p, "waiting")
    /\ refreshMu[a] = NoOne
    /\ call[p].gen = refreshGen[a]
    /\ call[p].force \/ call[p].near
    /\ refreshMu' = [refreshMu EXCEPT ![a] = p]
    /\ Proceed(p, [call[p] EXCEPT !.stage = "exchanging", !.sent = refreshToken[a]])
    /\ UNCHANGED <<accessToken, refreshToken, nearExpiry, refreshGen, endpointVars, disk>>

\* The endpoint redeems the token it honours for a new pair.
Redeem(p) ==
    LET a == call[p].account
        n == issued[a] + 1
    IN  /\ At(p, "exchanging")
        /\ call[p].sent = valid[a]
        /\ n <= MaxIssued
        /\ issued' = [issued EXCEPT ![a] = n]
        /\ \E r \in {n} \cup (IF Omits THEN {NoToken} ELSE {}) :
             /\ valid' = [valid EXCEPT ![a] = IF r = NoToken THEN @ ELSE r]
             /\ Proceed(p, [call[p] EXCEPT !.stage = "answered",
                                           !.tok = [access |-> n, refresh |-> r]])
        /\ UNCHANGED <<credVars, disk>>

\* Mutant: the error path leaves without unlocking.
FailHoldingLock(p, outcome) ==
    /\ At(p, "exchanging") \/ At(p, "answered")
    /\ Leave(p, outcome)
    /\ UNCHANGED <<credVars, endpointVars, disk>>

\* The exchange fails: no refresh token to send, the request or the answer lost, the
\* endpoint refusing ("failed"); or the client whose context it runs under went away
\* ("aborted").  The code does not tell them apart: the error leaves EnsureFresh and
\* unlocks.
FailRefresh(p, outcome) ==
    /\ At(p, "exchanging") \/ At(p, "answered")
    /\ Leave(p, outcome)
    /\ Unlock(call[p].account)
    /\ UNCHANGED <<accessToken, refreshToken, nearExpiry, refreshGen, endpointVars, disk>>

\* Mutant: updateOAuth stores the refresh token of an answer that has none.
StoreEmptyToken(p) ==
    LET a == call[p].account IN
    /\ At(p, "answered")
    /\ accessToken' = [accessToken EXCEPT ![a] = call[p].tok.access]
    /\ refreshToken' = [refreshToken EXCEPT ![a] = call[p].tok.refresh]
    /\ nearExpiry' = [nearExpiry EXCEPT ![a] = FALSE]
    /\ refreshGen' = [refreshGen EXCEPT ![a] = @ + 1]
    /\ Unlock(a)
    /\ Proceed(p, [call[p] EXCEPT !.stage = "saving"])
    /\ UNCHANGED <<endpointVars, disk>>

\* updateOAuth, then the deferred unlock.
Apply(p) ==
    LET a == call[p].account
        tok == call[p].tok
    IN  /\ At(p, "answered")
        /\ accessToken' = [accessToken EXCEPT ![a] = tok.access]
        /\ refreshToken' = [refreshToken EXCEPT ![a] =
                              IF tok.refresh = NoToken THEN @ ELSE tok.refresh]
        /\ nearExpiry' = [nearExpiry EXCEPT ![a] = FALSE]
        /\ refreshGen' = [refreshGen EXCEPT ![a] = @ + 1]
        /\ Unlock(a)
        /\ Proceed(p, [call[p] EXCEPT !.stage = "saving"])
        /\ UNCHANGED <<endpointVars, disk>>

\* persist -> tokenstore.Save, outside refreshMu: os.WriteFile truncates the file
\* and then writes the answer as it came, its refresh token possibly empty.
Truncate(p) ==
    /\ At(p, "saving")
    /\ disk' = [disk EXCEPT ![call[p].account] = Torn]
    /\ Proceed(p, [call[p] EXCEPT !.stage = "writing"])
    /\ UNCHANGED <<credVars, endpointVars>>

WriteFile(p) ==
    /\ At(p, "writing")
    /\ disk' = [disk EXCEPT ![call[p].account] = call[p].tok]
    /\ Leave(p, "did")
    /\ UNCHANGED <<credVars, endpointVars>>

\* The clock reaches the skew before expiresAt.  A lifetime of zero in the answer
\* makes it happen at once.
Expire(a) ==
    /\ nearExpiry' = [nearExpiry EXCEPT ![a] = TRUE]
    /\ UNCHANGED <<accessToken, refreshToken, refreshGen, refreshMu, call, endpointVars, disk>>
=============================================================================
