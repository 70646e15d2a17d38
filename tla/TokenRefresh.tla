----------------------------- MODULE TokenRefresh -----------------------------
(***************************************************************************)
(* Concurrent callers of EnsureFresh over a token endpoint whose answers   *)
(* can be lost, a token file, and a process that can crash and restart     *)
(* from that file.  This is the promise of credential.go and tokenstore.go *)
(* taken by itself; Dispatch puts requests on top of it.                   *)
(***************************************************************************)
EXTENDS OAuthToken

CONSTANT MaxCrashes   \* bound on crashes

ASSUME CrashAssumption == MaxCrashes \in Nat

VARIABLES
    up,         \* FALSE once startup ended in logger.Fatal
    crashes,
    replaced,   \* history: refresh tokens this process replaced by newer ones
    astray      \* history: an answer never reached memory, or was lost in a restart

refreshVars == <<tokenVars, up, crashes, replaced, astray>>

RefreshTypeOK ==
    /\ TokenTypeOK
    /\ up \in BOOLEAN
    /\ crashes \in 0..MaxCrashes
    /\ replaced \in [Accounts -> SUBSET Tokens]
    /\ astray \in [Accounts -> BOOLEAN]

Init ==
    /\ TokenInit
    /\ up = TRUE
    /\ crashes = 0
    /\ replaced = [a \in Accounts |-> {}]
    /\ astray = [a \in Accounts |-> FALSE]

-----------------------------------------------------------------------------
Request(p) ==
    /\ up
    /\ \E a \in Accounts, force \in BOOLEAN : Begin(p, a, force)
    /\ UNCHANGED <<up, crashes, replaced, astray>>

Refresh(p) ==
    LET a == call[p].account IN
    \/ /\ Skip(p) \/ Exchange(p) \/ Redeem(p) \/ Truncate(p) \/ WriteFile(p)
       /\ UNCHANGED <<up, crashes, replaced, astray>>
    \/ /\ \E outcome \in {"failed", "aborted"} : FailRefresh(p, outcome)
       /\ astray' = [astray EXCEPT ![a] = @ \/ call[p].tok.refresh # NoToken]
       /\ UNCHANGED <<up, crashes, replaced>>
    \/ /\ Apply(p)
       /\ replaced' = [replaced EXCEPT ![a] =
              IF call[p].tok.refresh = NoToken THEN @ ELSE @ \cup {call[p].sent}]
       /\ UNCHANGED <<up, crashes, astray>>

\* The caller uses the outcome and is free to call again.
Collect(p) ==
    /\ At(p, "returned")
    /\ Proceed(p, IdleCall)
    /\ UNCHANGED <<credVars, endpointVars, disk, up, crashes, replaced, astray>>

ExpireToken(a) ==
    /\ up
    /\ ~nearExpiry[a]
    /\ Expire(a)
    /\ UNCHANGED <<up, crashes, replaced, astray>>

\* The process dies and starts again from the token files.  tokenstore.Load fails
\* on a file cut off mid-write, and main ends in logger.Fatal.
CrashRestart ==
    /\ up
    /\ crashes < MaxCrashes
    /\ crashes' = crashes + 1
    /\ up' = \A a \in Accounts : disk[a] # Torn
    /\ accessToken' = [a \in Accounts |-> disk[a].access]
    /\ refreshToken' = [a \in Accounts |-> disk[a].refresh]
    /\ nearExpiry' = [a \in Accounts |-> FALSE]
    /\ refreshGen' = [a \in Accounts |-> 0]
    /\ refreshMu' = [a \in Accounts |-> NoOne]
    /\ call' = [p \in Callers |-> IdleCall]
    /\ replaced' = [a \in Accounts |-> {}]
    /\ astray' = [a \in Accounts |-> disk[a].refresh # valid[a]]
    /\ UNCHANGED <<endpointVars, disk>>

\* The supervisor starts it again, and it ends the same way.
FatalAgain == ~up /\ UNCHANGED refreshVars

Next ==
    \/ \E p \in Callers : Request(p) \/ Refresh(p) \/ Collect(p)
    \/ \E a \in Accounts : ExpireToken(a)
    \/ CrashRestart
    \/ FatalAgain

\* Go runs every runnable goroutine, a sync.Mutex in starvation mode passes to the
\* longest waiter, and the HTTP client gives up: a caller that keeps getting the
\* chance to move moves.  Requests, expiries and crashes are not owed to anyone.
Fairness ==
    \A p \in Callers :
        /\ SF_refreshVars(Refresh(p) /\ At(p, "waiting"))
        /\ WF_refreshVars(Refresh(p))
        /\ WF_refreshVars(Collect(p))

Spec == Init /\ [][Next]_refreshVars
FairSpec == Spec /\ Fairness

-----------------------------------------------------------------------------
\* A refresh token this process has replaced is never presented again, whatever the
\* interleaving of callers and failures: "the rotating (single-use) refresh token is
\* spent exactly once" (EnsureFresh).
ReplacedNeverSpent ==
    \A p \in Callers :
        At(p, "exchanging") \/ At(p, "answered") => call[p].sent \notin replaced[call[p].account]

\* The exchange that runs replaces the very token its caller found wanting: nobody
\* refreshed between the caller's decision and its exchange (the generation dedup).
ReplacesWhatItSaw ==
    \A p \in Callers :
        At(p, "exchanging") \/ At(p, "answered") => call[p].gen = refreshGen[call[p].account]

\* Unless an answer went astray, an account no one is refreshing holds the refresh
\* token the endpoint honours: concurrency alone never locks an account out.
MemoryHoldsValid ==
    \A a \in Accounts : refreshMu[a] = NoOne /\ ~astray[a] => refreshToken[a] = valid[a]

\* Every call of EnsureFresh comes back, with refreshMu contended for ever.
EveryCallReturns == \A p \in Callers : At(p, "waiting") ~> ~up \/ At(p, "idle")

\* What tokenstore.go promises ("persists OAuth credentials to disk so they survive
\* restarts"): once no call is under way, the file holds the refresh token memory
\* holds.  It does not hold of the code: see the run token_durability.
DurableWhenQuiet ==
    (\A p \in Callers : At(p, "idle")) /\ up =>
        \A a \in Accounts : disk[a].refresh = refreshToken[a]
=============================================================================
