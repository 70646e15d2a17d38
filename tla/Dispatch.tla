------------------------------- MODULE Dispatch -------------------------------
(***************************************************************************)
(* Server.dispatch (internal/server/server.go): requests in flight at the  *)
(* same time over one credential store, refreshing near-expiry OAuth       *)
(* tokens, forcing a refresh on a 401, retrying, sidelining credentials    *)
(* and rotating.  It composes CredentialStore (the pool) and OAuthToken    *)
(* (EnsureFresh): a request is a caller of both.                           *)
(***************************************************************************)
EXTENDS CredentialStore, OAuthToken

CONSTANT Requests   \* requests ever made

NoCred == 0

ASSUME DispatchAssumption == Accounts = OAuth /\ Callers = Requests

VARIABLES
    req,        \* per request: its progress through dispatch
    cancelled,  \* per request: its context is done
    honoured    \* upstream, per account: the oldest access token it still accepts

dispatchVars == <<storeVars, tokenVars, req, cancelled, honoured>>

(***************************************************************************)
(* pick       about to call NextOf (attempt attempts made so far)          *)
(* picked     has cred, about to look at its expiry                        *)
(* refreshing in refreshCred(false); forcing: in refreshCred(true)         *)
(* send, sent first send of the attempt: before, and awaiting the answer   *)
(* resend, resent  the same after a forced refresh                         *)
(* done       dispatch returned                                            *)
(***************************************************************************)
Places == {"pick", "picked", "refreshing", "send", "sent", "forcing", "resend", "resent", "done"}
Results == {"none", "served", "cancelled", "unavailable", "exhausted"}

Request == [at : Places, match : SUBSET Creds, cred : Creds \cup {NoCred}, attempt : 0..N,
            token : Tokens, result : Results,
            stale : Tokens,      \* history: the token found near expiry, refused from above
            refused : Tokens]    \* history: the token a 401 refused

DispatchTypeOK ==
    /\ StoreTypeOK
    /\ TokenTypeOK
    /\ req \in [Requests -> Request]
    /\ cancelled \in [Requests -> BOOLEAN]
    /\ honoured \in [Accounts -> 1..(MaxIssued + 1)]

Init ==
    /\ StoreInit
    /\ TokenInit
    /\ \E match \in [Requests -> Filters] :
         req = [r \in Requests |-> [at |-> "pick", match |-> match[r], cred |-> NoCred,
                  attempt |-> 0, token |-> NoToken, result |-> "none",
                  stale |-> NoToken, refused |-> NoToken]]
    /\ cancelled = [r \in Requests |-> FALSE]
    /\ honoured = [a \in Accounts |-> 1]

-----------------------------------------------------------------------------
Cred(r) == req[r].cred
In(r, place) == req[r].at = place
Move(r, place) == req' = [req EXCEPT ![r].at = place]
Forget(r, place, result) ==
    [req[r] EXCEPT !.at = place, !.result = result, !.cred = NoCred, !.token = NoToken,
                   !.stale = NoToken, !.refused = NoToken]
Finish(r, result) == req' = [req EXCEPT ![r] = Forget(r, "done", result)]
Outcome(r) == call[r].outcome
NoCallMade == UNCHANGED <<credVars, call, endpointVars, disk>>
ResetCall(r) == Proceed(r, IdleCall)
World == <<cancelled, honoured, now>>

\* continue: the next attempt, or out of the loop with the last error (502).
NextAttempt(r) ==
    req' = [req EXCEPT ![r] =
        IF req[r].attempt < N THEN Forget(r, "pick", "none") ELSE Forget(r, "done", "exhausted")]

\* penalize and continue.
Sideline(r) == PenalizeDetail(Cred(r)) /\ NextAttempt(r)

Pick(r) ==
    /\ In(r, "pick")
    /\ \E c \in Creds :
         /\ NextOf(req[r].match, c)
         /\ req' = [req EXCEPT ![r].at = "picked", ![r].cred = c, ![r].attempt = @ + 1]
    /\ NoCallMade /\ UNCHANGED World

\* ErrNoneAvailable (503).
PickNone(r) ==
    /\ In(r, "pick")
    /\ NextOfNone(req[r].match)
    /\ Finish(r, "unavailable")
    /\ NoCallMade /\ UNCHANGED World

\* NeedsRefresh, on the clock of now: refresh first, or send as it is.
CheckExpiry(r) ==
    /\ In(r, "picked")
    /\ IF Cred(r) \in OAuth /\ nearExpiry[Cred(r)]
       THEN /\ Begin(r, Cred(r), FALSE)
            /\ req' = [req EXCEPT ![r].at = "refreshing", ![r].stale = accessToken[Cred(r)]]
       ELSE /\ Move(r, "send")
            /\ NoCallMade
    /\ UNCHANGED <<rotationVars, World>>

\* Mutant: a failed refresh is logged and the request goes on with the old token.
IgnoreRefreshError(r) ==
    /\ In(r, "refreshing")
    /\ At(r, "returned") /\ Outcome(r) \in {"failed", "aborted"}
    /\ Move(r, "send")
    /\ ResetCall(r)
    /\ UNCHANGED <<rotationVars, credVars, endpointVars, disk, World>>

\* refreshCred(false) returned: on an error sideline, else send with whatever token
\* the credential now has, whoever obtained it.
ProactiveFailed(r) ==
    /\ In(r, "refreshing")
    /\ At(r, "returned") /\ Outcome(r) \in {"failed", "aborted"}
    /\ Sideline(r)
    /\ ResetCall(r)
    /\ UNCHANGED <<credVars, endpointVars, disk, World>>

\* Refreshed, or nothing left to refresh.
ProactiveDone(r) ==
    /\ In(r, "refreshing")
    /\ At(r, "returned") /\ Outcome(r) \in {"did", "skipped"}
    /\ Move(r, "send")
    /\ ResetCall(r)
    /\ UNCHANGED <<rotationVars, credVars, endpointVars, disk, World>>

\* send reads the access token as it builds the request, and the request is on its way.
Send(r) ==
    /\ In(r, "send") \/ In(r, "resend")
    /\ req' = [req EXCEPT ![r].at = IF @ = "send" THEN "sent" ELSE "resent",
                 ![r].token = IF Cred(r) \in OAuth THEN accessToken[Cred(r)] ELSE NoToken]
    /\ NoCallMade /\ UNCHANGED <<rotationVars, World>>

\* Whether upstream accepts what the request carries.
Accepted(r) == Cred(r) \in OAuth => req[r].token >= honoured[Cred(r)]

\* Any status but 401, 403, 429: the answer is the client's, the credential is good.
AnswerGood(r) ==
    /\ In(r, "sent") \/ In(r, "resent")
    /\ Accepted(r)
    /\ MarkSuccess(Cred(r))
    /\ Finish(r, "served")
    /\ NoCallMade /\ UNCHANGED World

\* 403 or 429 (or a 401 for an API key): sideline and rotate.
AnswerLimited(r) ==
    /\ In(r, "sent")
    /\ Sideline(r)
    /\ NoCallMade /\ UNCHANGED World

\* A transport error that is not the client's doing.
SendFailed(r) ==
    /\ In(r, "sent")
    /\ ~cancelled[r]
    /\ Sideline(r)
    /\ NoCallMade /\ UNCHANGED World

SendCancelled(r) ==
    /\ In(r, "sent")
    /\ cancelled[r]
    /\ Finish(r, "cancelled")
    /\ NoCallMade /\ UNCHANGED <<rotationVars, World>>

\* 401 on an OAuth credential: refresh regardless of expiry.
AnswerRefused(r) ==
    /\ In(r, "sent")
    /\ ~Accepted(r)
    /\ Begin(r, Cred(r), TRUE)
    /\ req' = [req EXCEPT ![r].at = "forcing", ![r].refused = req[r].token]
    /\ UNCHANGED <<rotationVars, World>>

\* Mutant: dispatch retries after a skipped refresh too, with the token it sent.
RetryWithSentToken(r) ==
    /\ In(r, "forcing")
    /\ At(r, "returned") /\ Outcome(r) \in {"did", "skipped"}
    /\ req' = [req EXCEPT ![r].at = "resent"]
    /\ ResetCall(r)
    /\ UNCHANGED <<rotationVars, credVars, endpointVars, disk, World>>

\* The refresh ran: the same credential again, with its new token.
ForcedRefreshed(r) ==
    /\ In(r, "forcing")
    /\ At(r, "returned") /\ Outcome(r) = "did"
    /\ Move(r, "resend")
    /\ ResetCall(r)
    /\ UNCHANGED <<rotationVars, credVars, endpointVars, disk, World>>

\* It failed, or another request's refresh made this one skip its own.
ForcedNotRefreshed(r) ==
    /\ In(r, "forcing")
    /\ At(r, "returned") /\ Outcome(r) # "did"
    /\ Sideline(r)
    /\ ResetCall(r)
    /\ UNCHANGED <<credVars, endpointVars, disk, World>>

\* The retry failed, in whatever way.
RetryFailed(r) ==
    /\ In(r, "resent")
    /\ Sideline(r)
    /\ NoCallMade /\ UNCHANGED World

\* persist, whole: what a file cut off mid-write does is TokenRefresh's matter.
Persist(r) ==
    /\ At(r, "saving")
    /\ disk' = [disk EXCEPT ![call[r].account] = call[r].tok]
    /\ Leave(r, "did")
    /\ UNCHANGED <<credVars, endpointVars>>

\* A step of EnsureFresh or of persist within refreshCred.
EnsureFreshStep(r) ==
    /\ In(r, "refreshing") \/ In(r, "forcing")
    /\ \/ Skip(r) \/ Exchange(r) \/ Redeem(r) \/ Apply(r) \/ Persist(r)
       \/ FailRefresh(r, "failed")
       \/ cancelled[r] /\ FailRefresh(r, "aborted")
    /\ UNCHANGED <<rotationVars, req, World>>

RequestStep(r) ==
    \/ Pick(r) \/ PickNone(r) \/ CheckExpiry(r)
    \/ ProactiveFailed(r) \/ ProactiveDone(r)
    \/ Send(r) \/ AnswerGood(r) \/ AnswerLimited(r) \/ SendFailed(r) \/ SendCancelled(r)
    \/ AnswerRefused(r) \/ ForcedRefreshed(r) \/ ForcedNotRefreshed(r) \/ RetryFailed(r)
    \/ EnsureFreshStep(r)

-----------------------------------------------------------------------------
\* The client goes away, or its deadline passes.  Nothing looks at the context but a
\* send and an exchange under way, so going away earlier is going away then.
Cancel(r) ==
    /\ In(r, "sent") \/ At(r, "exchanging") \/ At(r, "answered")
    /\ ~cancelled[r]
    /\ cancelled' = [cancelled EXCEPT ![r] = TRUE]
    /\ UNCHANGED <<storeVars, tokenVars, req, honoured>>

NearExpiry(a) ==
    /\ ~nearExpiry[a]
    /\ Expire(a)
    /\ UNCHANGED <<storeVars, req, cancelled, honoured>>

\* Upstream stops accepting every access token issued so far.
Revoke(a) ==
    /\ honoured[a] <= issued[a]
    /\ honoured' = [honoured EXCEPT ![a] = issued[a] + 1]
    /\ UNCHANGED <<storeVars, tokenVars, req, cancelled>>

TimePasses == Tick /\ UNCHANGED <<tokenVars, req, cancelled, honoured>>

Done == \A r \in Requests : In(r, "done")

Next ==
    \/ \E r \in Requests : RequestStep(r) \/ Cancel(r)
    \/ \E a \in Accounts : NearExpiry(a) \/ Revoke(a)
    \/ TimePasses
    \/ Done /\ UNCHANGED dispatchVars

\* Every goroutine runs, and upstream and the token endpoint answer or time out.  Weak
\* fairness is enough: a request takes refreshMu a bounded number of times, so nobody
\* is kept waiting for ever.  Nobody owes a cancellation, an expiry or a tick.
Fairness == \A r \in Requests : WF_dispatchVars(RequestStep(r))

Spec == Init /\ [][Next]_dispatchVars
FairSpec == Spec /\ Fairness

-----------------------------------------------------------------------------
\* A request that found its token about to expire never sends that token: it is
\* newer, from this request's refresh or another's, or the request moved on.
StaleNeverSent ==
    \A r \in Requests :
        (In(r, "sent") \/ In(r, "resent")) /\ req[r].stale # NoToken => req[r].token > req[r].stale

\* The retry after a 401 carries a newer token than the one that was refused, with
\* other requests refreshing the same account.
RetryUsesNewerToken ==
    \A r \in Requests : In(r, "resent") => req[r].token > req[r].refused

\* Every request comes to an end, whoever else is refreshing, failing or leaving.
EveryRequestEnds == \A r \in Requests : <>In(r, "done")

\* "Force one refresh and retry the SAME credential before sidelining it" (dispatch,
\* and EnsureFresh's "uses the token the winner just obtained"): a request leaves a
\* forced refresh that did not fail without counting a failure.  The code sidelines
\* when another request won the refresh: see the run forced_refresh_loser.
RetriedBeforeSidelining ==
    [][\A r \in Requests :
          In(r, "forcing") /\ ~In(r, "forcing")' /\ Outcome(r) \notin {"failed", "aborted"}
          => failStreak' = failStreak]_dispatchVars

\* "Client cancellation/timeout is not the credential's fault - don't sideline it"
\* (dispatch): a refresh cut short by the client's own context counts no failure.
\* The code sidelines: see the run cancelled_refresh.
CancelledNeverSidelines ==
    [][\A r \in Requests :
          Outcome(r) = "aborted" /\ Outcome(r)' = "none" => failStreak' = failStreak]_dispatchVars
=============================================================================
