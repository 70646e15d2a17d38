---------------------------- MODULE Dispatch_proofs ----------------------------
(***************************************************************************)
(* That dispatch sends no token it knows to be of no use, for any number   *)
(* of credentials, of requests at once, and of refreshes.                  *)
(***************************************************************************)
EXTENDS Dispatch, TLAPS

Fields == {"at", "match", "cred", "attempt", "token", "result", "stale", "refused"}
Refreshing(q) == q.at \in {"refreshing", "forcing"}
Busy(c) == c.stage \in {"exchanging", "answered"}

\* The token a refresh is to replace: the one about to expire, or the one refused.
Replaces(q) == IF q.at = "forcing" THEN q.refused ELSE q.stale

\* A call of EnsureFresh, and what it knows: that the credential's token is not older than
\* the one to be replaced, and newer once the generation has moved on or the call is done.
CallOK(r, q, c) ==
    /\ c.stage \in {"waiting", "exchanging", "answered", "saving", "returned"}
    /\ q.cred \in Accounts /\ c.account = q.cred
    /\ q.at = "refreshing" => c.near
    /\ c.gen <= refreshGen[q.cred]
    /\ accessToken[q.cred] >= Replaces(q)
    /\ c.gen < refreshGen[q.cred] \/ c.stage = "saving" => accessToken[q.cred] > Replaces(q)
    /\ c.stage = "returned" /\ c.outcome = "did" => accessToken[q.cred] > Replaces(q)
    /\ c.stage = "returned" /\ c.outcome = "skipped" /\ q.at = "refreshing"
         => accessToken[q.cred] > Replaces(q)
    /\ Busy(c) => refreshMu[q.cred] = r
    /\ c.stage = "answered" => c.tok.access > accessToken[q.cred] /\ c.tok.access <= issued[q.cred]

RequestOK(r, q, c) ==
    /\ DOMAIN q = Fields /\ q.at \in Places
    /\ q.stale \in Tokens /\ q.refused \in Tokens /\ q.token \in Tokens
    /\ q.at \in {"pick", "picked"} => q.stale = NoToken
    /\ ~Refreshing(q) => c = IdleCall
    /\ Refreshing(q) => CallOK(r, q, c)
    /\ q.stale # NoToken => q.cred \in Accounts
    /\ q.stale # NoToken /\ q.at \in {"send", "sent", "forcing", "resend", "resent"}
         => accessToken[q.cred] > q.stale
    /\ q.stale # NoToken /\ q.at \in {"sent", "resent"} => q.token > q.stale
    /\ q.at = "sent" /\ q.cred \in Accounts => q.token <= accessToken[q.cred]
    /\ q.at = "resend" => q.cred \in Accounts /\ accessToken[q.cred] > q.refused
    /\ q.at = "resent" => q.token > q.refused

DispatchInv ==
    /\ TokenTypeOK
    /\ \A a \in Accounts : accessToken[a] <= issued[a]
    /\ req = [r \in Requests |-> req[r]]
    /\ \A r \in Requests : RequestOK(r, req[r], call[r])

LEMMA Constants ==
    /\ Accounts = OAuth /\ Callers = Requests /\ NoOne \notin Requests /\ NoAccount \notin Accounts
    /\ MaxIssued \in Nat \ {0} /\ Tokens = 0..MaxIssued
    /\ \A a \in Accounts : a \in Nat /\ a # NoCred
  BY DispatchAssumption, OAuthAssumption, StoreAssumption DEF Tokens, NoCred, Creds

(***************************************************************************)
(* Types of the calls of EnsureFresh, as in TokenRefresh_proofs.           *)
(***************************************************************************)
(* What a call holds is of its type. *)
LEMMA CallTypes ==
  ASSUME TokenTypeOK, NEW p \in Callers
  PROVE  /\ call[p] \in Call
         /\ call[p].account \in Accounts \cup {NoAccount}
         /\ call[p].tok \in Pair
         /\ call[p].tok.access \in Tokens /\ call[p].tok.refresh \in Tokens
         /\ call[p].sent \in Tokens
BY DEF TokenTypeOK, Call, Pair

(* No call, no token and a torn pair are typed. *)
LEMMA IdleIsCall == IdleCall \in Call /\ NoToken \in Tokens /\ Torn \in Pair
BY OAuthAssumption
   DEF IdleCall, Call, Stages, Outcomes, Pair, Tokens, NoPair, NoToken, Torn

(* A call that is one stage further is still one. *)
LEMMA NextStage ==
  ASSUME NEW c \in Call, NEW stage \in Stages
  PROVE  /\ [c EXCEPT !.stage = stage] \in Call
         /\ \A outcome \in Outcomes : [c EXCEPT !.stage = stage, !.outcome = outcome] \in Call
         /\ \A sent \in Tokens : [c EXCEPT !.stage = stage, !.sent = sent] \in Call
         /\ \A tok \in Pair : [c EXCEPT !.stage = stage, !.tok = tok] \in Call
BY DEF Call

(* A call that proceeds leaves the others where they are. *)
LEMMA NextCall ==
  ASSUME TokenTypeOK, NEW p \in Callers, NEW next \in Call, Proceed(p, next)
  PROVE  call' \in [Callers -> Call] /\ call'[p] = next /\ \A q \in Callers \ {p} : call'[q] = call[q]
BY DEF TokenTypeOK, Proceed

LEMMA InitDispatch == Init => DispatchInv
  <1> SUFFICES ASSUME Init PROVE DispatchInv OBVIOUS
  <1>1. TokenTypeOK /\ \A a \in Accounts : accessToken[a] <= issued[a]
    BY OAuthAssumption DEF Init, TokenInit, TokenTypeOK, IdleCall, Call, Stages, Outcomes, Pair, Tokens,
       NoPair, NoToken
  <1>2. PICK match : req = [r \in Requests |-> [at |-> "pick", match |-> match[r], cred |-> NoCred,
                  attempt |-> 0, token |-> NoToken, result |-> "none",
                  stale |-> NoToken, refused |-> NoToken]]
    BY DEF Init
  <1>3. ASSUME NEW r \in Requests PROVE RequestOK(r, req[r], call[r])
    <2>1. call[r] = IdleCall
      BY Constants DEF Init, TokenInit
    <2> QED BY <1>2, <2>1, Constants DEF RequestOK, Fields, Places, Refreshing, NoToken
  <1> QED BY <1>1, <1>2, <1>3 DEF DispatchInv

\* What a request becomes, when only it changes.
LEMMA OneRequest ==
    ASSUME DispatchInv, NEW r \in Requests, NEW q, req' = [req EXCEPT ![r] = q]
    PROVE  /\ req' = [p \in Requests |-> req'[p]] /\ req'[r] = q
           /\ \A p \in Requests : p # r => req'[p] = req[p]
  BY DEF DispatchInv

\* A step of one request that leaves the tokens and the calls alone.
LEMMA NoCall ==
    ASSUME DispatchInv, NEW r \in Requests, NEW q, req' = [req EXCEPT ![r] = q],
           NoCallMade, RequestOK(r, q, call[r])
    PROVE  DispatchInv'
  <1>1. /\ req' = [p \in Requests |-> req'[p]] /\ req'[r] = q
        /\ \A p \in Requests : p # r => req'[p] = req[p]
    BY OneRequest
  <1>2. UNCHANGED <<accessToken, refreshToken, nearExpiry, refreshGen, refreshMu, call, valid, issued, disk>>
    BY DEF NoCallMade, credVars, endpointVars
  <1>3. ASSUME NEW p \in Requests PROVE RequestOK(p, req[p], call[p])'
    BY <1>1, <1>2 DEF DispatchInv, RequestOK, CallOK
  <1> QED BY <1>1, <1>2, <1>3 DEF DispatchInv, TokenTypeOK

\* A step of one request that ends its call.
LEMMA CallEnds ==
    ASSUME DispatchInv, NEW r \in Requests, NEW q, req' = [req EXCEPT ![r] = q],
           ResetCall(r), UNCHANGED <<credVars, endpointVars, disk>>,
           RequestOK(r, q, IdleCall)
    PROVE  DispatchInv'
  <1>1. /\ req' = [p \in Requests |-> req'[p]] /\ req'[r] = q
        /\ \A p \in Requests : p # r => req'[p] = req[p]
    BY OneRequest
  <1>2. UNCHANGED <<accessToken, refreshToken, nearExpiry, refreshGen, refreshMu, valid, issued, disk>>
    BY DEF credVars, endpointVars
  <1>3. call' = [call EXCEPT ![r] = IdleCall] /\ IdleCall \in Call
    BY IdleIsCall DEF ResetCall, Proceed
  <1>4. call' \in [Callers -> Call] /\ call'[r] = IdleCall /\ \A p \in Requests : p # r => call'[p] = call[p]
    BY <1>3, Constants DEF DispatchInv, TokenTypeOK
  <1>5. ASSUME NEW p \in Requests PROVE RequestOK(p, req[p], call[p])'
    BY <1>1, <1>2, <1>4 DEF DispatchInv, RequestOK, CallOK
  <1> QED BY <1>1, <1>2, <1>4, <1>5 DEF DispatchInv, TokenTypeOK

LEMMA ForgottenOK ==
    ASSUME DispatchInv, NEW r \in Requests, NEW place \in {"pick", "done"}, NEW result
    PROVE  RequestOK(r, Forget(r, place, result), IdleCall)
  BY Constants DEF DispatchInv, RequestOK, Forget, Fields, Places, Refreshing, NoToken

LEMMA FinishKeeps ==
    ASSUME DispatchInv, NEW r \in Requests, NEW result, Finish(r, result), NoCallMade,
           ~Refreshing(req[r])
    PROVE  DispatchInv'
  <1>1. call[r] = IdleCall
    BY DEF DispatchInv, RequestOK
  <1> QED BY <1>1, ForgottenOK, NoCall DEF Finish

LEMMA Nexts ==
    ASSUME NEW r \in Requests, NextAttempt(r)
    PROVE  \E place \in {"pick", "done"}, result \in Results : req' = [req EXCEPT ![r] = Forget(r, place, result)]
  BY DEF NextAttempt, Results

LEMMA SidelineKeeps ==
    ASSUME DispatchInv, NEW r \in Requests, NextAttempt(r), NoCallMade, ~Refreshing(req[r])
    PROVE  DispatchInv'
  <1>1. PICK place \in {"pick", "done"}, result \in Results : req' = [req EXCEPT ![r] = Forget(r, place, result)]
    BY Nexts
  <1>2. call[r] = IdleCall
    BY DEF DispatchInv, RequestOK
  <1> QED BY <1>1, <1>2, ForgottenOK, NoCall

LEMMA SidelineAfterCallKeeps ==
    ASSUME DispatchInv, NEW r \in Requests, NextAttempt(r), ResetCall(r),
           UNCHANGED <<credVars, endpointVars, disk>>
    PROVE  DispatchInv'
  <1>1. PICK place \in {"pick", "done"}, result \in Results : req' = [req EXCEPT ![r] = Forget(r, place, result)]
    BY Nexts
  <1> QED BY <1>1, ForgottenOK, CallEnds

\* The steps of dispatch itself, outside EnsureFresh.
LEMMA LoopKeeps ==
    ASSUME DispatchInv, NEW r \in Requests,
           \/ Pick(r) \/ PickNone(r) \/ ProactiveFailed(r) \/ ProactiveDone(r) \/ Send(r)
           \/ AnswerGood(r) \/ AnswerLimited(r) \/ SendFailed(r) \/ SendCancelled(r)
           \/ ForcedRefreshed(r) \/ ForcedNotRefreshed(r) \/ RetryFailed(r)
    PROVE  DispatchInv'
  <1>0. RequestOK(r, req[r], call[r]) /\ TokenTypeOK
    BY DEF DispatchInv
  <1>1. CASE Pick(r)
    <2>1. PICK c \in Creds : req' = [req EXCEPT ![r].at = "picked", ![r].cred = c, ![r].attempt = @ + 1]
      BY <1>1 DEF Pick
    <2> DEFINE q == [req[r] EXCEPT !.at = "picked", !.cred = c, !.attempt = @ + 1]
    <2>2. req' = [req EXCEPT ![r] = q]
      BY <2>1
    <2>3. RequestOK(r, q, call[r])
      BY <1>0, <1>1 DEF RequestOK, Pick, In, Fields, Places, Refreshing
    <2> QED BY <1>1, <2>2, <2>3, NoCall DEF Pick
  <1>2. CASE PickNone(r)
    BY <1>2, FinishKeeps DEF PickNone, In, Refreshing
  <1>3. CASE AnswerGood(r)
    BY <1>3, FinishKeeps DEF AnswerGood, In, Refreshing
  <1>4. CASE SendCancelled(r)
    BY <1>4, FinishKeeps DEF SendCancelled, In, Refreshing
  <1>5. CASE AnswerLimited(r) \/ SendFailed(r) \/ RetryFailed(r)
    BY <1>5, SidelineKeeps DEF AnswerLimited, SendFailed, RetryFailed, Sideline, In, Refreshing
  <1>6. CASE ProactiveFailed(r) \/ ForcedNotRefreshed(r)
    BY <1>6, SidelineAfterCallKeeps DEF ProactiveFailed, ForcedNotRefreshed, Sideline
  <1>7. CASE ProactiveDone(r)
    <2> DEFINE q == [req[r] EXCEPT !.at = "send"]
    <2>1. req' = [req EXCEPT ![r] = q]
      BY <1>7 DEF ProactiveDone, Move
    <2>2. RequestOK(r, q, IdleCall)
      BY <1>0, <1>7 DEF RequestOK, CallOK, Replaces, ProactiveDone, In, At, Outcome, Fields, Places, Refreshing
    <2> QED BY <1>7, <2>1, <2>2, CallEnds DEF ProactiveDone
  <1>8. CASE ForcedRefreshed(r)
    <2> DEFINE q == [req[r] EXCEPT !.at = "resend"]
    <2>1. req' = [req EXCEPT ![r] = q]
      BY <1>8 DEF ForcedRefreshed, Move
    <2>2. RequestOK(r, q, IdleCall)
      BY <1>0, <1>8 DEF RequestOK, CallOK, Replaces, ForcedRefreshed, In, At, Outcome, Fields, Places, Refreshing
    <2> QED BY <1>8, <2>1, <2>2, CallEnds DEF ForcedRefreshed
  <1>9. CASE Send(r)
    <2> DEFINE place == IF req[r].at = "send" THEN "sent" ELSE "resent"
               token == IF Cred(r) \in OAuth THEN accessToken[Cred(r)] ELSE NoToken
               q == [req[r] EXCEPT !.at = place, !.token = token]
    <2>1. req' = [req EXCEPT ![r] = q]
      BY <1>9 DEF Send
    <2>2. token \in Tokens /\ (req[r].cred \in Accounts => token = accessToken[req[r].cred])
      BY <1>0, Constants DEF TokenTypeOK, NoToken, Cred
    <2>3. q.at = place /\ q.token = token /\ DOMAIN q = Fields /\ q.stale = req[r].stale
          /\ q.refused = req[r].refused /\ q.cred = req[r].cred
      BY <1>0 DEF RequestOK, Fields
    <2> HIDE DEF q, token
    <2>4. RequestOK(r, q, call[r])
      <3>1. CASE req[r].at = "send"
        BY <1>0, <2>2, <2>3, <3>1, Constants DEF RequestOK, Places, Refreshing, TokenTypeOK
      <3>2. CASE req[r].at = "resend"
        BY <1>0, <2>2, <2>3, <3>2, Constants DEF RequestOK, Places, Refreshing, TokenTypeOK
      <3> QED BY <1>9, <3>1, <3>2 DEF Send, In
    <2> QED BY <1>9, <2>1, <2>4, NoCall DEF Send
  <1> QED BY <1>1, <1>2, <1>3, <1>4, <1>5, <1>6, <1>7, <1>8, <1>9

\* EnsureFresh is entered: nearExpiry and the generation are read.
LEMMA BeginKeeps ==
    ASSUME DispatchInv, NEW r \in Requests, NEW force \in BOOLEAN, Begin(r, Cred(r), force),
           NEW q, req' = [req EXCEPT ![r] = q], DOMAIN q = Fields, Cred(r) \in Accounts,
           Refreshing(q), q.cred = Cred(r), q.at = "refreshing" => nearExpiry[Cred(r)],
           q.stale \in Tokens, q.refused \in Tokens, q.token \in Tokens,
           accessToken[Cred(r)] >= Replaces(q),
           q.stale # NoToken /\ q.at = "forcing" => accessToken[Cred(r)] > q.stale
    PROVE  DispatchInv'
  <1>1. /\ req' = [p \in Requests |-> req'[p]] /\ req'[r] = q
        /\ \A p \in Requests : p # r => req'[p] = req[p]
    BY OneRequest
  <1>2. UNCHANGED <<accessToken, refreshToken, nearExpiry, refreshGen, refreshMu, valid, issued, disk>>
    BY DEF Begin, credVars, endpointVars
  <1>a. PICK near \in BOOLEAN, gen \in Nat : near = nearExpiry[Cred(r)] /\ gen = refreshGen[Cred(r)]
    BY DEF DispatchInv, TokenTypeOK
  <1> DEFINE c == [IdleCall EXCEPT !.stage = "waiting", !.account = Cred(r), !.force = force,
                                   !.near = near, !.gen = gen]
  <1>3. call' = [call EXCEPT ![r] = c]
    BY <1>a DEF Begin, Proceed
  <1>4. c \in Call /\ c.stage = "waiting" /\ c.account = Cred(r) /\ c.near = nearExpiry[Cred(r)]
        /\ c.gen = refreshGen[Cred(r)]
    BY <1>a, IdleIsCall DEF Call, Stages
  <1> HIDE DEF c
  <1>5. call' \in [Callers -> Call] /\ call'[r] = c /\ \A p \in Requests : p # r => call'[p] = call[p]
    BY <1>3, <1>4, Constants DEF DispatchInv, TokenTypeOK
  <1>6. RequestOK(r, q, c)
    BY <1>4 DEF RequestOK, CallOK, Busy, Refreshing, Places, DispatchInv, TokenTypeOK
  <1>7. ASSUME NEW p \in Requests PROVE RequestOK(p, req[p], call[p])'
    BY <1>1, <1>2, <1>5, <1>6 DEF DispatchInv, RequestOK, CallOK
  <1> QED BY <1>1, <1>2, <1>5, <1>7 DEF DispatchInv, TokenTypeOK

LEMMA CheckExpiryKeeps ==
    ASSUME DispatchInv, NEW r \in Requests, CheckExpiry(r) PROVE DispatchInv'
  <1>0. RequestOK(r, req[r], call[r]) /\ TokenTypeOK /\ req[r].at = "picked"
    BY DEF DispatchInv, CheckExpiry, In
  <1>1. CASE Cred(r) \in OAuth /\ nearExpiry[Cred(r)]
    <2> DEFINE q == [req[r] EXCEPT !.at = "refreshing", !.stale = accessToken[Cred(r)]]
    <2>1. req' = [req EXCEPT ![r] = q] /\ Begin(r, Cred(r), FALSE)
      BY <1>1 DEF CheckExpiry
    <2>2. q.at = "refreshing" /\ q.stale = accessToken[Cred(r)] /\ DOMAIN q = Fields
          /\ q.refused = req[r].refused /\ q.cred = req[r].cred /\ q.token = req[r].token
      BY <1>0 DEF RequestOK, Fields
    <2> HIDE DEF q
    <2>3. Cred(r) \in Accounts /\ accessToken[Cred(r)] \in Tokens
      BY <1>0, <1>1, Constants DEF TokenTypeOK
    <2>4. Refreshing(q) /\ q.cred = Cred(r) /\ accessToken[Cred(r)] >= Replaces(q)
      BY <2>2, <2>3, Constants DEF Refreshing, Replaces, Cred
    <2>5. q.stale \in Tokens /\ q.refused \in Tokens /\ q.token \in Tokens
      BY <1>0, <2>2, <2>3 DEF RequestOK
    <2> QED BY <1>1, <2>1, <2>2, <2>3, <2>4, <2>5, BeginKeeps
  <1>2. CASE ~(Cred(r) \in OAuth /\ nearExpiry[Cred(r)])
    <2> DEFINE q == [req[r] EXCEPT !.at = "send"]
    <2>1. req' = [req EXCEPT ![r] = q] /\ NoCallMade
      BY <1>2 DEF CheckExpiry, Move
    <2>2. RequestOK(r, q, call[r])
      BY <1>0 DEF RequestOK, Fields, Places, Refreshing
    <2> QED BY <2>1, <2>2, NoCall
  <1> QED BY <1>1, <1>2

LEMMA AnswerRefusedKeeps ==
    ASSUME DispatchInv, NEW r \in Requests, AnswerRefused(r) PROVE DispatchInv'
  <1>0. RequestOK(r, req[r], call[r]) /\ TokenTypeOK /\ req[r].at = "sent"
    BY DEF DispatchInv, AnswerRefused, In
  <1>1. Cred(r) \in Accounts
    BY Constants DEF AnswerRefused, Accepted
  <1> DEFINE q == [req[r] EXCEPT !.at = "forcing", !.refused = req[r].token]
  <1>2. req' = [req EXCEPT ![r] = q] /\ Begin(r, Cred(r), TRUE)
    BY DEF AnswerRefused
  <1>3. q.at = "forcing" /\ q.stale = req[r].stale /\ DOMAIN q = Fields
        /\ q.refused = req[r].token /\ q.cred = req[r].cred /\ q.token = req[r].token
    BY <1>0 DEF RequestOK, Fields
  <1> HIDE DEF q
  <1> QED BY <1>0, <1>1, <1>2, <1>3, Constants, BeginKeeps
       DEF RequestOK, TokenTypeOK, Refreshing, Replaces, Cred

\* A step of one request's call is none of another's business, unless it gives their
\* credential a newer token; and that one is not holding refreshMu then.
LEMMA OthersCall ==
    ASSUME DispatchInv, NEW p \in Requests, NEW a \in Accounts, NEW token \in Tokens, NEW gen \in Nat,
           accessToken' = [accessToken EXCEPT ![a] = token], token >= accessToken[a],
           refreshGen' = [refreshGen EXCEPT ![a] = gen], gen >= refreshGen[a],
           \A b \in Accounts : issued'[b] \in Tokens /\ issued'[b] >= issued[b],
           gen > refreshGen[a] => token > accessToken[a],
           req'[p] = req[p], call'[p] = call[p],
           Refreshing(req[p]) /\ Busy(call[p]) =>
               refreshMu'[req[p].cred] = p /\ (req[p].cred = a => token = accessToken[a])
    PROVE  RequestOK(p, req[p], call[p])'
  <1>1. RequestOK(p, req[p], call[p]) /\ TokenTypeOK
    BY DEF DispatchInv
  <1>2. \A b \in Accounts : /\ accessToken'[b] \in Tokens /\ accessToken[b] \in Tokens
                            /\ accessToken'[b] >= accessToken[b]
                            /\ refreshGen'[b] \in Nat /\ refreshGen[b] \in Nat
                            /\ refreshGen'[b] >= refreshGen[b]
                            /\ refreshGen'[b] > refreshGen[b] => accessToken'[b] > accessToken[b]
                            /\ b # a => accessToken'[b] = accessToken[b]
    <2> SUFFICES ASSUME NEW b \in Accounts
                 PROVE  /\ accessToken'[b] \in Tokens /\ accessToken[b] \in Tokens
                        /\ accessToken'[b] >= accessToken[b]
                        /\ refreshGen'[b] \in Nat /\ refreshGen[b] \in Nat
                        /\ refreshGen'[b] >= refreshGen[b]
                        /\ refreshGen'[b] > refreshGen[b] => accessToken'[b] > accessToken[b]
                        /\ b # a => accessToken'[b] = accessToken[b]
      OBVIOUS
    <2>1. accessToken[b] \in Tokens /\ refreshGen[b] \in Nat
      BY <1>1 DEF TokenTypeOK
    <2>2. accessToken'[b] = (IF b = a THEN token ELSE accessToken[b])
          /\ refreshGen'[b] = (IF b = a THEN gen ELSE refreshGen[b])
      BY <1>1 DEF TokenTypeOK
    <2> QED BY <2>1, <2>2, Constants
  <1>3. Refreshing(req[p]) => CallOK(p, req[p], call[p])'
    <2> SUFFICES ASSUME Refreshing(req[p]) PROVE CallOK(p, req[p], call[p])'
      OBVIOUS
    <2> DEFINE b == req[p].cred
    <2>1. CallOK(p, req[p], call[p]) /\ b \in Accounts /\ Replaces(req[p]) \in Tokens /\ call[p].gen \in Nat
      BY <1>1, Constants DEF RequestOK, CallOK, Replaces, TokenTypeOK, Call
    <2>2. call[p].stage = "answered" => call[p].tok.access \in Tokens
      BY CallTypes, <1>1, Constants
    <2>3. issued[b] \in Tokens /\ issued'[b] \in Tokens /\ issued'[b] >= issued[b]
      BY <1>1, <2>1 DEF TokenTypeOK
    <2>4. /\ accessToken'[b] >= Replaces(req[p]) /\ call[p].gen <= refreshGen'[b]
          /\ accessToken[b] > Replaces(req[p]) => accessToken'[b] > Replaces(req[p])
          /\ call[p].gen < refreshGen'[b] => accessToken'[b] > Replaces(req[p])
      BY <1>2, <2>1, Constants DEF CallOK
    <2>5. Busy(call[p]) => refreshMu'[b] = p /\ accessToken'[b] = accessToken[b]
      BY <1>2, <2>1
    <2>6. call[p].stage = "answered" =>
            call[p].tok.access > accessToken'[b] /\ call[p].tok.access <= issued'[b]
      BY <2>1, <2>2, <2>3, <2>5, Constants DEF CallOK, Busy
    <2>7. Replaces(req[p])' = Replaces(req[p]) /\ call'[p] = call[p] /\ req'[p] = req[p]
      BY DEF Replaces
    <2> QED BY <2>1, <2>4, <2>5, <2>6, <2>7 DEF CallOK, Busy, Replaces
  <1> QED BY <1>1, <1>2, <1>3, Constants DEF RequestOK

\* Where the call of a request stands.
LEMMA CallOf ==
    ASSUME DispatchInv, NEW r \in Requests, Refreshing(req[r])
    PROVE  /\ CallOK(r, req[r], call[r]) /\ call[r] \in Call
           /\ call[r].account = req[r].cred /\ req[r].cred \in Accounts
  BY Constants DEF DispatchInv, RequestOK, CallOK, TokenTypeOK

\* A step of a call that leaves access tokens and generations alone, and takes or gives
\* up refreshMu for itself only.
LEMMA QuietCall ==
    ASSUME DispatchInv, NEW r \in Requests, Refreshing(req[r]), NEW c \in Call,
           Proceed(r, c), UNCHANGED <<accessToken, refreshGen, req>>, TokenTypeOK',
           \A a \in Accounts : issued'[a] >= issued[a],
           \A a \in Accounts : refreshMu'[a] # refreshMu[a] =>
               a = req[r].cred /\ refreshMu[a] \in {r, NoOne},
           CallOK(r, req[r], c)'
    PROVE  DispatchInv'
  <1>1. call'[r] = c /\ \A p \in Requests : p # r => call'[p] = call[p]
    BY Constants, NextCall DEF DispatchInv
  <1>2. ASSUME NEW p \in Requests PROVE RequestOK(p, req[p], call[p])'
    <2>1. CASE p = r
      BY <1>1, <2>1 DEF DispatchInv, RequestOK
    <2>2. CASE p # r
      <3> DEFINE a == req[r].cred
      <3>a. a \in Accounts /\ accessToken[a] \in Tokens /\ refreshGen[a] \in Nat
            /\ accessToken' = [accessToken EXCEPT ![a] = accessToken[a]]
            /\ refreshGen' = [refreshGen EXCEPT ![a] = refreshGen[a]]
        BY CallOf DEF DispatchInv, TokenTypeOK
      <3>1. PICK token \in Tokens, gen \in Nat :
              /\ token = accessToken[a] /\ gen = refreshGen[a]
              /\ accessToken' = [accessToken EXCEPT ![a] = token]
              /\ refreshGen' = [refreshGen EXCEPT ![a] = gen]
        BY <3>a
      <3>2. token >= accessToken[a] /\ gen >= refreshGen[a] /\ ~(gen > refreshGen[a])
        BY <3>a, <3>1, Constants
      <3>3. Refreshing(req[p]) /\ Busy(call[p]) => refreshMu'[req[p].cred] = p
        <4>1. ASSUME Refreshing(req[p]), Busy(call[p])
              PROVE  refreshMu[req[p].cred] = p /\ req[p].cred \in Accounts
          BY <4>1, CallOf DEF CallOK
        <4> QED BY <2>2, <4>1, Constants
      <3>4. call'[p] = call[p] /\ req'[p] = req[p]
        BY <1>1, <2>2
      <3>5. \A b \in Accounts : issued'[b] \in Tokens /\ issued'[b] >= issued[b]
        BY DEF TokenTypeOK
      <3> HIDE DEF a
      <3> QED BY <3>a, <3>1, <3>2, <3>3, <3>4, <3>5, OthersCall
    <2> QED BY <2>1, <2>2
  <1>3. \A a \in Accounts : accessToken'[a] <= issued'[a]
    <2>1. \A a \in Accounts : accessToken[a] \in Tokens /\ issued[a] \in Tokens /\ issued'[a] \in Tokens
      BY DEF DispatchInv, TokenTypeOK
    <2> QED BY <2>1, Constants DEF DispatchInv
  <1>4. req' = [p \in Requests |-> req'[p]]
    BY DEF DispatchInv
  <1> QED BY <1>2, <1>3, <1>4 DEF DispatchInv

LEMMA SkipKeeps ==
    ASSUME DispatchInv, NEW r \in Requests, Refreshing(req[r]), Skip(r), UNCHANGED req
    PROVE  DispatchInv'
  <1>1. CallOK(r, req[r], call[r]) /\ call[r] \in Call /\ call[r].account = req[r].cred
        /\ req[r].cred \in Accounts
    BY CallOf
  <1>2. PICK c \in Call : c = [call[r] EXCEPT !.stage = "returned", !.outcome = "skipped"]
    BY <1>1, NextStage DEF Stages, Outcomes
  <1>3. c.stage = "returned" /\ c.outcome = "skipped" /\ c.account = call[r].account
        /\ c.near = call[r].near /\ c.gen = call[r].gen
    BY <1>1, <1>2 DEF Call
  <1>4. Proceed(r, c) /\ UNCHANGED <<accessToken, refreshToken, nearExpiry, refreshGen, refreshMu,
                                     valid, issued, disk>>
    BY <1>2 DEF Skip, Leave, credVars, endpointVars
  <1>5. TokenTypeOK'
    BY <1>4, NextCall, Constants DEF DispatchInv, TokenTypeOK
  <1>6. refreshGen[req[r].cred] \in Nat /\ c.gen \in Nat
    BY <1>1 DEF DispatchInv, TokenTypeOK, Call
  <1>7. CallOK(r, req[r], c)
    BY <1>1, <1>3, <1>6 DEF CallOK, Skip, At, Busy
  <1>8. CallOK(r, req[r], c)'
    BY <1>4, <1>7 DEF CallOK
  <1>9. \A a \in Accounts : issued'[a] >= issued[a]
    BY <1>4, Constants DEF DispatchInv, TokenTypeOK
  <1> QED BY <1>4, <1>5, <1>8, <1>9, QuietCall

LEMMA ExchangeKeeps ==
    ASSUME DispatchInv, NEW r \in Requests, Refreshing(req[r]), Exchange(r), UNCHANGED req
    PROVE  DispatchInv'
  <1>1. CallOK(r, req[r], call[r]) /\ call[r] \in Call /\ call[r].account = req[r].cred
        /\ req[r].cred \in Accounts
    BY CallOf
  <1>a. refreshToken[call[r].account] \in Tokens
    BY <1>1 DEF DispatchInv, TokenTypeOK
  <1>2. PICK c \in Call : c = [call[r] EXCEPT !.stage = "exchanging", !.sent = refreshToken[call[r].account]]
    BY <1>1, <1>a, NextStage DEF Stages
  <1>3. c.stage = "exchanging" /\ c.account = call[r].account
        /\ c.near = call[r].near /\ c.gen = call[r].gen
    BY <1>1, <1>2 DEF Call
  <1>4. Proceed(r, c) /\ UNCHANGED <<accessToken, refreshToken, nearExpiry, refreshGen, valid, issued, disk>>
        /\ refreshMu[req[r].cred] = NoOne /\ refreshMu' = [refreshMu EXCEPT ![req[r].cred] = r]
    BY <1>1, <1>2 DEF Exchange, endpointVars
  <1>b. refreshMu' \in [Accounts -> Callers \cup {NoOne}] /\ refreshMu'[req[r].cred] = r
        /\ \A a \in Accounts : a # req[r].cred => refreshMu'[a] = refreshMu[a]
    BY <1>1, <1>4, Constants DEF DispatchInv, TokenTypeOK
  <1>5. TokenTypeOK'
    BY <1>4, <1>b, NextCall, Constants DEF DispatchInv, TokenTypeOK
  <1>7. CallOK(r, req[r], c)'
    BY <1>1, <1>3, <1>4, <1>b DEF CallOK, Exchange, At, Busy
  <1>8. \A a \in Accounts : issued'[a] >= issued[a]
    BY <1>4, Constants DEF DispatchInv, TokenTypeOK
  <1> QED BY <1>4, <1>b, <1>5, <1>7, <1>8, QuietCall

LEMMA RedeemKeeps ==
    ASSUME DispatchInv, NEW r \in Requests, Refreshing(req[r]), Redeem(r), UNCHANGED req
    PROVE  DispatchInv'
  <1> DEFINE a == req[r].cred
  <1>1. CallOK(r, req[r], call[r]) /\ call[r] \in Call /\ call[r].account = a /\ a \in Accounts
    BY CallOf
  <1>2. PICK n : n = issued[a] + 1 /\ n <= MaxIssued /\ issued' = [issued EXCEPT ![a] = n]
    BY <1>1 DEF Redeem
  <1>3. n \in Tokens /\ n > issued[a] /\ n > accessToken[a] /\ issued[a] \in Tokens
    BY <1>1, <1>2, Constants DEF DispatchInv, TokenTypeOK
  <1>4. PICK refresh \in {n, NoToken} :
          /\ valid' = [valid EXCEPT ![a] = IF refresh = NoToken THEN @ ELSE refresh]
          /\ Proceed(r, [call[r] EXCEPT !.stage = "answered", !.tok = [access |-> n, refresh |-> refresh]])
    BY <1>1, <1>2 DEF Redeem
  <1>5. refresh \in Tokens /\ [access |-> n, refresh |-> refresh] \in Pair
    BY <1>3, IdleIsCall DEF Pair
  <1>6. PICK c \in Call : c = [call[r] EXCEPT !.stage = "answered", !.tok = [access |-> n, refresh |-> refresh]]
    BY <1>1, <1>5, NextStage DEF Stages
  <1>7. c.stage = "answered" /\ c.account = call[r].account /\ c.near = call[r].near /\ c.gen = call[r].gen
        /\ c.tok.access = n
    BY <1>1, <1>6 DEF Call
  <1>8. Proceed(r, c) /\ UNCHANGED <<accessToken, refreshToken, nearExpiry, refreshGen, refreshMu, disk>>
    BY <1>4, <1>6 DEF Redeem, credVars
  <1>9. valid' \in [Accounts -> Tokens] /\ issued' \in [Accounts -> Tokens]
    BY <1>2, <1>3, <1>4, <1>5 DEF DispatchInv, TokenTypeOK
  <1>10. TokenTypeOK'
    BY <1>8, <1>9, NextCall, Constants DEF DispatchInv, TokenTypeOK
  <1>d. issued'[a] = n
    BY <1>1, <1>2, <1>3 DEF DispatchInv, TokenTypeOK
  <1>11. CallOK(r, req[r], c)'
    BY <1>1, <1>3, <1>7, <1>8, <1>d, Constants DEF CallOK, Redeem, At, Busy
  <1>12. \A b \in Accounts : issued'[b] >= issued[b]
    BY <1>2, <1>3, Constants DEF DispatchInv, TokenTypeOK
  <1> QED BY <1>8, <1>10, <1>11, <1>12, QuietCall

LEMMA FailRefreshKeeps ==
    ASSUME DispatchInv, NEW r \in Requests, Refreshing(req[r]), NEW outcome \in {"failed", "aborted"},
           FailRefresh(r, outcome), UNCHANGED req
    PROVE  DispatchInv'
  <1>1. CallOK(r, req[r], call[r]) /\ call[r] \in Call /\ call[r].account = req[r].cred
        /\ req[r].cred \in Accounts
    BY CallOf
  <1>2. PICK c \in Call : c = [call[r] EXCEPT !.stage = "returned", !.outcome = outcome]
    BY <1>1, NextStage DEF Stages, Outcomes
  <1>3. c.stage = "returned" /\ c.outcome = outcome /\ c.account = call[r].account
        /\ c.near = call[r].near /\ c.gen = call[r].gen
    BY <1>1, <1>2 DEF Call
  <1>4. Proceed(r, c) /\ UNCHANGED <<accessToken, refreshToken, nearExpiry, refreshGen, valid, issued, disk>>
        /\ refreshMu[req[r].cred] = r /\ refreshMu' = [refreshMu EXCEPT ![req[r].cred] = NoOne]
    BY <1>1, <1>2 DEF FailRefresh, Leave, Unlock, endpointVars, CallOK, Busy, At
  <1>b. refreshMu' \in [Accounts -> Callers \cup {NoOne}]
        /\ \A a \in Accounts : a # req[r].cred => refreshMu'[a] = refreshMu[a]
    BY <1>1, <1>4 DEF DispatchInv, TokenTypeOK
  <1>5. TokenTypeOK'
    BY <1>4, <1>b, NextCall, Constants DEF DispatchInv, TokenTypeOK
  <1>7. CallOK(r, req[r], c)'
    BY <1>1, <1>3, <1>4 DEF CallOK, Busy
  <1>8. \A a \in Accounts : issued'[a] >= issued[a]
    BY <1>4, Constants DEF DispatchInv, TokenTypeOK
  <1> QED BY <1>4, <1>b, <1>5, <1>7, <1>8, QuietCall

LEMMA PersistKeeps ==
    ASSUME DispatchInv, NEW r \in Requests, Refreshing(req[r]), Persist(r), UNCHANGED req
    PROVE  DispatchInv'
  <1>1. CallOK(r, req[r], call[r]) /\ call[r] \in Call /\ call[r].account = req[r].cred
        /\ req[r].cred \in Accounts /\ call[r].tok \in Pair
    BY CallOf, CallTypes, Constants DEF DispatchInv
  <1>2. PICK c \in Call : c = [call[r] EXCEPT !.stage = "returned", !.outcome = "did"]
    BY <1>1, NextStage DEF Stages, Outcomes
  <1>3. c.stage = "returned" /\ c.outcome = "did" /\ c.account = call[r].account
        /\ c.near = call[r].near /\ c.gen = call[r].gen
    BY <1>1, <1>2 DEF Call
  <1>4. Proceed(r, c) /\ UNCHANGED <<accessToken, refreshToken, nearExpiry, refreshGen, refreshMu,
                                     valid, issued>>
        /\ disk' = [disk EXCEPT ![req[r].cred] = call[r].tok]
    BY <1>1, <1>2 DEF Persist, Leave, credVars, endpointVars
  <1>5. TokenTypeOK'
    BY <1>1, <1>4, NextCall, Constants DEF DispatchInv, TokenTypeOK
  <1>7. CallOK(r, req[r], c)'
    BY <1>1, <1>3, <1>4 DEF CallOK, Persist, At, Busy
  <1>8. \A a \in Accounts : issued'[a] >= issued[a]
    BY <1>4, Constants DEF DispatchInv, TokenTypeOK
  <1> QED BY <1>4, <1>5, <1>7, <1>8, QuietCall

\* The only step that replaces an access token, for requests of its account and others.
LEMMA ApplyKeeps ==
    ASSUME DispatchInv, NEW r \in Requests, Refreshing(req[r]), Apply(r), UNCHANGED req
    PROVE  DispatchInv'
  <1> DEFINE a == req[r].cred
             token == call[r].tok.access
             gen == refreshGen[a] + 1
  <1>1. CallOK(r, req[r], call[r]) /\ call[r] \in Call /\ call[r].account = a /\ a \in Accounts
    BY CallOf
  <1>2. token \in Tokens /\ call[r].tok.refresh \in Tokens
    BY CallTypes, Constants DEF DispatchInv
  <1>3. token > accessToken[a] /\ accessToken[a] \in Tokens /\ gen \in Nat /\ gen > refreshGen[a]
        /\ refreshGen[a] \in Nat /\ refreshMu[a] = r /\ token <= issued[a]
    BY <1>1 DEF CallOK, Apply, At, Busy, DispatchInv, TokenTypeOK
  <1>4. PICK c \in Call : c = [call[r] EXCEPT !.stage = "saving"]
    BY <1>1, NextStage DEF Stages
  <1>5. c.stage = "saving" /\ c.account = call[r].account /\ c.near = call[r].near /\ c.gen = call[r].gen
    BY <1>1, <1>4 DEF Call
  <1>6. /\ Proceed(r, c) /\ UNCHANGED <<valid, issued, disk>>
        /\ accessToken' = [accessToken EXCEPT ![a] = token]
        /\ refreshGen' = [refreshGen EXCEPT ![a] = gen]
        /\ refreshMu' = [refreshMu EXCEPT ![a] = NoOne]
        /\ nearExpiry' = [nearExpiry EXCEPT ![a] = FALSE]
        /\ refreshToken' = [refreshToken EXCEPT ![a] = IF call[r].tok.refresh = NoToken THEN @
                                                       ELSE call[r].tok.refresh]
    BY <1>1, <1>4 DEF Apply, Unlock, endpointVars
  <1>7. call' \in [Callers -> Call] /\ call'[r] = c /\ \A p \in Requests : p # r => call'[p] = call[p]
    BY <1>6, Constants, NextCall DEF DispatchInv
  <1>8. TokenTypeOK'
    BY <1>1, <1>2, <1>3, <1>6, <1>7 DEF DispatchInv, TokenTypeOK
  <1>9. accessToken'[a] = token /\ refreshGen'[a] = gen
    BY <1>1, <1>6 DEF DispatchInv, TokenTypeOK
  <1> HIDE DEF token, gen
  <1>10. ASSUME NEW p \in Requests PROVE RequestOK(p, req[p], call[p])'
    <2>1. CASE p = r
      <3> DEFINE q == req[r]
      <3>0. q' = q /\ RequestOK(r, q, call[r])
        BY DEF DispatchInv
      <3>1. Replaces(q) \in Tokens /\ c.gen \in Nat /\ q.stale \in Tokens
        BY <3>0, Constants DEF RequestOK, Replaces, Call
      <3>2. accessToken[a] >= Replaces(q) /\ c.gen <= refreshGen[a] /\ (q.at = "refreshing" => c.near)
        BY <1>1, <1>5 DEF CallOK
      <3>3. accessToken'[a] > Replaces(q) /\ accessToken'[a] > accessToken[a] /\ c.gen < refreshGen'[a]
            /\ accessToken'[a] \in Tokens
        BY <1>2, <1>3, <1>9, <3>1, <3>2, Constants
      <3>4. c.gen <= refreshGen'[a] /\ accessToken'[a] >= Replaces(q)
        BY <1>3, <1>9, <3>1, <3>3, Constants
      <3>5. CallOK(r, q, c)'
        BY <1>1, <1>5, <3>0, <3>2, <3>3, <3>4 DEF CallOK, Busy, Replaces
      <3>6. q.stale # NoToken /\ q.at = "forcing" => accessToken'[a] > q.stale
        BY <1>3, <3>0, <3>1, <3>3, Constants DEF RequestOK
      <3>7. RequestOK(r, q, c)'
        BY <3>0, <3>5, <3>6 DEF RequestOK, Refreshing
      <3> QED BY <1>7, <2>1, <3>0, <3>7
    <2>2. CASE p # r
      <3>1. Refreshing(req[p]) /\ Busy(call[p]) => refreshMu'[req[p].cred] = p /\ req[p].cred # a
        <4>1. ASSUME Refreshing(req[p]), Busy(call[p])
              PROVE  refreshMu[req[p].cred] = p /\ req[p].cred \in Accounts
          BY <4>1, CallOf DEF CallOK
        <4> QED BY <1>3, <1>6, <2>2, <4>1 DEF DispatchInv, TokenTypeOK
      <3>2. token >= accessToken[a] /\ gen >= refreshGen[a]
        BY <1>2, <1>3, Constants
      <3>3. \A b \in Accounts : issued'[b] \in Tokens /\ issued'[b] >= issued[b]
        BY <1>6, Constants DEF DispatchInv, TokenTypeOK
      <3> QED BY <1>1, <1>2, <1>3, <1>6, <1>7, <2>2, <3>1, <3>2, <3>3, OthersCall
    <2> QED BY <2>1, <2>2
  <1>11. \A b \in Accounts : accessToken'[b] <= issued'[b]
    <2>1. \A b \in Accounts : b # a => accessToken'[b] = accessToken[b]
      BY <1>6 DEF DispatchInv, TokenTypeOK
    <2> QED BY <1>3, <1>6, <1>9, <2>1 DEF DispatchInv
  <1>12. req' = [p \in Requests |-> req'[p]]
    BY DEF DispatchInv
  <1> QED BY <1>8, <1>10, <1>11, <1>12 DEF DispatchInv

\* A step of refreshCred.
LEMMA EnsureFreshStepKeeps ==
    ASSUME DispatchInv, NEW r \in Requests, EnsureFreshStep(r) PROVE DispatchInv'
  <1>1. Refreshing(req[r]) /\ UNCHANGED req
    BY DEF EnsureFreshStep, In, Refreshing
  <1>2. \/ Skip(r) \/ Exchange(r) \/ Redeem(r) \/ Apply(r) \/ Persist(r)
        \/ \E outcome \in {"failed", "aborted"} : FailRefresh(r, outcome)
    BY DEF EnsureFreshStep
  <1> QED BY <1>1, <1>2, SkipKeeps, ExchangeKeeps, RedeemKeeps, ApplyKeeps, PersistKeeps, FailRefreshKeeps

\* The clocks, the clients and upstream: nothing the invariant speaks of changes but
\* nearExpiry, and a call in progress has read that already.
LEMMA WorldKeeps ==
    ASSUME DispatchInv, UNCHANGED <<accessToken, refreshToken, refreshGen, refreshMu, call, valid, issued,
                                    disk, req>>,
           nearExpiry' \in [Accounts -> BOOLEAN]
    PROVE  DispatchInv'
  <1>1. TokenTypeOK'
    BY DEF DispatchInv, TokenTypeOK
  <1>2. ASSUME NEW p \in Requests PROVE RequestOK(p, req[p], call[p])'
    BY DEF DispatchInv, RequestOK, CallOK
  <1> QED BY <1>1, <1>2 DEF DispatchInv

LEMMA NextKeeps == DispatchInv /\ [Next]_dispatchVars => DispatchInv'
  <1> SUFFICES ASSUME DispatchInv, [Next]_dispatchVars PROVE DispatchInv'
    OBVIOUS
  <1>0. nearExpiry \in [Accounts -> BOOLEAN]
    BY DEF DispatchInv, TokenTypeOK
  <1>1. ASSUME NEW r \in Requests, RequestStep(r) PROVE DispatchInv'
    BY <1>1, LoopKeeps, CheckExpiryKeeps, AnswerRefusedKeeps, EnsureFreshStepKeeps DEF RequestStep
  <1>2. ASSUME NEW r \in Requests, Cancel(r) PROVE DispatchInv'
    BY <1>0, <1>2, WorldKeeps DEF Cancel, tokenVars, credVars, endpointVars
  <1>3. ASSUME NEW a \in Accounts, NearExpiry(a) PROVE DispatchInv'
    BY <1>0, <1>3, WorldKeeps DEF NearExpiry, Expire, endpointVars
  <1>4. ASSUME NEW a \in Accounts, Revoke(a) PROVE DispatchInv'
    BY <1>0, <1>4, WorldKeeps DEF Revoke, tokenVars, credVars, endpointVars
  <1>5. CASE TimePasses
    BY <1>0, <1>5, WorldKeeps DEF TimePasses, tokenVars, credVars, endpointVars
  <1>6. CASE UNCHANGED dispatchVars
    BY <1>0, <1>6, WorldKeeps DEF dispatchVars, tokenVars, credVars, endpointVars
  <1> QED BY <1>1, <1>2, <1>3, <1>4, <1>5, <1>6 DEF Next

LEMMA DispatchInvariant == Spec => []DispatchInv
  BY InitDispatch, NextKeeps, PTL DEF Spec

\* A request that found its token about to expire sends a newer one or none, whoever
\* refreshed it and however the refreshes of the others interleave (dispatch, EnsureFresh).
THEOREM ExpiringTokensAreNotSent == Spec => []StaleNeverSent
  <1>1. DispatchInv => StaleNeverSent
    <2> SUFFICES ASSUME DispatchInv, NEW r \in Requests, In(r, "sent") \/ In(r, "resent"),
                        req[r].stale # NoToken
                 PROVE  req[r].token > req[r].stale
      BY DEF StaleNeverSent
    <2>1. RequestOK(r, req[r], call[r])
      BY DEF DispatchInv
    <2> QED BY <2>1 DEF RequestOK, In
  <1> QED BY <1>1, DispatchInvariant, PTL

\* The retry after a 401 carries a token issued after the one that was refused: the
\* generation check lets a request retry only when its own refresh ran (EnsureFresh).
THEOREM RetriesCarryNewerTokens == Spec => []RetryUsesNewerToken
  <1>1. DispatchInv => RetryUsesNewerToken
    <2> SUFFICES ASSUME DispatchInv, NEW r \in Requests, In(r, "resent")
                 PROVE  req[r].token > req[r].refused
      BY DEF RetryUsesNewerToken
    <2>1. RequestOK(r, req[r], call[r])
      BY DEF DispatchInv
    <2> QED BY <2>1 DEF RequestOK, In
  <1> QED BY <1>1, DispatchInvariant, PTL

-----------------------------------------------------------------------------
(***************************************************************************)
(* Types.                                                                  *)
(***************************************************************************)
LEMMA BackoffTyped ==
  ASSUME NEW streak \in Nat
  PROVE  Backoff(streak) \in Nat
BY StoreAssumption DEF Backoff

(* The critical sections of Store.mu keep its variables in their types. *)
LEMMA StoreSteps ==
  ASSUME StoreTypeOK, UNCHANGED now, NEW c \in Creds,
         \/ UNCHANGED rotationVars
         \/ \E match \in SUBSET Creds : NextOf(match, c)
         \/ PenalizeDetail(c)
         \/ MarkSuccess(c)
  PROVE  StoreTypeOK'
<1> USE DEF StoreTypeOK
<1>1. CASE UNCHANGED rotationVars
  BY <1>1 DEF rotationVars
<1>2. ASSUME NEW match \in SUBSET Creds, NextOf(match, c)
      PROVE  StoreTypeOK'
  <2>1. PICK k \in Creds : idx' = IF fillFirst THEN idx ELSE Wrap(idx + k)
    BY <1>2 DEF NextOf
  <2>2. Wrap(idx + k) \in Creds
    BY StoreAssumption DEF Wrap, Creds
  <2>3. idx' \in Creds
    BY <2>1, <2>2
  <2> QED
    BY <1>2, <2>3 DEF NextOf
<1>3. CASE PenalizeDetail(c)
  <2>1. CASE CountFailure(c)
    <3>1. failStreak[c] + 1 \in Nat
      OBVIOUS
    <3>2. now + Backoff(failStreak[c] + 1) \in Int
      BY <3>1, BackoffTyped
    <3> QED
      BY <2>1, <3>1, <3>2 DEF CountFailure
  <2>2. CASE UNCHANGED rotationVars
    BY <2>2 DEF rotationVars
  <2> QED
    BY <1>3, <2>1, <2>2 DEF PenalizeDetail
<1>4. CASE MarkSuccess(c)
  BY <1>4 DEF MarkSuccess
<1> QED
  BY <1>1, <1>2, <1>3, <1>4

(* A request has a credential between its picks, and an attempt left when it picks. *)
RequestTyped(q) ==
    /\ q \in Request
    /\ q.at = "pick" => q.attempt < N
    /\ q.at \notin {"pick", "done"} => q.cred \in Creds

TypeIInv ==
    /\ StoreTypeOK
    /\ req \in [Requests -> Request] /\ \A r \in Requests : RequestTyped(req[r])
    /\ cancelled \in [Requests -> BOOLEAN]
    /\ honoured \in [Accounts -> 1..(MaxIssued + 1)]

(* A step of a request that leaves the rest of the world alone. *)
LEMMA RequestTypeKept ==
  ASSUME TypeIInv, NEW r \in Requests, NEW q, RequestTyped(q),
         req' = [req EXCEPT ![r] = q], UNCHANGED World, StoreTypeOK'
  PROVE  TypeIInv'
<1>1. req \in [Requests -> Request] /\ q \in Request
  BY DEF TypeIInv, RequestTyped
<1>2. req' \in [Requests -> Request] /\ \A p \in Requests : req'[p] = IF p = r THEN q ELSE req[p]
  BY <1>1
<1>3. \A p \in Requests : RequestTyped(req'[p])
  BY <1>2 DEF TypeIInv
<1> QED
  BY <1>2, <1>3 DEF TypeIInv, World, RequestTyped

LEMMA ForgetTyped ==
  ASSUME NEW r \in Requests, RequestTyped(req[r]), NEW place \in {"pick", "done"},
         NEW result \in Results, place = "pick" => req[r].attempt < N
  PROVE  RequestTyped(Forget(r, place, result))
<1>1. PICK q \in Request : q = req[r]
  BY DEF RequestTyped
<1> DEFINE d == [q EXCEPT !.at = place, !.result = result, !.cred = NoCred, !.token = NoToken,
                          !.stale = NoToken, !.refused = NoToken]
<1>2. d \in Request /\ d.at = place /\ d.attempt = q.attempt
  BY IdleIsCall DEF Request, Places
<1>3. Forget(r, place, result) = d
  BY <1>1 DEF Forget
<1> HIDE DEF d
<1> QED
  BY <1>1, <1>2, <1>3 DEF RequestTyped

(* What a request does with its own record, and with the store. *)
LEMMA MoveTyped ==
  ASSUME NEW q \in Request, RequestTyped(q), q.cred \in Creds,
         NEW place \in Places \ {"pick", "done"}, NEW token \in Tokens
  PROVE  /\ RequestTyped([q EXCEPT !.at = place])
         /\ RequestTyped([q EXCEPT !.at = place, !.token = token])
         /\ RequestTyped([q EXCEPT !.at = place, !.stale = token])
         /\ RequestTyped([q EXCEPT !.at = place, !.refused = token])
BY DEF RequestTyped, Request

LEMMA PickTyped ==
  ASSUME NEW q \in Request, q.attempt < N, NEW c \in Creds
  PROVE  RequestTyped([q EXCEPT !.at = "picked", !.cred = c, !.attempt = q.attempt + 1])
<1>1. q.attempt + 1 \in 0..N
  BY StoreAssumption DEF Request
<1> DEFINE d == [q EXCEPT !.at = "picked", !.cred = c, !.attempt = q.attempt + 1]
<1>2. d \in Request /\ d.at = "picked" /\ d.cred = c
  BY <1>1 DEF Request, Places
<1> HIDE DEF d
<1>3. RequestTyped(d)
  BY <1>2 DEF RequestTyped
<1> QED
  BY <1>3 DEF d

LEMMA TypedRequest ==
  ASSUME TypeIInv, NEW r \in Requests
  PROVE  /\ req[r] \in Request /\ RequestTyped(req[r]) /\ req \in [Requests -> Request]
         /\ req[r].at \in Places /\ req[r].match \in SUBSET Creds /\ req[r].token \in Tokens
         /\ req[r].at \notin {"pick", "done"} => req[r].cred \in Creds
BY DEF TypeIInv, RequestTyped, Request

(* A request that is sidelined, or that ends. *)
LEMMA SidelineTyped ==
  ASSUME TypeIInv, NEW r \in Requests, req[r].at \notin {"pick", "done"},
         Sideline(r), UNCHANGED World
  PROVE  TypeIInv'
<1>1. req[r].cred \in Creds /\ RequestTyped(req[r])
  BY TypedRequest
<1>2. StoreTypeOK'
  BY <1>1, StoreSteps DEF TypeIInv, Sideline, Cred, World
<1>3. PICK q : RequestTyped(q) /\ req' = [req EXCEPT ![r] = q]
  <2>1. CASE req[r].attempt < N
    <3>1. req' = [req EXCEPT ![r] = Forget(r, "pick", "none")]
      BY <2>1 DEF Sideline, NextAttempt
    <3>2. RequestTyped(Forget(r, "pick", "none"))
      BY <1>1, <2>1, ForgetTyped DEF Results
    <3> QED
      BY <3>1, <3>2
  <2>2. CASE ~(req[r].attempt < N)
    <3>1. req' = [req EXCEPT ![r] = Forget(r, "done", "exhausted")]
      BY <2>2 DEF Sideline, NextAttempt
    <3>2. RequestTyped(Forget(r, "done", "exhausted"))
      BY <1>1, <2>2, ForgetTyped DEF Results
    <3> QED
      BY <3>1, <3>2
  <2> QED
    BY <2>1, <2>2
<1> QED
  BY <1>2, <1>3, RequestTypeKept

LEMMA FinishTyped ==
  ASSUME TypeIInv, NEW r \in Requests, NEW result \in Results, Finish(r, result),
         UNCHANGED World, StoreTypeOK'
  PROVE  TypeIInv'
<1>1. RequestTyped(Forget(r, "done", result))
  BY TypedRequest, ForgetTyped
<1> QED
  BY <1>1, RequestTypeKept DEF Finish

LEMMA StoreAlone ==
  ASSUME StoreTypeOK, UNCHANGED rotationVars, UNCHANGED now
  PROVE  StoreTypeOK'
BY DEF StoreTypeOK, rotationVars

LEMMA RequestStepTyped ==
  ASSUME DispatchInv, TypeIInv, NEW r \in Requests, RequestStep(r)
  PROVE  TypeIInv'
<1> USE DEF In
<1> DEFINE q == req[r]
<1>1. /\ q \in Request /\ RequestTyped(q) /\ req \in [Requests -> Request]
      /\ q.at \in Places /\ q.match \in SUBSET Creds /\ q.token \in Tokens
      /\ q.at \notin {"pick", "done"} => q.cred \in Creds
  BY TypedRequest
<1>2. StoreTypeOK /\ (UNCHANGED World => now' = now)
  BY DEF TypeIInv, World
<1>3. \A a \in OAuth : accessToken[a] \in Tokens
  BY Constants DEF DispatchInv, TokenTypeOK
<1>4. CASE Pick(r)
  <2>1. PICK c \in Creds : /\ NextOf(q.match, c)
                           /\ req' = [req EXCEPT ![r].at = "picked", ![r].cred = c, ![r].attempt = @ + 1]
    BY <1>4 DEF Pick
  <2>2. req' = [req EXCEPT ![r] = [q EXCEPT !.at = "picked", !.cred = c, !.attempt = q.attempt + 1]]
    BY <1>1, <2>1
  <2>3. q.attempt < N
    BY <1>1, <1>4 DEF Pick, RequestTyped
  <2>4. UNCHANGED World /\ StoreTypeOK'
    BY <1>1, <1>2, <1>4, <2>1, StoreSteps DEF Pick
  <2> QED
    BY <1>1, <2>2, <2>3, <2>4, PickTyped, RequestTypeKept
<1>5. CASE PickNone(r)
  <2>1. UNCHANGED World /\ StoreTypeOK'
    BY <1>2, <1>5, StoreAlone DEF PickNone, NextOfNone
  <2> QED
    BY <1>5, <2>1, FinishTyped DEF PickNone, Results
<1>6. CASE CheckExpiry(r)
  <2>1. UNCHANGED World /\ StoreTypeOK' /\ q.cred \in Creds
    BY <1>1, <1>2, <1>6, StoreAlone DEF CheckExpiry
  <2>2. CASE q.cred \in OAuth /\ nearExpiry[q.cred]
    <3>1. PICK token \in Tokens : token = accessToken[q.cred]
      BY <1>3, <2>2
    <3>2. req' = [req EXCEPT ![r] = [q EXCEPT !.at = "refreshing", !.stale = token]]
      BY <1>1, <1>6, <2>2, <3>1 DEF CheckExpiry, Cred
    <3>3. RequestTyped([q EXCEPT !.at = "refreshing", !.stale = token])
      BY <1>1, <2>1, MoveTyped DEF Places
    <3> QED
      BY <2>1, <3>2, <3>3, RequestTypeKept
  <2>3. CASE ~(q.cred \in OAuth /\ nearExpiry[q.cred])
    <3>1. req' = [req EXCEPT ![r] = [q EXCEPT !.at = "send"]]
      BY <1>1, <1>6, <2>3 DEF CheckExpiry, Cred, Move
    <3>2. RequestTyped([q EXCEPT !.at = "send"])
      BY <1>1, <2>1, MoveTyped, IdleIsCall DEF Places
    <3> QED
      BY <2>1, <3>1, <3>2, RequestTypeKept
  <2> QED
    BY <2>2, <2>3
<1>7. CASE ProactiveFailed(r) \/ AnswerLimited(r) \/ SendFailed(r) \/ ForcedNotRefreshed(r) \/ RetryFailed(r)
  <2>1. Sideline(r) /\ UNCHANGED World /\ q.at \notin {"pick", "done"}
    BY <1>7 DEF ProactiveFailed, AnswerLimited, SendFailed, ForcedNotRefreshed, RetryFailed
  <2> QED
    BY <2>1, SidelineTyped
<1>8. CASE ProactiveDone(r) \/ ForcedRefreshed(r)
  <2>1. PICK place \in {"send", "resend"} : req' = [req EXCEPT ![r] = [q EXCEPT !.at = place]]
    BY <1>1, <1>8 DEF ProactiveDone, ForcedRefreshed, Move
  <2>2. UNCHANGED World /\ StoreTypeOK' /\ q.cred \in Creds
    BY <1>1, <1>2, <1>8, StoreAlone DEF ProactiveDone, ForcedRefreshed
  <2>3. RequestTyped([q EXCEPT !.at = place])
    BY <1>1, <2>2, MoveTyped, IdleIsCall DEF Places
  <2> QED
    BY <2>1, <2>2, <2>3, RequestTypeKept
<1>9. CASE Send(r)
  <2>1. UNCHANGED World /\ StoreTypeOK' /\ q.cred \in Creds
    BY <1>1, <1>2, <1>9, StoreAlone DEF Send
  <2>2. PICK place \in {"sent", "resent"} : place = IF q.at = "send" THEN "sent" ELSE "resent"
    OBVIOUS
  <2>3. PICK token \in Tokens : token = IF q.cred \in OAuth THEN accessToken[q.cred] ELSE NoToken
    BY <1>3, IdleIsCall
  <2>4. req' = [req EXCEPT ![r] = [q EXCEPT !.at = place, !.token = token]]
    BY <1>1, <1>9, <2>2, <2>3 DEF Send, Cred
  <2>5. RequestTyped([q EXCEPT !.at = place, !.token = token])
    BY <1>1, <2>1, MoveTyped DEF Places
  <2> QED
    BY <2>1, <2>4, <2>5, RequestTypeKept
<1>10. CASE AnswerGood(r)
  <2>1. UNCHANGED World /\ q.cred \in Creds /\ MarkSuccess(q.cred)
    BY <1>1, <1>10 DEF AnswerGood, Cred
  <2>2. StoreTypeOK'
    BY <1>2, <2>1, StoreSteps
  <2> QED
    BY <1>10, <2>1, <2>2, FinishTyped DEF AnswerGood, Results
<1>11. CASE SendCancelled(r)
  <2>1. UNCHANGED World /\ StoreTypeOK'
    BY <1>2, <1>11, StoreAlone DEF SendCancelled
  <2> QED
    BY <1>11, <2>1, FinishTyped DEF SendCancelled, Results
<1>12. CASE AnswerRefused(r)
  <2>1. UNCHANGED World /\ StoreTypeOK' /\ q.cred \in Creds
    BY <1>1, <1>2, <1>12, StoreAlone DEF AnswerRefused
  <2>2. req' = [req EXCEPT ![r] = [q EXCEPT !.at = "forcing", !.refused = q.token]]
    BY <1>1, <1>12 DEF AnswerRefused
  <2>3. RequestTyped([q EXCEPT !.at = "forcing", !.refused = q.token])
    BY <1>1, <2>1, MoveTyped DEF Places
  <2> QED
    BY <2>1, <2>2, <2>3, RequestTypeKept
<1>13. CASE EnsureFreshStep(r)
  <2>1. UNCHANGED World /\ StoreTypeOK' /\ req' = [req EXCEPT ![r] = q]
    BY <1>1, <1>2, <1>13, StoreAlone DEF EnsureFreshStep
  <2> QED
    BY <1>1, <2>1, RequestTypeKept
<1> QED
  BY <1>4, <1>5, <1>6, <1>7, <1>8, <1>9, <1>10, <1>11, <1>12, <1>13 DEF RequestStep

(* What the store, the tokens and the requests hold is of its type throughout: a request
   has a credential wherever it uses one, and never more than N attempts behind it. *)
THEOREM DispatchTypeCorrect == Spec => []DispatchTypeOK
<1>1. Init => TypeIInv
  <2> SUFFICES ASSUME Init PROVE TypeIInv
    OBVIOUS
  <2>1. StoreTypeOK
    BY StoreAssumption DEF Init, StoreInit, StoreTypeOK, Creds
  <2>2. PICK match \in [Requests -> Filters] :
          req = [r \in Requests |-> [at |-> "pick", match |-> match[r], cred |-> NoCred,
                  attempt |-> 0, token |-> NoToken, result |-> "none",
                  stale |-> NoToken, refused |-> NoToken]]
    BY DEF Init
  <2>3. 0 \in 0..N /\ 0 < N
    BY StoreAssumption
  <2>4. \A m \in Filters : m \in SUBSET Creds
    BY StoreAssumption DEF Filters
  <2>5. ASSUME NEW r \in Requests
        PROVE  RequestTyped(req[r])
    <3>1. req[r] \in Request
      BY <2>2, <2>3, <2>4, IdleIsCall DEF Request, Places, Results
    <3>2. req[r].at = "pick" /\ req[r].attempt = 0
      BY <2>2
    <3> QED
      BY <2>3, <3>1, <3>2 DEF RequestTyped
  <2>6. req \in [Requests -> Request]
    BY <2>2, <2>5 DEF RequestTyped
  <2>7. honoured \in [Accounts -> 1..(MaxIssued + 1)]
    BY OAuthAssumption DEF Init
  <2> QED
    BY <2>1, <2>5, <2>6, <2>7 DEF Init, TypeIInv
<1>2. DispatchInv /\ TypeIInv /\ [Next]_dispatchVars => TypeIInv'
  <2> SUFFICES ASSUME DispatchInv, TypeIInv, [Next]_dispatchVars
               PROVE  TypeIInv'
    OBVIOUS
  <2>1. ASSUME NEW r \in Requests, Cancel(r)
        PROVE  TypeIInv'
    BY <2>1 DEF Cancel, TypeIInv, RequestTyped, storeVars, rotationVars, StoreTypeOK
  <2>2. ASSUME NEW a \in Accounts, NearExpiry(a)
        PROVE  TypeIInv'
    BY <2>2 DEF NearExpiry, TypeIInv, RequestTyped, storeVars, rotationVars, StoreTypeOK
  <2>3. ASSUME NEW a \in Accounts, Revoke(a)
        PROVE  TypeIInv'
    <3>1. issued[a] + 1 \in 1..(MaxIssued + 1)
      BY Constants DEF DispatchInv, TokenTypeOK
    <3> QED
      BY <2>3, <3>1 DEF Revoke, TypeIInv, RequestTyped, storeVars, rotationVars, StoreTypeOK
  <2>4. CASE TimePasses
    BY <2>4 DEF TimePasses, Tick, TypeIInv, RequestTyped, rotationVars, StoreTypeOK
  <2>5. CASE UNCHANGED dispatchVars
    BY <2>5 DEF dispatchVars, TypeIInv, RequestTyped, storeVars, rotationVars, StoreTypeOK
  <2> QED
    BY <2>1, <2>2, <2>3, <2>4, <2>5, RequestStepTyped DEF Next
<1>3. DispatchInv /\ TypeIInv => DispatchTypeOK
  BY DEF DispatchInv, TypeIInv, DispatchTypeOK
<1> QED
  BY <1>1, <1>2, <1>3, DispatchInvariant, PTL DEF Spec
================================================================================
