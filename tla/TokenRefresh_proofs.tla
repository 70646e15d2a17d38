------------------------- MODULE TokenRefresh_proofs -------------------------
(***************************************************************************)
(* Proofs about TokenRefresh, for every set of accounts and callers, any   *)
(* number of refreshes and crashes, with or without answers that omit      *)
(* refresh_token.                                                          *)
(***************************************************************************)
EXTENDS TokenRefresh, TLAPS

Busy(p) == At(p, "exchanging") \/ At(p, "answered")

\* refreshMu is held by exactly the caller that is exchanging.
LockInv ==
    /\ \A p \in Callers : ~At(p, "idle") => call[p].account \in Accounts
    /\ \A p \in Callers : Busy(p) => refreshMu[call[p].account] = p
    /\ \A a \in Accounts : refreshMu[a] # NoOne =>
          Busy(refreshMu[a]) /\ call[refreshMu[a]].account = a

\* The holder works on the token and generation the credential still has, and has an
\* answer only once there is one.
HolderInv ==
    /\ \A p \in Callers : Busy(p) =>
        /\ call[p].gen = refreshGen[call[p].account]
        /\ call[p].sent = refreshToken[call[p].account]
    /\ \A p \in Callers : At(p, "waiting") \/ At(p, "exchanging") => call[p].tok = NoPair

\* Tokens are numbered in the order they are issued: replaced ones are behind the
\* current one, an answer not yet applied is ahead of it, nothing is ahead of issued.
OrderInv ==
    /\ \A a \in Accounts :
        /\ valid[a] \in 1..issued[a]
        /\ refreshToken[a] <= issued[a]
        /\ disk[a].refresh <= issued[a]
        /\ \A t \in replaced[a] : t < refreshToken[a]
    /\ \A p \in Callers : ~At(p, "idle") => call[p].tok.refresh <= issued[call[p].account]
    /\ \A p \in Callers : At(p, "answered") /\ call[p].tok.refresh # NoToken =>
          call[p].tok.refresh > refreshToken[call[p].account]

\* The token the endpoint honours is in memory, or in an answer on its way there.
ValidInv ==
    \A a \in Accounts : ~astray[a] =>
        \/ refreshToken[a] = valid[a] /\ \A p \in Callers :
              At(p, "answered") /\ call[p].account = a => call[p].tok.refresh = NoToken
        \/ \E p \in Callers :
              At(p, "answered") /\ call[p].account = a /\ call[p].tok.refresh = valid[a]

RefreshInv == RefreshTypeOK /\ LockInv /\ HolderInv /\ OrderInv /\ ValidInv

-----------------------------------------------------------------------------
(***************************************************************************)
(* Types of the calls of EnsureFresh.                                      *)
(***************************************************************************)
(* What a call holds is of its type. *)
LEMMA CallTypes ==
  ASSUME TokenTypeOK, NEW p \in Callers
  PROVE  /\ call[p] \in Call
         /\ call[p].account \in Accounts \cup {NoAccount}
         /\ call[p].tok \in Pair
         /\ call[p].tok.access \in Tokens /\ call[p].tok.refresh \in Tokens
         /\ call[p].sent \in Tokens
BY DEF TokenTypeOK, Call, Pair

(* No call, no token and a torn pair are typed. *)
LEMMA IdleIsCall == IdleCall \in Call /\ NoToken \in Tokens /\ Torn \in Pair
BY OAuthAssumption
   DEF IdleCall, Call, Stages, Outcomes, Pair, Tokens, NoPair, NoToken, Torn

(* A call that is one stage further is still one. *)
LEMMA NextStage ==
  ASSUME NEW c \in Call, NEW stage \in Stages
  PROVE  /\ [c EXCEPT !.stage = stage] \in Call
         /\ \A outcome \in Outcomes : [c EXCEPT !.stage = stage, !.outcome = outcome] \in Call
         /\ \A sent \in Tokens : [c EXCEPT !.stage = stage, !.sent = sent] \in Call
         /\ \A tok \in Pair : [c EXCEPT !.stage = stage, !.tok = tok] \in Call
BY DEF Call

(* A call that proceeds leaves the others where they are. *)
LEMMA NextCall ==
  ASSUME TokenTypeOK, NEW p \in Callers, NEW next \in Call, Proceed(p, next)
  PROVE  call' \in [Callers -> Call] /\ call'[p] = next /\ \A q \in Callers \ {p} : call'[q] = call[q]
BY DEF TokenTypeOK, Proceed

LEMMA InitTypes == Init => RefreshTypeOK
BY OAuthAssumption, CrashAssumption
   DEF Init, TokenInit, RefreshTypeOK, TokenTypeOK, IdleCall, Call, Stages, Outcomes, Pair,
       Tokens, NoPair, NoToken

(* The calls keep their type whichever step a caller takes. *)
LEMMA CallsStep ==
  ASSUME TokenTypeOK, LockInv, NEW p \in Callers,
         \/ \E a \in Accounts, force \in BOOLEAN : Begin(p, a, force)
         \/ Skip(p) \/ Exchange(p) \/ Redeem(p) \/ Apply(p) \/ Truncate(p) \/ WriteFile(p)
         \/ \E outcome \in Outcomes : FailRefresh(p, outcome)
         \/ Proceed(p, IdleCall)
  PROVE  call' \in [Callers -> Call]
<1>a. call[p] \in Call /\ (~At(p, "idle") => call[p].account \in Accounts)
  BY CallTypes DEF LockInv
<1>b. \A next \in Call : Proceed(p, next) => call' \in [Callers -> Call]
  BY NextCall
<1>c. /\ {"waiting", "exchanging", "answered", "saving", "writing", "returned"} \subseteq Stages
      /\ {"did", "skipped", "failed", "aborted"} \subseteq Outcomes
  BY DEF Stages, Outcomes
<1>1. ASSUME NEW a \in Accounts, NEW force \in BOOLEAN, Begin(p, a, force)
      PROVE  call' \in [Callers -> Call]
  <2> DEFINE next == [IdleCall EXCEPT !.stage = "waiting", !.account = a, !.force = force,
                                      !.near = nearExpiry[a], !.gen = refreshGen[a]]
  <2>1. nearExpiry[a] \in BOOLEAN /\ refreshGen[a] \in Nat
    BY DEF TokenTypeOK
  <2>2. next \in Call
    BY <2>1, IdleIsCall, <1>c DEF Call
  <2> HIDE DEF next
  <2>3. Proceed(p, next)
    BY <1>1 DEF Begin, next
  <2> QED
    BY <2>2, <2>3, <1>b
<1>2. CASE Skip(p)
  BY <1>2, <1>a, <1>b, <1>c, NextStage DEF Skip, Leave
<1>3. CASE Exchange(p)
  <2>1. refreshToken[call[p].account] \in Tokens
    BY <1>3, <1>a DEF Exchange, At, TokenTypeOK
  <2> QED
    BY <1>3, <2>1, <1>a, <1>b, <1>c, NextStage DEF Exchange
<1>4. CASE Redeem(p)
  <2>0. call[p].account \in Accounts /\ issued[call[p].account] + 1 <= MaxIssued
    BY <1>4, <1>a DEF Redeem, At
  <2>1. issued[call[p].account] + 1 \in Tokens
    <3>1. issued[call[p].account] \in 0..MaxIssued
      BY <2>0 DEF TokenTypeOK, Tokens
    <3> QED
      BY <2>0, <3>1, OAuthAssumption DEF Tokens
  <2>2. PICK r \in Tokens :
            Proceed(p, [call[p] EXCEPT !.stage = "answered",
                                       !.tok = [access |-> issued[call[p].account] + 1, refresh |-> r]])
    BY <1>4, <2>1, IdleIsCall DEF Redeem
  <2>3. [access |-> issued[call[p].account] + 1, refresh |-> r] \in Pair
    BY <2>1 DEF Pair
  <2> QED
    BY <2>2, <2>3, <1>a, <1>b, <1>c, NextStage
<1>5. CASE Apply(p)
  BY <1>5, <1>a, <1>b, <1>c, NextStage DEF Apply
<1>6. CASE Truncate(p)
  BY <1>6, <1>a, <1>b, <1>c, NextStage DEF Truncate
<1>7. CASE WriteFile(p)
  BY <1>7, <1>a, <1>b, <1>c, NextStage DEF WriteFile, Leave
<1>8. CASE \E outcome \in Outcomes : FailRefresh(p, outcome)
  BY <1>8, <1>a, <1>b, <1>c, NextStage DEF FailRefresh, Leave
<1>9. CASE Proceed(p, IdleCall)
  BY <1>9, <1>b, IdleIsCall
<1> QED
  BY <1>1, <1>2, <1>3, <1>4, <1>5, <1>6, <1>7, <1>8, <1>9

(* Types hold after every step. *)
LEMMA TypeStep ==
  ASSUME RefreshTypeOK, LockInv, [Next]_refreshVars
  PROVE  RefreshTypeOK'
<1> USE DEF RefreshTypeOK
<1>a. \A p \in Callers : ~At(p, "idle") => call[p].account \in Accounts
  BY DEF LockInv
<1>1. ASSUME NEW p \in Callers, Request(p)
      PROVE  RefreshTypeOK'
  <2>1. call' \in [Callers -> Call]
    BY <1>1, CallsStep DEF Request
  <2> QED
    BY <1>1, <2>1 DEF Request, Begin, TokenTypeOK, credVars, endpointVars
<1>2. ASSUME NEW p \in Callers, Skip(p), UNCHANGED <<up, crashes, replaced, astray>>
      PROVE  RefreshTypeOK'
  <2>1. call' \in [Callers -> Call]
    BY <1>2, CallsStep
  <2> QED
    BY <1>2, <2>1 DEF Skip, TokenTypeOK, credVars, endpointVars
<1>3. ASSUME NEW p \in Callers, Exchange(p), UNCHANGED <<up, crashes, replaced, astray>>
      PROVE  RefreshTypeOK'
  <2>1. call' \in [Callers -> Call]
    BY <1>3, CallsStep
  <2> QED
    BY <1>3, <2>1 DEF Exchange, TokenTypeOK, endpointVars
<1>4. ASSUME NEW p \in Callers, Redeem(p), UNCHANGED <<up, crashes, replaced, astray>>
      PROVE  RefreshTypeOK'
  <2>1. call' \in [Callers -> Call]
    BY <1>4, CallsStep
  <2>2. issued[call[p].account] + 1 \in Tokens /\ NoToken \in Tokens
    BY <1>4, <1>a, IdleIsCall, OAuthAssumption DEF Redeem, At, TokenTypeOK, Tokens
  <2>3. issued' \in [Accounts -> Tokens]
    BY <1>4, <2>2 DEF Redeem, TokenTypeOK
  <2>4. PICK r \in Tokens :
            valid' = [valid EXCEPT ![call[p].account] = IF r = NoToken THEN @ ELSE r]
    BY <1>4, <2>2 DEF Redeem
  <2>5. valid' \in [Accounts -> Tokens]
    BY <2>4 DEF TokenTypeOK
  <2> QED
    BY <1>4, <2>1, <2>3, <2>5 DEF Redeem, TokenTypeOK, credVars
<1>5. ASSUME NEW p \in Callers, NEW outcome \in {"failed", "aborted"}, FailRefresh(p, outcome),
             UNCHANGED <<up, crashes, replaced>>,
             astray' = [astray EXCEPT ![call[p].account] = @ \/ call[p].tok.refresh # NoToken]
      PROVE  RefreshTypeOK'
  <2>1. outcome \in Outcomes
    BY DEF Outcomes
  <2>2. call' \in [Callers -> Call]
    BY <1>5, <2>1, CallsStep
  <2>3. astray' \in [Accounts -> BOOLEAN]
    BY <1>5
  <2> QED
    BY <1>5, <2>2, <2>3 DEF FailRefresh, Unlock, TokenTypeOK, endpointVars
<1>6. ASSUME NEW p \in Callers, Apply(p), UNCHANGED <<up, crashes, astray>>,
             replaced' = [replaced EXCEPT ![call[p].account] =
                IF call[p].tok.refresh = NoToken THEN @ ELSE @ \cup {call[p].sent}]
      PROVE  RefreshTypeOK'
  <2>1. call' \in [Callers -> Call]
    BY <1>6, CallsStep
  <2>2. call[p].tok.access \in Tokens /\ call[p].tok.refresh \in Tokens /\ call[p].sent \in Tokens
    BY CallTypes
  <2>3. accessToken' \in [Accounts -> Tokens] /\ refreshToken' \in [Accounts -> Tokens]
    BY <1>6, <2>2 DEF Apply, TokenTypeOK
  <2>4. replaced' \in [Accounts -> SUBSET Tokens]
    BY <1>6, <2>2
  <2> QED
    BY <1>6, <2>1, <2>3, <2>4 DEF Apply, Unlock, TokenTypeOK, endpointVars
<1>7. ASSUME NEW p \in Callers, Truncate(p) \/ WriteFile(p),
             UNCHANGED <<up, crashes, replaced, astray>>
      PROVE  RefreshTypeOK'
  <2>1. call' \in [Callers -> Call]
    BY <1>7, CallsStep
  <2>2. disk' \in [Accounts -> Pair]
    BY <1>7, CallTypes, IdleIsCall DEF Truncate, WriteFile, TokenTypeOK
  <2> QED
    BY <1>7, <2>1, <2>2 DEF Truncate, WriteFile, TokenTypeOK, credVars, endpointVars
<1>8. ASSUME NEW p \in Callers, Collect(p)
      PROVE  RefreshTypeOK'
  <2>1. call' \in [Callers -> Call]
    BY <1>8, CallsStep DEF Collect
  <2> QED
    BY <1>8, <2>1 DEF Collect, TokenTypeOK, credVars, endpointVars
<1>9. ASSUME NEW a \in Accounts, ExpireToken(a)
      PROVE  RefreshTypeOK'
  BY <1>9 DEF ExpireToken, Expire, TokenTypeOK, endpointVars
<1>10. CASE CrashRestart
  <2>1. \A a \in Accounts : disk[a].access \in Tokens /\ disk[a].refresh \in Tokens
    BY DEF TokenTypeOK, Pair
  <2>2. crashes' \in 0..MaxCrashes
    BY <1>10, CrashAssumption DEF CrashRestart
  <2> QED
    BY <1>10, <2>1, <2>2, IdleIsCall DEF CrashRestart, TokenTypeOK, endpointVars
<1>11. CASE FatalAgain \/ UNCHANGED refreshVars
  BY <1>11 DEF FatalAgain, refreshVars, tokenVars, credVars, endpointVars, TokenTypeOK
<1> QED
  BY <1>1, <1>2, <1>3, <1>4, <1>5, <1>6, <1>7, <1>8, <1>9, <1>10, <1>11 DEF Next, Refresh

(* What one step of a caller's own call does to the calls. *)
LEMMA Proceeds ==
  ASSUME TokenTypeOK, NEW p \in Callers, NEW next, Proceed(p, next)
  PROVE  call'[p] = next /\ \A q \in Callers : q # p => call'[q] = call[q]
BY DEF TokenTypeOK, Proceed

LEMMA Advanced ==
  ASSUME NEW c \in Call, NEW stage, NEW outcome
  PROVE  /\ LET d == [c EXCEPT !.stage = stage] IN
               /\ d.stage = stage /\ d.account = c.account
               /\ d.gen = c.gen /\ d.sent = c.sent /\ d.tok = c.tok
         /\ LET d == [c EXCEPT !.stage = stage, !.outcome = outcome] IN
               /\ d.stage = stage /\ d.account = c.account
               /\ d.gen = c.gen /\ d.sent = c.sent /\ d.tok = c.tok
         /\ \A sent : LET d == [c EXCEPT !.stage = stage, !.sent = sent] IN
               /\ d.stage = stage /\ d.account = c.account
               /\ d.gen = c.gen /\ d.sent = sent /\ d.tok = c.tok
         /\ \A tok : LET d == [c EXCEPT !.stage = stage, !.tok = tok] IN
               /\ d.stage = stage /\ d.account = c.account
               /\ d.gen = c.gen /\ d.sent = c.sent /\ d.tok = tok
BY DEF Call

(* A caller that is not busy, before or after, and a world it leaves alone but for the
   token file: beginning, skipping, saving and collecting a call. *)
LEMMA QuietStep ==
  ASSUME RefreshInv, NEW p \in Callers, RefreshTypeOK',
         UNCHANGED <<credVars, endpointVars, replaced, astray>>,
         \A q \in Callers : q # p => call'[q] = call[q],
         ~Busy(p), ~Busy(p)',
         At(p, "waiting")' => call'[p].tok = NoPair,
         ~At(p, "idle")' => /\ call'[p].account \in Accounts
                           /\ call'[p].tok.refresh <= issued[call'[p].account],
         \A a \in Accounts : disk'[a].refresh <= issued[a]
  PROVE  RefreshInv'
<1> USE DEF RefreshInv, Busy, At, credVars, endpointVars
<1>1. LockInv'
  <2>1. \A q \in Callers : ~At(q, "idle")' => call'[q].account \in Accounts
    BY DEF LockInv
  <2>2. \A q \in Callers : Busy(q)' => Busy(q) /\ call'[q] = call[q]
    OBVIOUS
  <2>3. \A q \in Callers : Busy(q)' => refreshMu'[call'[q].account] = q
    BY <2>2 DEF LockInv
  <2>4. ASSUME NEW a \in Accounts, refreshMu'[a] # NoOne
        PROVE  (Busy(refreshMu[a]) /\ call[refreshMu[a]].account = a)'
    <3>1. refreshMu[a] \in Callers
      BY <2>4 DEF RefreshTypeOK, TokenTypeOK
    <3>2. Busy(refreshMu[a]) /\ call[refreshMu[a]].account = a
      BY <2>4 DEF LockInv
    <3>3. refreshMu[a] # p
      BY <3>2
    <3>4. call'[refreshMu[a]] = call[refreshMu[a]]
      BY <3>1, <3>3
    <3> QED
      BY <3>2, <3>4
  <2> QED
    BY <2>1, <2>3, <2>4 DEF LockInv
<1>2. HolderInv'
  BY DEF HolderInv
<1>3. OrderInv'
  BY DEF OrderInv
<1>4. ValidInv'
  BY DEF ValidInv
<1> QED
  BY <1>1, <1>2, <1>3, <1>4

LEMMA RequestStep ==
  ASSUME RefreshInv, RefreshTypeOK', NEW p \in Callers, Request(p)
  PROVE  RefreshInv'
<1>1. PICK a \in Accounts, force \in BOOLEAN : Begin(p, a, force)
  BY DEF Request
<1>2. TokenTypeOK
  BY DEF RefreshInv, RefreshTypeOK
<1>3. /\ call'[p] = [IdleCall EXCEPT !.stage = "waiting", !.account = a, !.force = force,
                                     !.near = nearExpiry[a], !.gen = refreshGen[a]]
      /\ \A q \in Callers : q # p => call'[q] = call[q]
  BY <1>1, <1>2, Proceeds DEF Begin
<1>4. call'[p].stage = "waiting" /\ call'[p].account = a /\ call'[p].tok = NoPair
  BY <1>3 DEF IdleCall
<1>5. NoPair.refresh <= issued[a]
  BY OAuthAssumption DEF NoPair, NoToken, RefreshInv, OrderInv, RefreshTypeOK, TokenTypeOK, Tokens
<1>6. \A b \in Accounts : disk'[b].refresh <= issued[b]
  BY <1>1 DEF Begin, RefreshInv, OrderInv
<1> QED
  BY <1>1, <1>3, <1>4, <1>5, <1>6, QuietStep DEF Request, Begin, Busy, At

LEMMA QuietSteps ==
  ASSUME RefreshInv, RefreshTypeOK', NEW p \in Callers,
         \/ Skip(p) \/ Truncate(p) \/ WriteFile(p)
         \/ At(p, "returned") /\ Proceed(p, IdleCall) /\ UNCHANGED <<credVars, endpointVars, disk>>,
         UNCHANGED <<replaced, astray>>
  PROVE  RefreshInv'
<1>1. TokenTypeOK /\ call[p] \in Call
  BY CallTypes DEF RefreshInv, RefreshTypeOK
<1>2. \A b \in Accounts : disk[b].refresh <= issued[b]
  BY DEF RefreshInv, OrderInv
<1>3. ~At(p, "idle") => /\ call[p].account \in Accounts
                        /\ call[p].tok.refresh <= issued[call[p].account]
  BY DEF RefreshInv, LockInv, OrderInv
<1>4. CASE Skip(p)
  <2>1. call'[p] = [call[p] EXCEPT !.stage = "returned", !.outcome = "skipped"]
        /\ \A q \in Callers : q # p => call'[q] = call[q]
    BY <1>1, <1>4, Proceeds DEF Skip, Leave
  <2>2. call'[p].stage = "returned" /\ call'[p].account = call[p].account /\ call'[p].tok = call[p].tok
    BY <1>1, <2>1, Advanced
  <2> QED
    BY <1>2, <1>3, <1>4, <2>1, <2>2, QuietStep DEF Skip, Busy, At
<1>5. CASE Truncate(p)
  <2>1. call'[p] = [call[p] EXCEPT !.stage = "writing"]
        /\ \A q \in Callers : q # p => call'[q] = call[q]
    BY <1>1, <1>5, Proceeds DEF Truncate
  <2>2. call'[p].stage = "writing" /\ call'[p].account = call[p].account /\ call'[p].tok = call[p].tok
    BY <1>1, <2>1, Advanced
  <2>3. \A b \in Accounts : disk'[b].refresh <= issued[b]
    BY <1>1, <1>2, <1>5, OAuthAssumption DEF Truncate, Torn, NoToken, TokenTypeOK, Tokens
  <2> QED
    BY <1>3, <1>5, <2>1, <2>2, <2>3, QuietStep DEF Truncate, Busy, At
<1>6. CASE WriteFile(p)
  <2>1. call'[p] = [call[p] EXCEPT !.stage = "returned", !.outcome = "did"]
        /\ \A q \in Callers : q # p => call'[q] = call[q]
    BY <1>1, <1>6, Proceeds DEF WriteFile, Leave
  <2>2. call'[p].stage = "returned" /\ call'[p].account = call[p].account /\ call'[p].tok = call[p].tok
    BY <1>1, <2>1, Advanced
  <2>3. call[p].account \in Accounts /\ call[p].tok.refresh <= issued[call[p].account]
    BY <1>3, <1>6 DEF WriteFile, At
  <2>4. \A b \in Accounts : disk'[b].refresh <= issued[b]
    BY <1>1, <1>2, <1>6, <2>3 DEF WriteFile, TokenTypeOK
  <2> QED
    BY <1>3, <1>6, <2>1, <2>2, <2>4, QuietStep DEF WriteFile, Busy, At
<1>7. CASE At(p, "returned") /\ Proceed(p, IdleCall) /\ UNCHANGED <<credVars, endpointVars, disk>>
  <2>1. call'[p] = IdleCall /\ \A q \in Callers : q # p => call'[q] = call[q]
    BY <1>1, <1>7, Proceeds
  <2>2. call'[p].stage = "idle"
    BY <2>1 DEF IdleCall
  <2> QED
    BY <1>2, <1>7, <2>1, <2>2, QuietStep DEF Busy, At
<1> QED
  BY <1>4, <1>5, <1>6, <1>7

(* Taking the lock: nobody held it, and the token read is the current one. *)
LEMMA ExchangeStep ==
  ASSUME RefreshInv, RefreshTypeOK', NEW p \in Callers, Exchange(p), UNCHANGED <<replaced, astray>>
  PROVE  RefreshInv'
<1> DEFINE a == call[p].account
<1>1. TokenTypeOK /\ call[p] \in Call
  BY CallTypes DEF RefreshInv, RefreshTypeOK
<1>2. a \in Accounts /\ refreshMu[a] = NoOne /\ call[p].gen = refreshGen[a]
      /\ call[p].tok = NoPair /\ call[p].tok.refresh <= issued[a] /\ ~Busy(p)
  BY DEF Exchange, RefreshInv, LockInv, HolderInv, OrderInv, At, Busy
<1>3. call'[p] = [call[p] EXCEPT !.stage = "exchanging", !.sent = refreshToken[a]]
      /\ \A q \in Callers : q # p => call'[q] = call[q]
  BY <1>1, Proceeds DEF Exchange
<1>4. /\ call'[p].stage = "exchanging" /\ call'[p].account = a /\ call'[p].gen = call[p].gen
      /\ call'[p].tok = call[p].tok /\ call'[p].sent = refreshToken[a]
  BY <1>1, <1>3, Advanced
<1>5. /\ refreshMu' = [refreshMu EXCEPT ![a] = p]
      /\ UNCHANGED <<accessToken, refreshToken, nearExpiry, refreshGen, valid, issued, disk>>
  BY DEF Exchange, endpointVars
<1>6. \A q \in Callers : q # p /\ Busy(q) => call[q].account # a
  BY <1>2, OAuthAssumption DEF RefreshInv, LockInv
<1> HIDE DEF a
<1>7. LockInv'
  <2>1. \A q \in Callers : ~At(q, "idle")' => call'[q].account \in Accounts
    BY <1>2, <1>3, <1>4 DEF RefreshInv, LockInv, At
  <2>2. \A q \in Callers : Busy(q)' => refreshMu'[call'[q].account] = q
    <3>1. ASSUME NEW q \in Callers, Busy(q)', q # p
          PROVE  refreshMu'[call'[q].account] = q
      <4>1. call'[q] = call[q] /\ Busy(q)
        BY <1>3, <3>1 DEF Busy, At
      <4>2. call[q].account # a /\ refreshMu[call[q].account] = q /\ call[q].account \in Accounts
        BY <1>6, <3>1, <4>1 DEF RefreshInv, LockInv, Busy, At
      <4> QED
        BY <1>1, <1>5, <4>1, <4>2 DEF TokenTypeOK
    <3>2. refreshMu'[call'[p].account] = p
      BY <1>1, <1>2, <1>4, <1>5 DEF TokenTypeOK
    <3> QED
      BY <3>1, <3>2
  <2>3. ASSUME NEW b \in Accounts, refreshMu'[b] # NoOne
        PROVE  (Busy(refreshMu[b]) /\ call[refreshMu[b]].account = b)'
    <3>1. CASE b = a
      BY <1>1, <1>2, <1>4, <1>5, <3>1 DEF Busy, At, TokenTypeOK
    <3>2. CASE b # a
      <4>1. refreshMu'[b] = refreshMu[b] /\ refreshMu[b] \in Callers
        BY <1>1, <1>5, <2>3, <3>2 DEF TokenTypeOK
      <4>2. Busy(refreshMu[b]) /\ call[refreshMu[b]].account = b
        BY <2>3, <4>1 DEF RefreshInv, LockInv
      <4>3. call'[refreshMu[b]] = call[refreshMu[b]]
        BY <1>2, <1>3, <4>1, <4>2
      <4> QED
        BY <4>1, <4>2, <4>3 DEF Busy, At
    <3> QED
      BY <3>1, <3>2
  <2> QED
    BY <2>1, <2>2, <2>3 DEF LockInv
<1>8. HolderInv'
  <2>1. ASSUME NEW q \in Callers, q # p
        PROVE  call'[q] = call[q] /\ Busy(q)' = Busy(q)
    BY <1>3, <2>1 DEF Busy, At
  <2>2. \A q \in Callers : Busy(q)' => /\ call'[q].gen = refreshGen'[call'[q].account]
                                       /\ call'[q].sent = refreshToken'[call'[q].account]
    BY <1>2, <1>4, <1>5, <2>1 DEF RefreshInv, HolderInv
  <2>3. \A q \in Callers : At(q, "waiting")' \/ At(q, "exchanging")' => call'[q].tok = NoPair
    BY <1>2, <1>4, <2>1 DEF RefreshInv, HolderInv, At
  <2> QED
    BY <2>2, <2>3 DEF HolderInv
<1>9. OrderInv'
  BY <1>2, <1>3, <1>4, <1>5 DEF RefreshInv, OrderInv, At
<1>10. ValidInv'
  <2>1. \A q \in Callers : At(q, "answered")' <=> At(q, "answered")
    BY <1>2, <1>3, <1>4 DEF At, Busy
  <2>2. \A q \in Callers : call'[q].account = call[q].account /\ call'[q].tok = call[q].tok
    BY <1>3, <1>4 DEF a
  <2> QED
    BY <1>5, <2>1, <2>2 DEF RefreshInv, ValidInv
<1> QED
  BY <1>7, <1>8, <1>9, <1>10 DEF RefreshInv

(* What a busy caller knows: it alone is busy on its account. *)
LEMMA BusyAlone ==
  ASSUME RefreshInv, NEW p \in Callers, Busy(p)
  PROVE  /\ call[p] \in Call /\ call[p].account \in Accounts
         /\ call[p].sent = refreshToken[call[p].account]
         /\ call[p].gen = refreshGen[call[p].account]
         /\ call[p].tok.refresh <= issued[call[p].account]
         /\ \A q \in Callers : Busy(q) /\ q # p => call[q].account # call[p].account
<1>1. call[p] \in Call /\ ~At(p, "idle")
  BY CallTypes DEF RefreshInv, RefreshTypeOK, Busy, At
<1>2. call[p].account \in Accounts /\ call[p].tok.refresh <= issued[call[p].account]
  BY <1>1 DEF RefreshInv, LockInv, OrderInv
<1> QED
  BY <1>1, <1>2 DEF RefreshInv, LockInv, HolderInv

(* The endpoint answers: the new tokens are ahead of everything issued before. *)
LEMMA RedeemStep ==
  ASSUME RefreshInv, RefreshTypeOK', NEW p \in Callers, Redeem(p), UNCHANGED <<replaced, astray>>
  PROVE  RefreshInv'
<1> DEFINE a == call[p].account
           n == issued[a] + 1
<1>1. TokenTypeOK /\ Busy(p) /\ At(p, "exchanging") /\ call[p].sent = valid[a]
  BY DEF Redeem, RefreshInv, RefreshTypeOK, Busy
<1>2. /\ call[p] \in Call /\ a \in Accounts
      /\ call[p].sent = refreshToken[a] /\ call[p].gen = refreshGen[a]
      /\ \A q \in Callers : Busy(q) /\ q # p => call[q].account # a
  BY <1>1, BusyAlone
<1>3. PICK r \in {n} \cup (IF Omits THEN {NoToken} ELSE {}) :
        /\ valid' = [valid EXCEPT ![a] = IF r = NoToken THEN @ ELSE r]
        /\ Proceed(p, [call[p] EXCEPT !.stage = "answered", !.tok = [access |-> n, refresh |-> r]])
  BY DEF Redeem
<1>4. /\ issued' = [issued EXCEPT ![a] = n]
      /\ UNCHANGED <<accessToken, refreshToken, nearExpiry, refreshGen, refreshMu, disk>>
  BY DEF Redeem, credVars
<1>5. /\ call'[p] = [call[p] EXCEPT !.stage = "answered", !.tok = [access |-> n, refresh |-> r]]
      /\ \A q \in Callers : q # p => call'[q] = call[q]
  BY <1>1, <1>3, Proceeds
<1>6. /\ call'[p].stage = "answered" /\ call'[p].account = a /\ call'[p].gen = call[p].gen
      /\ call'[p].sent = call[p].sent /\ call'[p].tok.refresh = r
  <2>1. LET d == call'[p] IN
          /\ d.stage = "answered" /\ d.account = a /\ d.gen = call[p].gen
          /\ d.sent = call[p].sent /\ d.tok = [access |-> n, refresh |-> r]
    BY <1>2, <1>5, Advanced
  <2> QED
    BY <2>1
<1>7. /\ issued[a] \in Nat /\ valid[a] \in 1..issued[a] /\ refreshToken[a] <= issued[a]
      /\ refreshToken[a] \in Nat /\ n \in Nat /\ n > issued[a] /\ (r = n \/ r = NoToken)
  <2>1. issued[a] \in 0..MaxIssued /\ refreshToken[a] \in 0..MaxIssued
    BY <1>1, <1>2 DEF TokenTypeOK, Tokens
  <2>2. valid[a] \in 1..issued[a] /\ refreshToken[a] <= issued[a]
    BY <1>2 DEF RefreshInv, OrderInv
  <2>3. r = n \/ r = NoToken
    BY <1>3
  <2>4. MaxIssued \in Nat
    BY OAuthAssumption
  <2> QED
    BY <2>1, <2>2, <2>3, <2>4
<1>8. \A b \in Accounts : b # a => issued'[b] = issued[b] /\ valid'[b] = valid[b]
  BY <1>1, <1>3, <1>4 DEF TokenTypeOK
<1>9. issued'[a] = n /\ valid'[a] = (IF r = NoToken THEN valid[a] ELSE r)
  BY <1>1, <1>2, <1>3, <1>4 DEF TokenTypeOK
<1> HIDE DEF a, n
<1>10. \A q \in Callers : q # p => call'[q] = call[q] /\ Busy(q)' = Busy(q)
  BY <1>5 DEF Busy, At
<1>11. LockInv'
  <2>1. \A q \in Callers : ~At(q, "idle")' => call'[q].account \in Accounts
    BY <1>2, <1>5, <1>6 DEF RefreshInv, LockInv, At
  <2>2. \A q \in Callers : Busy(q)' => refreshMu'[call'[q].account] = q
    BY <1>1, <1>4, <1>6, <1>10 DEF RefreshInv, LockInv, a
  <2>3. ASSUME NEW b \in Accounts, refreshMu'[b] # NoOne
        PROVE  (Busy(refreshMu[b]) /\ call[refreshMu[b]].account = b)'
    <3>1. refreshMu[b] \in Callers /\ refreshMu'[b] = refreshMu[b]
      BY <1>1, <1>4, <2>3 DEF TokenTypeOK
    <3>2. Busy(refreshMu[b]) /\ call[refreshMu[b]].account = b
      BY <2>3, <3>1 DEF RefreshInv, LockInv
    <3>3. CASE refreshMu[b] = p
      BY <1>6, <3>1, <3>2, <3>3 DEF Busy, At, a
    <3>4. CASE refreshMu[b] # p
      BY <1>10, <3>1, <3>2, <3>4
    <3> QED
      BY <3>3, <3>4
  <2> QED
    BY <2>1, <2>2, <2>3 DEF LockInv
<1>12. HolderInv'
  <2>1. \A q \in Callers : Busy(q)' => /\ call'[q].gen = refreshGen'[call'[q].account]
                                       /\ call'[q].sent = refreshToken'[call'[q].account]
    BY <1>2, <1>4, <1>6, <1>10 DEF RefreshInv, HolderInv
  <2>2. \A q \in Callers : At(q, "waiting")' \/ At(q, "exchanging")' => call'[q].tok = NoPair
    BY <1>5, <1>6 DEF RefreshInv, HolderInv, At
  <2> QED
    BY <2>1, <2>2 DEF HolderInv
<1>13. OrderInv'
  <2>1. ASSUME NEW b \in Accounts
        PROVE  /\ valid'[b] \in 1..issued'[b]
               /\ refreshToken'[b] <= issued'[b]
               /\ disk'[b].refresh <= issued'[b]
               /\ \A t \in replaced'[b] : t < refreshToken'[b]
    <3>1. disk[b].refresh <= issued[b] /\ disk[b].refresh \in Nat /\ issued[b] \in Nat
      BY <1>1, OAuthAssumption DEF RefreshInv, OrderInv, TokenTypeOK, Pair, Tokens
    <3>2. CASE b = a
      BY <1>4, <1>7, <1>9, <3>1, <3>2 DEF RefreshInv, OrderInv, NoToken
    <3>3. CASE b # a
      BY <1>4, <1>8, <3>1, <3>3 DEF RefreshInv, OrderInv
    <3> QED
      BY <3>2, <3>3
  <2>2. ASSUME NEW q \in Callers, ~At(q, "idle")'
        PROVE  call'[q].tok.refresh <= issued'[call'[q].account]
    <3>1. CASE q = p
      BY <1>6, <1>7, <1>9, <3>1 DEF NoToken
    <3>2. CASE q # p
      <4>1. call'[q] = call[q] /\ ~At(q, "idle")
        BY <1>5, <2>2, <3>2 DEF At
      <4>2. call[q].account \in Accounts /\ call[q].tok.refresh <= issued[call[q].account]
        BY <4>1 DEF RefreshInv, LockInv, OrderInv
      <4>3. call[q].tok.refresh \in Nat
        BY <1>1, CallTypes, OAuthAssumption DEF Tokens
      <4>4. CASE call[q].account = a
        BY <1>7, <1>9, <4>1, <4>2, <4>3, <4>4
      <4>5. CASE call[q].account # a
        BY <1>8, <4>1, <4>2, <4>5
      <4> QED
        BY <4>4, <4>5
    <3> QED
      BY <3>1, <3>2
  <2>3. ASSUME NEW q \in Callers, At(q, "answered")', call'[q].tok.refresh # NoToken
        PROVE  call'[q].tok.refresh > refreshToken'[call'[q].account]
    <3>1. CASE q = p
      BY <1>4, <1>6, <1>7, <2>3, <3>1 DEF NoToken
    <3>2. CASE q # p
      BY <1>4, <1>5, <2>3, <3>2 DEF RefreshInv, OrderInv, At
    <3> QED
      BY <3>1, <3>2
  <2> QED
    BY <2>1, <2>2, <2>3 DEF OrderInv
<1>14. ValidInv'
  <2> SUFFICES ASSUME NEW b \in Accounts, ~astray[b]
               PROVE  ( \/ refreshToken[b] = valid[b] /\ \A q \in Callers :
                            At(q, "answered") /\ call[q].account = b => call[q].tok.refresh = NoToken
                        \/ \E q \in Callers :
                            At(q, "answered") /\ call[q].account = b /\ call[q].tok.refresh = valid[b] )'
    BY DEF ValidInv
  <2>1. CASE b = a
    <3>1. \A q \in Callers : q # p /\ At(q, "answered")' => call'[q].account # a
      BY <1>2, <1>5 DEF Busy, At
    <3>2. CASE r = NoToken
      <4>1. refreshToken'[a] = valid'[a]
        BY <1>1, <1>2, <1>4, <1>9, <3>2 DEF a
      <4> QED
        BY <1>6, <2>1, <3>1, <3>2, <4>1
    <3>3. CASE r # NoToken
      BY <1>6, <1>9, <2>1, <3>3 DEF At
    <3> QED
      BY <3>2, <3>3
  <2>2. CASE b # a
    <3>1. \A q \in Callers : At(q, "answered")' /\ call'[q].account = b
                             <=> At(q, "answered") /\ call[q].account = b
      BY <1>5, <1>6, <2>2 DEF At, a
    <3>2. \A q \in Callers : At(q, "answered") /\ call[q].account = b => call'[q] = call[q]
      BY <1>5, <2>2 DEF a
    <3>3. refreshToken'[b] = refreshToken[b] /\ valid'[b] = valid[b]
      BY <1>4, <1>8, <2>2
    <3> QED
      BY <3>1, <3>2, <3>3 DEF RefreshInv, ValidInv
  <2> QED
    BY <2>1, <2>2
<1> QED
  BY <1>11, <1>12, <1>13, <1>14 DEF RefreshInv

(* A busy caller that lets go of the lock leaves every other account's lock, and every
   other caller, as it was. *)
LEMMA Release ==
  ASSUME RefreshInv, NEW p \in Callers, Busy(p), ~Busy(p)', ~At(p, "idle")',
         call'[p].account = call[p].account,
         \A q \in Callers : q # p => call'[q] = call[q],
         refreshMu' = [refreshMu EXCEPT ![call[p].account] = NoOne]
  PROVE  LockInv'
<1> DEFINE a == call[p].account
<1>1. TokenTypeOK /\ a \in Accounts
  BY BusyAlone DEF RefreshInv, RefreshTypeOK
<1>2. \A q \in Callers : Busy(q) /\ q # p => call[q].account # a
  BY BusyAlone
<1>3. \A q \in Callers : q # p => call'[q] = call[q] /\ Busy(q)' = Busy(q)
  BY DEF Busy, At
<1>4. \A q \in Callers : ~At(q, "idle")' => call'[q].account \in Accounts
  BY <1>1 DEF RefreshInv, LockInv, At
<1>5. ASSUME NEW q \in Callers, Busy(q)'
      PROVE  refreshMu'[call'[q].account] = q
  <2>1. q # p /\ Busy(q) /\ call'[q] = call[q]
    BY <1>3, <1>5
  <2>2. call[q].account # a /\ call[q].account \in Accounts /\ refreshMu[call[q].account] = q
    BY <1>2, <2>1, BusyAlone DEF RefreshInv, LockInv
  <2> QED
    BY <1>1, <2>1, <2>2 DEF TokenTypeOK
<1>6. ASSUME NEW b \in Accounts, refreshMu'[b] # NoOne
      PROVE  (Busy(refreshMu[b]) /\ call[refreshMu[b]].account = b)'
  <2>1. b # a /\ refreshMu'[b] = refreshMu[b] /\ refreshMu[b] \in Callers
    BY <1>1, <1>6 DEF TokenTypeOK
  <2>2. Busy(refreshMu[b]) /\ call[refreshMu[b]].account = b
    BY <1>6, <2>1 DEF RefreshInv, LockInv
  <2>3. refreshMu[b] # p
    BY <2>1, <2>2
  <2>4. call'[refreshMu[b]] = call[refreshMu[b]] /\ Busy(refreshMu[b])'
    BY <1>3, <2>1, <2>2, <2>3
  <2> QED
    BY <2>1, <2>2, <2>4
<1> QED
  BY <1>4, <1>5, <1>6 DEF LockInv

(* The exchange fails: memory keeps its token, and if an answer carried a newer one it
   has gone astray. *)
LEMMA FailStep ==
  ASSUME RefreshInv, RefreshTypeOK', NEW p \in Callers, NEW outcome, FailRefresh(p, outcome),
         UNCHANGED replaced,
         astray' = [astray EXCEPT ![call[p].account] = @ \/ call[p].tok.refresh # NoToken]
  PROVE  RefreshInv'
<1> DEFINE a == call[p].account
<1>1. TokenTypeOK /\ RefreshTypeOK /\ Busy(p)
  BY DEF FailRefresh, RefreshInv, RefreshTypeOK, Busy
<1>2. /\ call[p] \in Call /\ a \in Accounts /\ call[p].tok.refresh <= issued[a]
      /\ \A q \in Callers : Busy(q) /\ q # p => call[q].account # a
  BY <1>1, BusyAlone
<1>3. /\ call'[p] = [call[p] EXCEPT !.stage = "returned", !.outcome = outcome]
      /\ \A q \in Callers : q # p => call'[q] = call[q]
  BY <1>1, Proceeds DEF FailRefresh, Leave
<1>4. call'[p].stage = "returned" /\ call'[p].account = a /\ call'[p].tok = call[p].tok
  BY <1>2, <1>3, Advanced
<1>5. /\ refreshMu' = [refreshMu EXCEPT ![a] = NoOne]
      /\ UNCHANGED <<accessToken, refreshToken, refreshGen, valid, issued, disk>>
  BY DEF FailRefresh, Unlock, endpointVars
<1>6. ~Busy(p)' /\ ~At(p, "idle")'
  BY <1>4 DEF Busy, At
<1>7. \A q \in Callers : q # p => Busy(q)' = Busy(q)
  BY <1>3 DEF Busy, At
<1>8. LockInv'
  BY <1>1, <1>3, <1>4, <1>5, <1>6, Release
<1> HIDE DEF a
<1>9. HolderInv'
  <2>1. \A q \in Callers : Busy(q)' => /\ call'[q].gen = refreshGen'[call'[q].account]
                                       /\ call'[q].sent = refreshToken'[call'[q].account]
    BY <1>3, <1>5, <1>6, <1>7 DEF RefreshInv, HolderInv
  <2>2. \A q \in Callers : At(q, "waiting")' \/ At(q, "exchanging")' => call'[q].tok = NoPair
    BY <1>3, <1>4 DEF RefreshInv, HolderInv, At
  <2> QED
    BY <2>1, <2>2 DEF HolderInv
<1>10. OrderInv'
  BY <1>2, <1>3, <1>4, <1>5 DEF RefreshInv, OrderInv, At
<1>11. ValidInv'
  <2> SUFFICES ASSUME NEW b \in Accounts, ~astray'[b]
               PROVE  ( \/ refreshToken[b] = valid[b] /\ \A q \in Callers :
                            At(q, "answered") /\ call[q].account = b => call[q].tok.refresh = NoToken
                        \/ \E q \in Callers :
                            At(q, "answered") /\ call[q].account = b /\ call[q].tok.refresh = valid[b] )'
    BY DEF ValidInv
  <2>1. CASE b = a
    <3>1. ~astray[a] /\ call[p].tok.refresh = NoToken
      BY <1>1, <1>2, <2>1 DEF RefreshTypeOK, a
    <3>2. \A q \in Callers : At(q, "answered") /\ call[q].account = a => q = p
      BY <1>2 DEF Busy
    <3>3. valid[a] # NoToken
      BY <1>2, OAuthAssumption DEF RefreshInv, OrderInv, NoToken
    <3>4. refreshToken[a] = valid[a]
      BY <1>2, <3>1, <3>2, <3>3 DEF RefreshInv, ValidInv
    <3>5. \A q \in Callers : ~(At(q, "answered")' /\ call'[q].account = a)
      BY <1>3, <1>4, <3>2 DEF At
    <3> QED
      BY <1>5, <2>1, <3>4, <3>5
  <2>2. CASE b # a
    <3>1. \A q \in Callers : At(q, "answered")' /\ call'[q].account = b
                             <=> At(q, "answered") /\ call[q].account = b
      BY <1>3, <1>4, <2>2 DEF At, a
    <3>2. \A q \in Callers : call'[q].tok = call[q].tok
      BY <1>3, <1>4
    <3>3. ~astray[b]
      BY <1>1, <2>2 DEF RefreshTypeOK, a
    <3> QED
      BY <1>5, <3>1, <3>2, <3>3 DEF RefreshInv, ValidInv
  <2> QED
    BY <2>1, <2>2
<1> QED
  BY <1>8, <1>9, <1>10, <1>11 DEF RefreshInv

(* updateOAuth: the token it replaces falls behind, and the token the endpoint honours
   is in memory again. *)
LEMMA ApplyStep ==
  ASSUME RefreshInv, RefreshTypeOK', NEW p \in Callers, Apply(p), UNCHANGED astray,
         replaced' = [replaced EXCEPT ![call[p].account] =
             IF call[p].tok.refresh = NoToken THEN @ ELSE @ \cup {call[p].sent}]
  PROVE  RefreshInv'
<1> DEFINE a == call[p].account
           r == call[p].tok.refresh
<1>1. TokenTypeOK /\ RefreshTypeOK /\ Busy(p) /\ At(p, "answered")
  BY DEF Apply, RefreshInv, RefreshTypeOK, Busy
<1>2. /\ call[p] \in Call /\ a \in Accounts /\ r <= issued[a] /\ call[p].sent = refreshToken[a]
      /\ \A q \in Callers : Busy(q) /\ q # p => call[q].account # a
  BY <1>1, BusyAlone
<1>3. /\ call'[p] = [call[p] EXCEPT !.stage = "saving"]
      /\ \A q \in Callers : q # p => call'[q] = call[q]
  BY <1>1, Proceeds DEF Apply
<1>4. call'[p].stage = "saving" /\ call'[p].account = a /\ call'[p].tok = call[p].tok
  BY <1>2, <1>3, Advanced
<1>5. /\ refreshMu' = [refreshMu EXCEPT ![a] = NoOne]
      /\ refreshToken' = [refreshToken EXCEPT ![a] = IF r = NoToken THEN @ ELSE r]
      /\ refreshGen' = [refreshGen EXCEPT ![a] = @ + 1]
      /\ UNCHANGED <<valid, issued, disk>>
  BY DEF Apply, Unlock, endpointVars
<1>6. ~Busy(p)' /\ ~At(p, "idle")'
  BY <1>4 DEF Busy, At
<1>7. \A q \in Callers : q # p => Busy(q)' = Busy(q)
  BY <1>3 DEF Busy, At
<1>8. LockInv'
  BY <1>1, <1>3, <1>4, <1>5, <1>6, Release
<1>9. /\ refreshToken[a] \in Nat /\ r \in Nat /\ issued[a] \in Nat /\ refreshToken[a] <= issued[a]
      /\ r # NoToken => r > refreshToken[a]
      /\ valid[a] # NoToken
  <2>1. refreshToken[a] \in 0..MaxIssued /\ issued[a] \in 0..MaxIssued /\ r \in 0..MaxIssued
    BY <1>1, <1>2, CallTypes DEF TokenTypeOK, Tokens
  <2>2. valid[a] \in 1..issued[a] /\ refreshToken[a] <= issued[a]
        /\ (r # NoToken => r > refreshToken[a])
    BY <1>1, <1>2 DEF RefreshInv, OrderInv
  <2> QED
    BY <2>1, <2>2, OAuthAssumption DEF NoToken
<1>10. \A b \in Accounts : b # a => /\ refreshToken'[b] = refreshToken[b]
                                    /\ refreshGen'[b] = refreshGen[b]
                                    /\ replaced'[b] = replaced[b]
  BY <1>1, <1>5 DEF TokenTypeOK, RefreshTypeOK
<1>11. /\ refreshToken'[a] = (IF r = NoToken THEN refreshToken[a] ELSE r)
       /\ replaced'[a] = (IF r = NoToken THEN replaced[a] ELSE replaced[a] \cup {refreshToken[a]})
  BY <1>1, <1>2, <1>5 DEF TokenTypeOK, RefreshTypeOK
<1> HIDE DEF a, r
<1>12. \A q \in Callers : Busy(q)' =>
          q # p /\ Busy(q) /\ call'[q] = call[q] /\ call[q].account \in Accounts \ {a}
  <2> SUFFICES ASSUME NEW q \in Callers, Busy(q)'
               PROVE  q # p /\ Busy(q) /\ call'[q] = call[q] /\ call[q].account \in Accounts \ {a}
    OBVIOUS
  <2>1. q # p /\ Busy(q) /\ call'[q] = call[q]
    BY <1>3, <1>6, <1>7
  <2> QED
    BY <1>2, <2>1, BusyAlone
<1>13. HolderInv'
  <2>1. \A q \in Callers : Busy(q)' => /\ call'[q].gen = refreshGen'[call'[q].account]
                                       /\ call'[q].sent = refreshToken'[call'[q].account]
    BY <1>10, <1>12 DEF RefreshInv, HolderInv
  <2>2. \A q \in Callers : At(q, "waiting")' \/ At(q, "exchanging")' => call'[q].tok = NoPair
    BY <1>3, <1>4 DEF RefreshInv, HolderInv, At
  <2> QED
    BY <2>1, <2>2 DEF HolderInv
<1>14. OrderInv'
  <2>1. ASSUME NEW b \in Accounts
        PROVE  /\ valid'[b] \in 1..issued'[b]
               /\ refreshToken'[b] <= issued'[b]
               /\ disk'[b].refresh <= issued'[b]
               /\ \A t \in replaced'[b] : t < refreshToken'[b]
    <3>1. valid'[b] \in 1..issued'[b] /\ disk'[b].refresh <= issued'[b]
      BY <1>5 DEF RefreshInv, OrderInv
    <3>2. CASE b = a
      <4>1. \A t \in replaced[a] : t < refreshToken[a] /\ t \in Nat
        BY <1>1, <1>2, OAuthAssumption DEF RefreshInv, OrderInv, RefreshTypeOK, Tokens
      <4>2. refreshToken'[a] <= issued'[a]
        BY <1>2, <1>5, <1>9, <1>11 DEF r
      <4>3. \A t \in replaced'[a] : t < refreshToken'[a]
        BY <1>9, <1>11, <4>1
      <4> QED
        BY <3>1, <3>2, <4>2, <4>3
    <3>3. CASE b # a
      BY <1>5, <1>10, <3>1, <3>3 DEF RefreshInv, OrderInv
    <3> QED
      BY <3>2, <3>3
  <2>2. \A q \in Callers : ~At(q, "idle")' => call'[q].tok.refresh <= issued'[call'[q].account]
    BY <1>2, <1>3, <1>4, <1>5 DEF RefreshInv, OrderInv, At, r
  <2>3. \A q \in Callers : At(q, "answered")' /\ call'[q].tok.refresh # NoToken =>
          call'[q].tok.refresh > refreshToken'[call'[q].account]
    BY <1>10, <1>12 DEF RefreshInv, OrderInv, Busy, At
  <2> QED
    BY <2>1, <2>2, <2>3 DEF OrderInv
<1>15. ValidInv'
  <2> SUFFICES ASSUME NEW b \in Accounts, ~astray[b]
               PROVE  ( \/ refreshToken[b] = valid[b] /\ \A q \in Callers :
                            At(q, "answered") /\ call[q].account = b => call[q].tok.refresh = NoToken
                        \/ \E q \in Callers :
                            At(q, "answered") /\ call[q].account = b /\ call[q].tok.refresh = valid[b] )'
    BY DEF ValidInv
  <2>1. CASE b = a
    <3>1. \A q \in Callers : At(q, "answered") /\ call[q].account = a => q = p
      BY <1>2 DEF Busy
    <3>2. \A q \in Callers : ~(At(q, "answered")' /\ call'[q].account = a)
      BY <1>3, <1>4, <3>1 DEF At
    <3>3. CASE r = NoToken
      <4>1. refreshToken[a] = valid[a]
        BY <1>2, <1>9, <2>1, <3>1, <3>3 DEF RefreshInv, ValidInv, r
      <4> QED
        BY <1>5, <1>11, <2>1, <3>2, <3>3, <4>1
    <3>4. CASE r # NoToken
      <4>1. r = valid[a]
        BY <1>1, <1>2, <2>1, <3>1, <3>4 DEF RefreshInv, ValidInv, a, r
      <4> QED
        BY <1>5, <1>11, <2>1, <3>2, <3>4, <4>1
    <3> QED
      BY <3>3, <3>4
  <2>2. CASE b # a
    <3>1. \A q \in Callers : At(q, "answered")' /\ call'[q].account = b
                             <=> At(q, "answered") /\ call[q].account = b
      BY <1>3, <1>4, <2>2 DEF At, a
    <3>2. \A q \in Callers : call'[q].tok = call[q].tok
      BY <1>3, <1>4
    <3> QED
      BY <1>5, <1>10, <2>2, <3>1, <3>2 DEF RefreshInv, ValidInv
  <2> QED
    BY <2>1, <2>2
<1> QED
  BY <1>8, <1>13, <1>14, <1>15 DEF RefreshInv

LEMMA CrashStep ==
  ASSUME RefreshInv, RefreshTypeOK', CrashRestart
  PROVE  RefreshInv'
<1>1. \A p \in Callers : call'[p] = IdleCall /\ call'[p].stage = "idle"
  BY DEF CrashRestart, IdleCall
<1>2. \A p \in Callers : At(p, "idle")' /\ ~Busy(p)' /\ ~At(p, "waiting")' /\ ~At(p, "exchanging")'
                           /\ ~At(p, "answered")'
  BY <1>1 DEF At, Busy
<1>3. \A a \in Accounts :
        /\ refreshMu'[a] = NoOne /\ replaced'[a] = {} /\ refreshToken'[a] = disk[a].refresh
        /\ astray'[a] = (disk[a].refresh # valid[a])
        /\ valid'[a] = valid[a] /\ issued'[a] = issued[a] /\ disk'[a] = disk[a]
  BY DEF CrashRestart, endpointVars
<1>4. LockInv'
  BY <1>2, <1>3 DEF LockInv
<1>5. HolderInv'
  BY <1>2 DEF HolderInv
<1>6. OrderInv'
  BY <1>2, <1>3 DEF RefreshInv, OrderInv
<1>7. ValidInv'
  BY <1>2, <1>3 DEF ValidInv
<1> QED
  BY <1>4, <1>5, <1>6, <1>7 DEF RefreshInv

(* Steps that touch nothing the invariant speaks of. *)
LEMMA IdleStep ==
  ASSUME RefreshInv, RefreshTypeOK',
         UNCHANGED <<refreshToken, refreshGen, refreshMu, call, valid, issued, disk, replaced, astray>>
  PROVE  RefreshInv'
BY DEF RefreshInv, LockInv, HolderInv, OrderInv, ValidInv, Busy, At

LEMMA InvInit == Init => RefreshInv
<1> SUFFICES ASSUME Init PROVE RefreshInv
  OBVIOUS
<1>1. \A p \in Callers : At(p, "idle") /\ ~Busy(p) /\ ~At(p, "waiting") /\ ~At(p, "exchanging")
                          /\ ~At(p, "answered")
  BY DEF Init, TokenInit, IdleCall, At, Busy
<1>2. LockInv
  BY <1>1 DEF LockInv, Init, TokenInit
<1>3. HolderInv
  BY <1>1 DEF HolderInv
<1>4. OrderInv
  BY <1>1 DEF OrderInv, Init, TokenInit
<1>5. ValidInv
  BY <1>1 DEF ValidInv, Init, TokenInit
<1> QED
  BY <1>2, <1>3, <1>4, <1>5, InitTypes DEF RefreshInv

LEMMA InvStep == RefreshInv /\ [Next]_refreshVars => RefreshInv'
<1> SUFFICES ASSUME RefreshInv, [Next]_refreshVars
             PROVE  RefreshInv'
  OBVIOUS
<1>0. RefreshTypeOK'
  BY TypeStep DEF RefreshInv
<1>1. ASSUME NEW p \in Callers, Request(p)
      PROVE  RefreshInv'
  BY <1>0, <1>1, RequestStep
<1>2. ASSUME NEW p \in Callers, Refresh(p)
      PROVE  RefreshInv'
  <2>1. CASE /\ Skip(p) \/ Truncate(p) \/ WriteFile(p)
             /\ UNCHANGED <<up, crashes, replaced, astray>>
    BY <1>0, <2>1, QuietSteps
  <2>2. CASE Exchange(p) /\ UNCHANGED <<up, crashes, replaced, astray>>
    BY <1>0, <2>2, ExchangeStep
  <2>3. CASE Redeem(p) /\ UNCHANGED <<up, crashes, replaced, astray>>
    BY <1>0, <2>3, RedeemStep
  <2>4. CASE /\ \E outcome \in {"failed", "aborted"} : FailRefresh(p, outcome)
             /\ astray' = [astray EXCEPT ![call[p].account] = @ \/ call[p].tok.refresh # NoToken]
             /\ UNCHANGED <<up, crashes, replaced>>
    BY <1>0, <2>4, FailStep
  <2>5. CASE /\ Apply(p)
             /\ replaced' = [replaced EXCEPT ![call[p].account] =
                    IF call[p].tok.refresh = NoToken THEN @ ELSE @ \cup {call[p].sent}]
             /\ UNCHANGED <<up, crashes, astray>>
    BY <1>0, <2>5, ApplyStep
  <2> QED
    BY <1>2, <2>1, <2>2, <2>3, <2>4, <2>5 DEF Refresh
<1>3. ASSUME NEW p \in Callers, Collect(p)
      PROVE  RefreshInv'
  BY <1>0, <1>3, QuietSteps DEF Collect
<1>4. ASSUME NEW a \in Accounts, ExpireToken(a)
      PROVE  RefreshInv'
  BY <1>0, <1>4, IdleStep DEF ExpireToken, Expire, endpointVars
<1>5. CASE CrashRestart
  BY <1>0, <1>5, CrashStep
<1>6. CASE FatalAgain \/ UNCHANGED refreshVars
  BY <1>0, <1>6, IdleStep DEF FatalAgain, refreshVars, tokenVars, credVars, endpointVars
<1> QED
  BY <1>1, <1>2, <1>3, <1>4, <1>5, <1>6 DEF Next

-----------------------------------------------------------------------------
THEOREM Invariance == Spec => []RefreshInv
BY InvInit, InvStep, PTL DEF Spec

(* Every variable keeps its type, through crashes and restarts too. *)
THEOREM TypeCorrect == Spec => []RefreshTypeOK
<1>1. RefreshInv => RefreshTypeOK
  BY DEF RefreshInv
<1> QED
  BY <1>1, Invariance, PTL

(* A refresh token the process has replaced is never presented again. *)
THEOREM SpentOnce == Spec => []ReplacedNeverSpent
<1>1. RefreshInv => ReplacedNeverSpent
  <2> SUFFICES ASSUME RefreshInv, NEW p \in Callers, Busy(p)
               PROVE  call[p].sent \notin replaced[call[p].account]
    BY DEF ReplacedNeverSpent, Busy
  <2>1. call[p].account \in Accounts /\ call[p].sent = refreshToken[call[p].account]
    BY BusyAlone
  <2>2. \A t \in replaced[call[p].account] : t < refreshToken[call[p].account]
    BY <2>1 DEF RefreshInv, OrderInv
  <2>3. refreshToken[call[p].account] \in Nat
    BY <2>1, OAuthAssumption DEF RefreshInv, RefreshTypeOK, TokenTypeOK, Tokens
  <2> QED
    BY <2>1, <2>2, <2>3
<1> QED
  BY <1>1, Invariance, PTL

(* An exchange under way replaces the very token its caller found wanting. *)
THEOREM Deduplicated == Spec => []ReplacesWhatItSaw
<1>1. RefreshInv => ReplacesWhatItSaw
  BY DEF RefreshInv, HolderInv, ReplacesWhatItSaw, Busy
<1> QED
  BY <1>1, Invariance, PTL

(* Concurrency alone never leaves an account without a refresh token the endpoint
   honours. *)
THEOREM NeverLockedOut == Spec => []MemoryHoldsValid
<1>1. RefreshInv => MemoryHoldsValid
  <2> SUFFICES ASSUME RefreshInv, NEW a \in Accounts, refreshMu[a] = NoOne, ~astray[a]
               PROVE  refreshToken[a] = valid[a]
    BY DEF MemoryHoldsValid
  <2>1. \A q \in Callers : At(q, "answered") => call[q].account # a
    <3>1. \A q \in Callers : At(q, "answered") => refreshMu[call[q].account] = q
      BY DEF RefreshInv, LockInv, Busy
    <3> QED
      BY <3>1, OAuthAssumption
  <2> QED
    BY <2>1 DEF RefreshInv, ValidInv
<1> QED
  BY <1>1, Invariance, PTL
=============================================================================
