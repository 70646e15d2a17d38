---------------------------- MODULE KeyGovernance ----------------------------
(***************************************************************************)
(* Requests under managed keys, the operator's changes of the keys, the    *)
(* saver and restarts (server.authorized and record, the key handlers,     *)
(* cmd/cerber).                                                            *)
(*                                                                         *)
(* A request is authorized in two critical sections: Identify finds the    *)
(* name of the presented secret, Admit looks the name up again.  It pays   *)
(* in a third one, when its answer is complete.  Operators change the      *)
(* entries in between, and the process may die after any step.  A request  *)
(* with a static key, or on loopback without a recognised key, bypasses    *)
(* the store and is left out.                                              *)
(***************************************************************************)
EXTENDS ManagedKeys, FiniteSets

CONSTANTS
    Requests,       \* requests being handled at once
    Spends,         \* what a request may cost and how many tokens it may use
    DearestCall,    \* the most one request costs
    LongestCall,    \* the most tokens one request uses
    MaxChanges      \* bound: changes the operator makes

ASSUME GovernanceAssumption ==
  /\ IsFiniteSet(Requests)
  /\ DearestCall \in Nat /\ LongestCall \in Nat /\ MaxChanges \in Nat
  /\ Spends \subseteq [cost : 0..DearestCall, tokens : 0..LongestCall]

VARIABLES
    stage,          \* where each request is
    client,         \* the name Identify found for it
    changes,        \* history: changes the operator made
    promised,       \* history: per name, what the operator was last told
    unsure,         \* history: names whose last change was answered with an error,
                    \* so that nothing is promised of them
    revoked         \* history: secrets whose deletion was answered with success

requestVars == <<stage, client>>
historyVars == <<changes, promised, unsure, revoked>>
govVars == <<storeVars, requestVars, historyVars>>

Stages == {"idle", "identified", "serving"}

GovTypeOK ==
  /\ keys \in [Names -> Entries]
  /\ keysFile \in [Names -> Entries]
  /\ minted \in Nat
  /\ stage \in [Requests -> Stages]
  /\ client \in [Requests -> Names]
  /\ changes \in Nat
  /\ promised \in [Names -> [secret : Nat \ {0}, enabled : BOOLEAN, limits : Limits]
                            \cup {NoEntry}]
  /\ unsure \in SUBSET Names
  /\ revoked \in SUBSET Nat

(* No keys file yet. *)
Init ==
  /\ keys = [n \in Names |-> NoEntry]
  /\ keysFile = keys
  /\ minted = 0
  /\ stage = [r \in Requests |-> "idle"]
  /\ client \in [Requests -> Names]
  /\ changes = 0
  /\ promised = [n \in Names |-> NoEntry]
  /\ unsure = {}
  /\ revoked = {}

-----------------------------------------------------------------------------
(* Requests. *)

(* authorized, first part: the secret of an enabled key was presented. *)
Identify(r, n) ==
  /\ stage[r] = "idle"
  /\ Exists(keys[n]) /\ keys[n].enabled
  /\ stage' = [stage EXCEPT ![r] = "identified"]
  /\ client' = [client EXCEPT ![r] = n]
  /\ UNCHANGED <<storeVars, historyVars>>

(* The bound on the counters of an entry. *)
Countable(e) == Exists(e) => e.requests <= MaxCount /\ e.admitted <= MaxCount

(* authorized, second part: the name may be gone by now, or be another key's.  The file
   is not written; only the history kept beside its entry changes. *)
Authorize(r) ==
  LET n == client[r]
  IN /\ stage[r] = "identified"
     /\ Countable(Admit(n)[n]) /\ Countable(NoteUnsaved(n)[n])
     /\ keys' = Admit(n)
     /\ keysFile' = NoteUnsaved(n)
     /\ stage' = [stage EXCEPT ![r] = IF Allowed(n) THEN "serving" ELSE "idle"]
     /\ UNCHANGED <<minted, client, historyVars>>

(* record: the answer is complete.  A failed request spends nothing. *)
Record(r, spend) ==
  /\ stage[r] = "serving"
  /\ Exists(keys[client[r]]) => /\ keys[client[r]].cost + spend.cost <= MaxCount
                                /\ keys[client[r]].tokens + spend.tokens <= MaxCount
  /\ keys' = Charge(client[r], spend.cost, spend.tokens)
  /\ stage' = [stage EXCEPT ![r] = "idle"]
  /\ UNCHANGED <<keysFile, minted, client, historyVars>>

-----------------------------------------------------------------------------
(* The operator.  ok tells whether the write succeeded: every handler answers an error
   when it did not, and memory has changed all the same. *)

Told(n, entry, ok) ==
  /\ changes < MaxChanges
  /\ changes' = changes + 1
  /\ promised' = [promised EXCEPT ![n] = IF ok THEN Chosen(entry) ELSE NoEntry]
  /\ unsure' = IF ok THEN unsure \ {n} ELSE unsure \cup {n}

(* handleKeyCreate and Add. *)
CreateKey(n, ok) ==
  /\ ~Exists(keys[n])
  /\ minted < MaxMinted
  /\ minted' = minted + 1
  /\ Mutate([keys EXCEPT ![n] = NewEntry(minted + 1)], ok)
  /\ Told(n, NewEntry(minted + 1), ok)
  /\ UNCHANGED <<requestVars, revoked>>

(* Mutant: the switch is left to the saver to persist. *)
SetEnabledLazily(n, enabled, ok) ==
  /\ Exists(keys[n])
  /\ LET e == [keys[n] EXCEPT !.enabled = enabled]
     IN keys' = [keys EXCEPT ![n] = e] /\ Told(n, e, ok)
  /\ UNCHANGED <<keysFile, minted, requestVars, revoked>>

(* handleSetKey and SetEnabled. *)
SetEnabled(n, enabled, ok) ==
  /\ Exists(keys[n])
  /\ LET e == [keys[n] EXCEPT !.enabled = enabled]
     IN Mutate([keys EXCEPT ![n] = e], ok) /\ Told(n, e, ok)
  /\ UNCHANGED <<minted, requestVars, revoked>>

(* Mutant: the handler answers success whether or not the write succeeded. *)
DeleteUnsaved(n, ok) ==
  /\ Exists(keys[n])
  /\ Mutate([keys EXCEPT ![n] = NoEntry], ok)
  /\ Told(n, NoEntry, TRUE)
  /\ revoked' = revoked \cup {keys[n].secret}
  /\ UNCHANGED <<minted, requestVars>>

(* handleKeyDelete and Delete. *)
DeleteKey(n, ok) ==
  /\ Exists(keys[n])
  /\ Mutate([keys EXCEPT ![n] = NoEntry], ok)
  /\ Told(n, NoEntry, ok)
  /\ revoked' = IF ok THEN revoked \cup {keys[n].secret} ELSE revoked
  /\ UNCHANGED <<minted, requestVars>>

(* handleKeyLimits and SetLimits. *)
SetLimits(n, l, budget, rate, ok) ==
  /\ Exists(keys[n])
  /\ budget \in Periods(keys[n].budget) /\ rate \in Periods(keys[n].rate)
  /\ LET e == WithLimits(keys[n], l, budget, rate)
     IN Mutate([keys EXCEPT ![n] = e], ok) /\ Told(n, e, ok)
  /\ UNCHANGED <<minted, requestVars, revoked>>

-----------------------------------------------------------------------------
(* The 30 s saver, and the save at shutdown, which the process may outlive a little. *)
Save(ok) ==
  /\ SaveLocked(keys, ok)
  /\ UNCHANGED <<keys, minted, requestVars, historyVars>>

(* The process ends, in a crash or after the last save, and starts again. *)
Restart ==
  /\ LoadStore
  /\ stage' = [r \in Requests |-> "idle"]
  /\ UNCHANGED <<keysFile, minted, client, historyVars>>

Elapses(n, field, alsoInFile) ==
  /\ WindowElapses(n, field, alsoInFile)
  /\ UNCHANGED <<requestVars, historyVars>>

Next ==
  \/ \E r \in Requests : \/ \E n \in Names : Identify(r, n)
                         \/ Authorize(r)
                         \/ \E spend \in Spends : Record(r, spend)
  \/ \E n \in Names, ok \in BOOLEAN :
       \/ CreateKey(n, ok)
       \/ \E enabled \in BOOLEAN : SetEnabled(n, enabled, ok)
       \/ DeleteKey(n, ok)
       \/ \E l \in LimitChoices, budget, rate \in Windows : SetLimits(n, l, budget, rate, ok)
  \/ \E n \in Names, field \in {"budget", "rate"}, alsoInFile \in BOOLEAN :
       Elapses(n, field, alsoInFile)
  \/ \E ok \in BOOLEAN : Save(ok)
  \/ Restart

Spec == Init /\ [][Next]_govVars

-----------------------------------------------------------------------------
(* Properties. *)

InFlight(n) == {r \in Requests : stage[r] = "serving" /\ client[r] = n}

(* The counter and what count requests may still add to it stay below the limit plus a
   full load. *)
Bounded(counter, limit, count, call) ==
  counter + count * call < limit + Cardinality(Requests) * call

CostBounded(e, count) ==
  e.limits.maxCost > 0 /\ ~e.costLowered =>
    Bounded(e.cost, e.limits.maxCost, count, DearestCall)

TokensBounded(e, count) ==
  e.limits.maxTokens > 0 /\ ~e.rateLowered =>
    Bounded(e.tokens, e.limits.maxTokens, count, LongestCall)

RequestsBounded(e) ==
  e.limits.maxRequests > 0 /\ ~e.rateLowered =>
    e.admitted <= e.limits.maxRequests + e.missed

(* Admit checks a budget that Charge fills only when the answer is complete, so requests
   in flight together overshoot it.  They overshoot by what they cost and no more: with
   a limit in force since the window opened, the cost recorded and the cost still to come
   stay below the limit plus one dearest call per request the gateway handles at once.
   The same holds of tokens.  A key deleted or made again in between changes nothing, nor
   does a window that ends while requests are in flight.  The claim is about the counters
   of the running process: what was charged after the last save is gone from them when
   the process starts again. *)
OvershootBounded ==
  \A n \in Names : Exists(keys[n]) =>
    LET inFlight == Cardinality(InFlight(n))
    IN CostBounded(keys[n], inFlight) /\ TokensBounded(keys[n], inFlight)

(* Requests are reserved when they are admitted, however many are authorized at once, so
   of all the requests let through in one window, in whatever process, those above the
   limit are requests a restart forgot: ones let through after the last save of the key.
   The limit is exact where a restart forgot nothing, and no request that was saved is
   forgotten: of those, and of no others, limits.go says rightly that "rate limits
   survive a restart". *)
RequestsWithinLimit ==
  \A n \in Names : Exists(keys[n]) => RequestsBounded(keys[n])

(* What the operator was last told of a key is what the gateway does and what it will do
   after a restart: every change that was answered with success is in memory and in the
   file, whatever other writes failed and however the saver interleaves. *)
AnsweredIsSaved ==
  \A n \in Names \ unsure : /\ Chosen(keys[n]) = promised[n]
                            /\ Chosen(keysFile[n]) = promised[n]

(* A key whose deletion was answered with success does not come back: neither a restart,
   nor a lazy save, nor a new key of the same name brings its secret to life. *)
RevokedStaysRevoked ==
  \A n \in Names : /\ keys[n].secret \notin revoked
                   /\ keysFile[n].secret \notin revoked
=============================================================================
