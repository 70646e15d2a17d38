------------------------ MODULE KeyGovernance_proofs ------------------------
(***************************************************************************)
(* Proofs about KeyGovernance, for every set of names and of concurrent    *)
(* requests, every limit and every price.                                  *)
(***************************************************************************)
EXTENDS KeyGovernance, FiniteSetTheorems, TLAPS

-----------------------------------------------------------------------------
(* What the methods of the store do to one entry. *)

LEMMA EntryFacts ==
  /\ NoEntry.secret = 0
  /\ \A e \in Entries : Exists(e) <=> e \in KeyEntry
BY DEF NoEntry, Exists, Entries, KeyEntry

LEMMA NewEntryType ==
  ASSUME NEW s \in Nat \ {0}
  PROVE  /\ NewEntry(s) \in KeyEntry
         /\ NewEntry(s).secret = s
         /\ NewEntry(s).admitted = 0 /\ NewEntry(s).missed = 0
BY KeysAssumption DEF NewEntry, KeyEntry, Windows

LEMMA MaybeResetType ==
  ASSUME NEW e \in KeyEntry
  PROVE  /\ MaybeReset(e) \in KeyEntry
         /\ MaybeReset(e).secret = e.secret
         /\ MaybeReset(e).limits = e.limits
         /\ \/ MaybeReset(e).cost = e.cost /\ MaybeReset(e).costLowered = e.costLowered
            \/ MaybeReset(e).cost = 0
         /\ MaybeReset(e).rate = "open"
         /\ MaybeReset(e).admitted = e.admitted /\ MaybeReset(e).missed = e.missed
         /\ \/ /\ e.rate = "open"
               /\ MaybeReset(e).tokens = e.tokens
               /\ MaybeReset(e).requests = e.requests
               /\ MaybeReset(e).rateLowered = e.rateLowered
            \/ /\ e.rate # "open"
               /\ MaybeReset(e).tokens = 0 /\ MaybeReset(e).requests = 0
<1>1. /\ ResetBudget(e) \in KeyEntry
      /\ ResetBudget(e).secret = e.secret /\ ResetBudget(e).limits = e.limits
      /\ ResetBudget(e).tokens = e.tokens /\ ResetBudget(e).requests = e.requests
      /\ ResetBudget(e).rateLowered = e.rateLowered /\ ResetBudget(e).rate = e.rate
      /\ ResetBudget(e).admitted = e.admitted /\ ResetBudget(e).missed = e.missed
      /\ \/ ResetBudget(e).cost = e.cost /\ ResetBudget(e).costLowered = e.costLowered
         \/ ResetBudget(e).cost = 0
  BY DEF ResetBudget, KeyEntry, Windows
<1>2. ASSUME NEW f \in KeyEntry
      PROVE  /\ ResetRate(f) \in KeyEntry
             /\ ResetRate(f).secret = f.secret /\ ResetRate(f).limits = f.limits
             /\ ResetRate(f).cost = f.cost /\ ResetRate(f).costLowered = f.costLowered
             /\ ResetRate(f).rate = "open"
             /\ ResetRate(f).admitted = f.admitted /\ ResetRate(f).missed = f.missed
             /\ \/ /\ f.rate = "open"
                   /\ ResetRate(f).tokens = f.tokens
                   /\ ResetRate(f).requests = f.requests
                   /\ ResetRate(f).rateLowered = f.rateLowered
                \/ /\ f.rate # "open"
                   /\ ResetRate(f).tokens = 0 /\ ResetRate(f).requests = 0
  BY DEF ResetRate, KeyEntry, Windows
<1> QED
  BY <1>1, <1>2 DEF MaybeReset

LEMMA ElapseType ==
  ASSUME NEW e \in Entries, NEW field \in {"budget", "rate"}
  PROVE  /\ Elapse(e, field) \in Entries
         /\ Elapse(e, field).secret = e.secret
         /\ Exists(e) => /\ Elapse(e, field).enabled = e.enabled
                         /\ Elapse(e, field).limits = e.limits
                         /\ Elapse(e, field).cost = e.cost
                         /\ Elapse(e, field).costLowered = e.costLowered
                         /\ Elapse(e, field).requests = e.requests
                         /\ Elapse(e, field).tokens = e.tokens
                         /\ Elapse(e, field).rateLowered = e.rateLowered
                         /\ \/ /\ Elapse(e, field).rate = e.rate
                               /\ Elapse(e, field).admitted = e.admitted
                               /\ Elapse(e, field).missed = e.missed
                            \/ /\ Elapse(e, field).rate # "open"
                               /\ Elapse(e, field).admitted = 0
                               /\ Elapse(e, field).missed = 0
<1>1. CASE ~Exists(e)
  BY <1>1 DEF Elapse
<1>2. CASE Exists(e) /\ field = "budget"
  BY <1>2, EntryFacts DEF Elapse, Entries, KeyEntry, Windows
<1>3. CASE Exists(e) /\ field = "rate"
  <2> DEFINE f == IF e.rate = "open" THEN [e EXCEPT !.rate = "over"] ELSE e
  <2>1. /\ f \in KeyEntry
        /\ f.secret = e.secret /\ f.enabled = e.enabled /\ f.limits = e.limits
        /\ f.cost = e.cost /\ f.costLowered = e.costLowered /\ f.requests = e.requests
        /\ f.tokens = e.tokens /\ f.rateLowered = e.rateLowered /\ f.rate # "open"
    BY <1>3, EntryFacts DEF KeyEntry, Windows
  <2>2. Elapse(e, field) = [f EXCEPT !.admitted = 0, !.missed = 0]
    BY <1>3 DEF Elapse
  <2> HIDE DEF f
  <2> DEFINE g == [f EXCEPT !.admitted = 0, !.missed = 0]
  <2>3. /\ g \in KeyEntry
        /\ g.secret = f.secret /\ g.enabled = f.enabled /\ g.limits = f.limits
        /\ g.cost = f.cost /\ g.costLowered = f.costLowered /\ g.requests = f.requests
        /\ g.tokens = f.tokens /\ g.rateLowered = f.rateLowered /\ g.rate = f.rate
        /\ g.admitted = 0 /\ g.missed = 0
    BY <2>1 DEF KeyEntry
  <2>4. Elapse(e, field) = g
    BY <2>2
  <2> HIDE DEF g
  <2> QED
    BY <2>1, <2>3, <2>4 DEF Entries
<1> QED
  BY <1>1, <1>2, <1>3

LEMMA SpentFields ==
  ASSUME NEW e \in KeyEntry, NEW cost \in Nat, NEW tokens \in Nat
  PROVE  /\ Spent(e, cost, tokens) \in KeyEntry
         /\ Spent(e, cost, tokens).secret = e.secret
         /\ Spent(e, cost, tokens).limits = e.limits
         /\ Spent(e, cost, tokens).cost = e.cost + cost
         /\ Spent(e, cost, tokens).costLowered = e.costLowered
         /\ Spent(e, cost, tokens).tokens = e.tokens + tokens
         /\ Spent(e, cost, tokens).rateLowered = e.rateLowered
         /\ Spent(e, cost, tokens).requests = e.requests
         /\ Spent(e, cost, tokens).rate = e.rate
         /\ Spent(e, cost, tokens).admitted = e.admitted
         /\ Spent(e, cost, tokens).missed = e.missed
<1> DEFINE x == e.cost + cost
           y == e.tokens + tokens
<1>1. x \in Nat /\ y \in Nat
  BY DEF KeyEntry
<1>2. Spent(e, cost, tokens) = [e EXCEPT !.cost = x, !.tokens = y]
  BY DEF Spent, KeyEntry
<1> HIDE DEF x, y
<1>3. [e EXCEPT !.cost = x, !.tokens = y] \in KeyEntry
  BY <1>1 DEF KeyEntry
<1> QED
  BY <1>2, <1>3 DEF KeyEntry, x, y

LEMMA ReservedFields ==
  ASSUME NEW e \in KeyEntry
  PROVE  /\ Reserved(e) \in KeyEntry
         /\ Reserved(e).secret = e.secret
         /\ Reserved(e).limits = e.limits
         /\ Reserved(e).cost = e.cost /\ Reserved(e).costLowered = e.costLowered
         /\ Reserved(e).tokens = e.tokens /\ Reserved(e).rateLowered = e.rateLowered
         /\ Reserved(e).requests = e.requests + 1
         /\ Reserved(e).rate = e.rate /\ Reserved(e).missed = e.missed
         /\ Reserved(e).admitted = e.admitted + 1
<1> DEFINE x == e.requests + 1
           y == e.admitted + 1
<1>1. x \in Nat /\ y \in Nat
  BY DEF KeyEntry
<1>2. Reserved(e) = [e EXCEPT !.requests = x, !.admitted = y]
  BY DEF Reserved, KeyEntry
<1> HIDE DEF x, y
<1>3. [e EXCEPT !.requests = x, !.admitted = y] \in KeyEntry
  BY <1>1 DEF KeyEntry
<1> QED
  BY <1>2, <1>3 DEF KeyEntry, x, y

LEMMA MissingFields ==
  ASSUME NEW e \in KeyEntry
  PROVE  /\ Missing(e) \in KeyEntry
         /\ Missing(e).secret = e.secret /\ Missing(e).enabled = e.enabled
         /\ Missing(e).limits = e.limits
         /\ Missing(e).cost = e.cost /\ Missing(e).costLowered = e.costLowered
         /\ Missing(e).tokens = e.tokens /\ Missing(e).rateLowered = e.rateLowered
         /\ Missing(e).requests = e.requests /\ Missing(e).rate = e.rate
         /\ Missing(e).admitted = e.admitted + 1
         /\ Missing(e).missed = e.missed + 1
<1> DEFINE x == e.admitted + 1
           y == e.missed + 1
<1>1. x \in Nat /\ y \in Nat
  BY DEF KeyEntry
<1>2. Missing(e) = [e EXCEPT !.admitted = x, !.missed = y]
  BY DEF Missing, KeyEntry
<1> HIDE DEF x, y
<1>3. [e EXCEPT !.admitted = x, !.missed = y] \in KeyEntry
  BY <1>1 DEF KeyEntry
<1> QED
  BY <1>2, <1>3 DEF KeyEntry, x, y

(* The file keeps its entries, but for the history beside the one that was let through. *)
LEMMA NotedEntry ==
  ASSUME NEW n \in Names, keys \in [Names -> Entries], keysFile \in [Names -> Entries]
  PROVE  /\ NoteUnsaved(n) \in [Names -> Entries]
         /\ \A m \in Names : \/ NoteUnsaved(n)[m] = keysFile[m]
                             \/ /\ keysFile[m] \in KeyEntry
                                /\ NoteUnsaved(n)[m] = Missing(keysFile[m])
         /\ \A m \in Names : NoteUnsaved(n)[m].secret = keysFile[m].secret
<1>1. CASE Governed(n) /\ Allowed(n) /\ keysFile[n].secret = keys[n].secret
  <2>1. keysFile[n] \in KeyEntry
    BY <1>1, EntryFacts DEF Governed, Exists
  <2> DEFINE f == Missing(keysFile[n])
  <2>2. f \in Entries /\ f.secret = keysFile[n].secret
    BY <2>1, MissingFields DEF Entries
  <2>3. NoteUnsaved(n) = [keysFile EXCEPT ![n] = f]
    BY <1>1 DEF NoteUnsaved
  <2>4. NoteUnsaved(n)[n] = f
    BY <2>3
  <2> HIDE DEF f
  <2>5. /\ NoteUnsaved(n) \in [Names -> Entries]
        /\ \A m \in Names \ {n} : NoteUnsaved(n)[m] = keysFile[m]
    BY <2>2, <2>3
  <2>6. \A m \in Names : NoteUnsaved(n)[m].secret = keysFile[m].secret
    BY <2>2, <2>4, <2>5
  <2> QED
    BY <2>1, <2>4, <2>5, <2>6 DEF f
<1>2. CASE ~(Governed(n) /\ Allowed(n) /\ keysFile[n].secret = keys[n].secret)
  BY <1>2 DEF NoteUnsaved
<1> QED
  BY <1>1, <1>2

(* Admit changes the entry of one name, and no secret. *)
LEMMA AdmitEntry ==
  ASSUME NEW n \in Names, keys \in [Names -> Entries]
  PROVE  /\ Admit(n) \in [Names -> Entries]
         /\ \A m \in Names : Admit(n)[m].secret = keys[m].secret
         /\ \A m \in Names \ {n} : Admit(n)[m] = keys[m]
<1>1. CASE ~Governed(n)
  BY <1>1 DEF Admit
<1>2. CASE Governed(n)
  <2>1. keys[n] \in KeyEntry
    BY <1>2, EntryFacts DEF Governed
  <2> DEFINE e == MaybeReset(keys[n])
  <2>2. e \in KeyEntry /\ e.secret = keys[n].secret
    BY <2>1, MaybeResetType
  <2>3. Reserved(e) \in KeyEntry /\ Reserved(e).secret = e.secret
    BY <2>2, ReservedFields
  <2>4. Admit(n) = [keys EXCEPT ![n] = IF Allowed(n) THEN Reserved(e) ELSE e]
    BY <1>2 DEF Admit
  <2> HIDE DEF e
  <2> QED
    BY <2>2, <2>3, <2>4 DEF Entries
<1> QED
  BY <1>1, <1>2

(* So does Charge. *)
LEMMA ChargeEntry ==
  ASSUME NEW n \in Names, keys \in [Names -> Entries], NEW cost \in Nat, NEW tokens \in Nat
  PROVE  /\ Charge(n, cost, tokens) \in [Names -> Entries]
         /\ \A m \in Names : Charge(n, cost, tokens)[m].secret = keys[m].secret
         /\ \A m \in Names \ {n} : Charge(n, cost, tokens)[m] = keys[m]
<1>1. CASE ~Governed(n) \/ (cost = 0 /\ tokens = 0)
  BY <1>1 DEF Charge
<1>2. CASE Governed(n) /\ ~(cost = 0 /\ tokens = 0)
  <2>1. keys[n] \in KeyEntry
    BY <1>2, EntryFacts DEF Governed
  <2> DEFINE e == MaybeReset(keys[n])
             f == Spent(e, cost, tokens)
  <2>2. e \in KeyEntry /\ e.secret = keys[n].secret
    BY <2>1, MaybeResetType
  <2>3. f \in KeyEntry /\ f.secret = e.secret
    BY <2>2, SpentFields
  <2>4. Charge(n, cost, tokens) = [keys EXCEPT ![n] = f]
    BY <1>2 DEF Charge
  <2> HIDE DEF e, f
  <2> QED
    BY <2>2, <2>3, <2>4 DEF Entries
<1> QED
  BY <1>1, <1>2

LEMMA WithLimitsType ==
  ASSUME NEW e \in KeyEntry, NEW l \in LimitChoices, NEW b \in Windows, NEW w \in Windows
  PROVE  /\ WithLimits(e, l, b, w) \in KeyEntry
         /\ WithLimits(e, l, b, w).secret = e.secret
<1> DEFINE x == e.costLowered \/ Lowered(e.limits.maxCost, l.maxCost)
           y == e.rateLowered \/ Lowered(e.limits.maxRequests, l.maxRequests)
                              \/ Lowered(e.limits.maxTokens, l.maxTokens)
           ranOut == e.rate = "open" /\ w = "over"
           a == IF ranOut THEN 0 ELSE e.admitted
           d == IF ranOut THEN 0 ELSE e.missed
<1>1. WithLimits(e, l, b, w) =
        [e EXCEPT !.limits = l, !.budget = b, !.rate = w, !.costLowered = x,
                  !.rateLowered = y, !.admitted = a, !.missed = d]
  BY Zenon DEF WithLimits
<1>2. l \in Limits
  BY KeysAssumption
<1>3. x \in BOOLEAN /\ y \in BOOLEAN /\ a \in Nat /\ d \in Nat
  BY DEF KeyEntry, Lowered
<1> HIDE DEF x, y, a, d
<1> QED
  BY <1>1, <1>2, <1>3 DEF KeyEntry

LEMMA ChosenType ==
  ASSUME NEW e \in Entries
  PROVE  Chosen(e) \in [secret : Nat \ {0}, enabled : BOOLEAN, limits : Limits]
                       \cup {NoEntry}
BY DEF Chosen, Entries, KeyEntry, Exists, NoEntry

-----------------------------------------------------------------------------
(* Type correctness. *)

StoreTyped == keys \in [Names -> Entries] /\ keysFile \in [Names -> Entries]

LEMMA MutateType ==
  ASSUME StoreTyped, NEW n \in Names, NEW e \in Entries, NEW ok \in BOOLEAN,
         Mutate([keys EXCEPT ![n] = e], ok)
  PROVE  keys' \in [Names -> Entries] /\ keysFile' \in [Names -> Entries]
BY DEF StoreTyped, Mutate, SaveLocked

LEMMA ToldType ==
  ASSUME GovTypeOK, NEW n \in Names, NEW e \in Entries, NEW ok \in BOOLEAN, Told(n, e, ok)
  PROVE  /\ changes' \in Nat
         /\ promised' \in [Names -> [secret : Nat \ {0}, enabled : BOOLEAN, limits : Limits]
                                    \cup {NoEntry}]
         /\ unsure' \in SUBSET Names
<1>1. Chosen(e) \in [secret : Nat \ {0}, enabled : BOOLEAN, limits : Limits] \cup {NoEntry}
  BY ChosenType
<1> QED
  BY <1>1 DEF GovTypeOK, Told

(* Every step keeps the entries, in memory and in the file, the requests and the history
   in their types. *)
LEMMA TypeStep ==
  ASSUME GovTypeOK, [Next]_govVars
  PROVE  GovTypeOK'
<1> USE DEF GovTypeOK
<1>0. StoreTyped
  BY DEF StoreTyped
<1>1. ASSUME NEW r \in Requests, NEW n \in Names, Identify(r, n)
      PROVE  GovTypeOK'
  BY <1>1 DEF Identify, storeVars, historyVars, Stages
<1>2. ASSUME NEW r \in Requests, Authorize(r)
      PROVE  GovTypeOK'
  <2>1. client[r] \in Names
    OBVIOUS
  <2>2. keys' \in [Names -> Entries] /\ keysFile' \in [Names -> Entries]
    BY <1>2, <2>1, AdmitEntry, NotedEntry DEF Authorize
  <2> QED
    BY <1>2, <2>2 DEF Authorize, historyVars, Stages
<1>3. ASSUME NEW r \in Requests, NEW spend \in Spends, Record(r, spend)
      PROVE  GovTypeOK'
  <2>1. client[r] \in Names /\ spend.cost \in Nat /\ spend.tokens \in Nat
    BY GovernanceAssumption
  <2>2. keys' \in [Names -> Entries]
    BY <1>3, <2>1, ChargeEntry DEF Record
  <2> QED
    BY <1>3, <2>2 DEF Record, historyVars, Stages
<1>4. ASSUME NEW n \in Names, NEW ok \in BOOLEAN, CreateKey(n, ok)
      PROVE  GovTypeOK'
  <2>1. NewEntry(minted + 1) \in Entries
    BY NewEntryType DEF Entries
  <2>3. keys' \in [Names -> Entries] /\ keysFile' \in [Names -> Entries]
    BY <1>0, <1>4, <2>1, MutateType DEF CreateKey
  <2>4. Told(n, NewEntry(minted + 1), ok)
    BY <1>4 DEF CreateKey
  <2> QED
    BY <1>4, <2>1, <2>3, <2>4, ToldType DEF CreateKey, requestVars
<1>5. ASSUME NEW n \in Names, NEW ok \in BOOLEAN, NEW enabled \in BOOLEAN,
             SetEnabled(n, enabled, ok)
      PROVE  GovTypeOK'
  <2>1. [keys[n] EXCEPT !.enabled = enabled] \in Entries
    BY <1>5, EntryFacts DEF SetEnabled, Entries, KeyEntry
  <2>3. keys' \in [Names -> Entries] /\ keysFile' \in [Names -> Entries]
    BY <1>0, <1>5, <2>1, MutateType DEF SetEnabled
  <2>4. Told(n, [keys[n] EXCEPT !.enabled = enabled], ok)
    BY <1>5 DEF SetEnabled
  <2> QED
    BY <1>5, <2>1, <2>3, <2>4, ToldType DEF SetEnabled, requestVars
<1>6. ASSUME NEW n \in Names, NEW ok \in BOOLEAN, DeleteKey(n, ok)
      PROVE  GovTypeOK'
  <2>1. NoEntry \in Entries
    BY DEF Entries
  <2>2. keys[n].secret \in Nat /\ revoked' \in SUBSET Nat
    BY <1>6, EntryFacts DEF DeleteKey, KeyEntry
  <2>3. keys' \in [Names -> Entries] /\ keysFile' \in [Names -> Entries]
    BY <1>0, <1>6, <2>1, MutateType DEF DeleteKey
  <2>4. Told(n, NoEntry, ok)
    BY <1>6 DEF DeleteKey
  <2> QED
    BY <1>6, <2>1, <2>2, <2>3, <2>4, ToldType DEF DeleteKey, requestVars
<1>7. ASSUME NEW n \in Names, NEW ok \in BOOLEAN, NEW l \in LimitChoices,
             NEW budget \in Windows, NEW rate \in Windows, SetLimits(n, l, budget, rate, ok)
      PROVE  GovTypeOK'
  <2>1. WithLimits(keys[n], l, budget, rate) \in Entries
    BY <1>7, EntryFacts, WithLimitsType DEF SetLimits, Entries
  <2>3. keys' \in [Names -> Entries] /\ keysFile' \in [Names -> Entries]
    BY <1>0, <1>7, <2>1, MutateType DEF SetLimits
  <2>4. Told(n, WithLimits(keys[n], l, budget, rate), ok)
    BY <1>7 DEF SetLimits
  <2> QED
    BY <1>7, <2>1, <2>3, <2>4, ToldType DEF SetLimits, requestVars
<1>8. ASSUME NEW n \in Names, NEW field \in {"budget", "rate"}, NEW also \in BOOLEAN,
             Elapses(n, field, also)
      PROVE  GovTypeOK'
  <2>1. Elapse(keys[n], field) \in Entries /\ Elapse(keysFile[n], field) \in Entries
    BY ElapseType
  <2> QED
    BY <1>8, <2>1 DEF Elapses, WindowElapses, requestVars, historyVars
<1>9. ASSUME NEW ok \in BOOLEAN, Save(ok)
      PROVE  GovTypeOK'
  BY <1>9 DEF Save, SaveLocked, requestVars, historyVars
<1>10. CASE Restart
  BY <1>10 DEF Restart, LoadStore, historyVars, Stages
<1>11. CASE UNCHANGED govVars
  BY <1>11 DEF govVars, storeVars, requestVars, historyVars
<1> QED
  BY <1>1, <1>2, <1>3, <1>4, <1>5, <1>6, <1>7, <1>8, <1>9, <1>10, <1>11 DEF Next

LEMMA TypeInit == Init => GovTypeOK
BY DEF Init, GovTypeOK, Entries, Stages

(* The entries of the keys, in memory and in the file, always have a secret, limits and
   counters of their types, whatever requests, operators, writes and restarts do. *)
THEOREM TypeCorrect == Spec => []GovTypeOK
BY TypeInit, TypeStep, PTL DEF Spec

-----------------------------------------------------------------------------
(* Deleted keys stay deleted.  Secrets are never used twice, so a deletion answered with
   success takes the only entry that bears the secret out of memory and of the file. *)

(* No two names bear one secret, and no secret is revoked or still to be minted. *)
SecretsOK(entries, dead, last) ==
  \A n \in Names : /\ entries[n].secret \notin dead
                   /\ entries[n].secret <= last
                   /\ \A m \in Names : Exists(entries[n]) /\ m # n =>
                                         entries[m].secret # entries[n].secret

SecretsInv ==
  /\ SecretsOK(keys, revoked, minted) /\ SecretsOK(keysFile, revoked, minted)
  /\ \A s \in revoked : 0 < s /\ s <= minted

LEMMA SecretsStep ==
  ASSUME GovTypeOK, SecretsInv, [Next]_govVars
  PROVE  SecretsInv'
<1> USE DEF SecretsInv
<1>2. ASSUME keys' = keys \/ \A n \in Names : keys'[n].secret = keys[n].secret,
             keysFile' \in {keys, keys', keysFile}
               \/ \A n \in Names : keysFile'[n].secret = keysFile[n].secret,
             UNCHANGED <<minted, revoked>>
      PROVE  SecretsInv'
  BY <1>2 DEF SecretsOK, Exists
<1>3. ASSUME NEW r \in Requests, NEW n \in Names, Identify(r, n)
      PROVE  SecretsInv'
  BY <1>3, <1>2 DEF Identify, storeVars, historyVars
<1>4. ASSUME NEW r \in Requests, Authorize(r)
      PROVE  SecretsInv'
  <2>1. \A n \in Names : /\ keys'[n].secret = keys[n].secret
                         /\ keysFile'[n].secret = keysFile[n].secret
    BY <1>4, AdmitEntry, NotedEntry DEF Authorize, GovTypeOK
  <2> QED
    BY <1>4, <1>2, <2>1 DEF Authorize, historyVars
<1>5. ASSUME NEW r \in Requests, NEW spend \in Spends, Record(r, spend)
      PROVE  SecretsInv'
  <2>1. client[r] \in Names /\ spend.cost \in Nat /\ spend.tokens \in Nat
    BY GovernanceAssumption DEF GovTypeOK
  <2>2. \A n \in Names : keys'[n].secret = keys[n].secret
    BY <1>5, <2>1, ChargeEntry DEF Record, GovTypeOK
  <2> QED
    BY <1>5, <1>2, <2>2 DEF Record, historyVars
<1>6. ASSUME NEW n \in Names, NEW ok \in BOOLEAN, CreateKey(n, ok)
      PROVE  SecretsInv'
  <2> DEFINE made == [keys EXCEPT ![n] = NewEntry(minted + 1)]
  <2>1. NewEntry(minted + 1).secret = minted + 1
    BY NewEntryType DEF GovTypeOK
  <2>2. \A m \in Names : made[m].secret = IF m = n THEN minted + 1 ELSE keys[m].secret
    BY <2>1 DEF GovTypeOK
  <2>3. /\ minted' = minted + 1 /\ revoked' = revoked
        /\ keys' = made /\ keysFile' \in {made, keysFile}
    BY <1>6 DEF CreateKey, Mutate, SaveLocked
  <2>4. \A m \in Names : keys[m].secret \in Nat /\ keysFile[m].secret \in Nat
    BY EntryFacts DEF GovTypeOK, Entries, KeyEntry
  <2>5. \A s \in revoked : s # minted + 1
    BY DEF GovTypeOK
  <2> HIDE DEF made
  <2>6. SecretsOK(made, revoked, minted + 1)
    BY <2>2, <2>3, <2>4, <2>5 DEF SecretsOK, Exists, GovTypeOK
  <2>7. SecretsOK(keysFile, revoked, minted + 1)
    BY <2>3, <2>4 DEF SecretsOK, Exists, GovTypeOK
  <2> QED
    BY <2>3, <2>6, <2>7 DEF GovTypeOK
<1>7. ASSUME NEW n \in Names, NEW ok \in BOOLEAN, NEW enabled \in BOOLEAN,
             SetEnabled(n, enabled, ok)
      PROVE  SecretsInv'
  <2>1. [keys[n] EXCEPT !.enabled = enabled].secret = keys[n].secret
    BY <1>7, EntryFacts DEF SetEnabled, GovTypeOK, KeyEntry
  <2>2. \A m \in Names : keys'[m].secret = keys[m].secret
    BY <1>7, <2>1 DEF SetEnabled, Mutate, GovTypeOK
  <2> QED
    BY <1>7, <1>2, <2>2 DEF SetEnabled, Mutate, SaveLocked
<1>8. ASSUME NEW n \in Names, NEW ok \in BOOLEAN, DeleteKey(n, ok)
      PROVE  SecretsInv'
  <2> DEFINE gone == [keys EXCEPT ![n] = NoEntry]
             s == keys[n].secret
  <2>1. \A m \in Names : gone[m].secret = IF m = n THEN 0 ELSE keys[m].secret
    BY EntryFacts DEF GovTypeOK
  <2>2. /\ minted' = minted /\ keys' = gone
        /\ keysFile' = IF ok THEN gone ELSE keysFile
        /\ revoked' = IF ok THEN revoked \cup {s} ELSE revoked
    BY <1>8 DEF DeleteKey, Mutate, SaveLocked
  <2>3. \A m \in Names \ {n} : keys[m].secret # s
    BY <1>8 DEF DeleteKey, SecretsOK
  <2>4. s \in Nat \ {0} /\ s <= minted
    BY <1>8, EntryFacts DEF DeleteKey, SecretsOK, GovTypeOK, KeyEntry
  <2> HIDE DEF gone, s
  <2>5. SecretsOK(gone, revoked', minted)
    BY <2>1, <2>2, <2>3, <2>4 DEF SecretsOK, Exists, GovTypeOK
  <2>6. ~ok => SecretsOK(keysFile, revoked', minted)
    BY <2>2 DEF SecretsOK
  <2> QED
    BY <2>2, <2>4, <2>5, <2>6
<1>9. ASSUME NEW n \in Names, NEW ok \in BOOLEAN, NEW l \in LimitChoices,
             NEW budget \in Windows, NEW rate \in Windows, SetLimits(n, l, budget, rate, ok)
      PROVE  SecretsInv'
  <2>1. WithLimits(keys[n], l, budget, rate).secret = keys[n].secret
    BY <1>9, EntryFacts, WithLimitsType DEF SetLimits, GovTypeOK
  <2>2. \A m \in Names : keys'[m].secret = keys[m].secret
    BY <1>9, <2>1 DEF SetLimits, Mutate, GovTypeOK
  <2> QED
    BY <1>9, <1>2, <2>2 DEF SetLimits, Mutate, SaveLocked
<1>10. ASSUME NEW n \in Names, NEW field \in {"budget", "rate"}, NEW also \in BOOLEAN,
              Elapses(n, field, also)
       PROVE  SecretsInv'
  <2>1. /\ Elapse(keys[n], field).secret = keys[n].secret
        /\ Elapse(keysFile[n], field).secret = keysFile[n].secret
    BY ElapseType DEF GovTypeOK
  <2>2. \A m \in Names : /\ keys'[m].secret = keys[m].secret
                         /\ keysFile'[m].secret = keysFile[m].secret
    BY <1>10, <2>1 DEF Elapses, WindowElapses, GovTypeOK
  <2> QED
    BY <1>10, <1>2, <2>2 DEF Elapses, WindowElapses, historyVars
<1>11. ASSUME NEW ok \in BOOLEAN, Save(ok)
       PROVE  SecretsInv'
  BY <1>11, <1>2 DEF Save, SaveLocked, historyVars
<1>12. CASE Restart
  BY <1>12 DEF Restart, LoadStore, historyVars, SecretsOK
<1>13. CASE UNCHANGED govVars
  BY <1>13, <1>2 DEF govVars, storeVars, historyVars
<1> QED
  BY <1>3, <1>4, <1>5, <1>6, <1>7, <1>8, <1>9, <1>10, <1>11, <1>12, <1>13 DEF Next

LEMMA SecretsInit == Init => SecretsInv
BY EntryFacts DEF Init, SecretsInv, SecretsOK, Exists

(* Whatever fails in between, a key whose deletion was answered with success is neither in
   memory nor in the file again: its secret opens nothing after any restart. *)
THEOREM RevokedForGood == Spec => []RevokedStaysRevoked
<1>1. SecretsInv => RevokedStaysRevoked
  BY DEF SecretsInv, SecretsOK, RevokedStaysRevoked
<1> QED
  BY <1>1, TypeInit, TypeStep, SecretsInit, SecretsStep, PTL DEF Spec

-----------------------------------------------------------------------------
(* The limits hold, up to the requests in flight. *)

LEMMA Product ==
  ASSUME NEW a \in Nat, NEW b \in Nat, NEW call \in Nat, a <= b
  PROVE  /\ a * call \in Nat /\ b * call \in Nat
         /\ a * call <= b * call
         /\ (b + 1) * call = b * call + call
         /\ 0 * call = 0
OBVIOUS

Load == Cardinality(Requests)

(* Every set of requests in flight is a part of the load. *)
LEMMA InFlightCount ==
  ASSUME NEW S \in SUBSET Requests
  PROVE  /\ IsFiniteSet(S)
         /\ Load \in Nat /\ Cardinality(S) \in Nat /\ Cardinality(S) <= Load
         /\ \A r \in S : Cardinality(S) = Cardinality(S \ {r}) + 1
<1>1. IsFiniteSet(Requests)
  BY GovernanceAssumption
<1>2. IsFiniteSet(S) /\ Cardinality(S) <= Load
  BY <1>1, FS_Subset DEF Load
<1>3. Load \in Nat /\ Cardinality(S) \in Nat
  BY <1>1, <1>2, FS_CardinalityType DEF Load
<1>4. ASSUME NEW r \in S
      PROVE  Cardinality(S) = Cardinality(S \ {r}) + 1
  <2>1. Cardinality(S \ {r}) = Cardinality(S) - 1
    BY <1>2, FS_RemoveElement
  <2> QED
    BY <1>3, <2>1
<1> QED
  BY <1>2, <1>3, <1>4

(* A counter below its limit is bounded under any load, and one that has been charged for
   one request is bounded with one request less. *)
LEMMA BelowLimit ==
  ASSUME NEW counter \in Nat, NEW limit \in Nat, NEW call \in Nat, NEW count \in Nat,
         count <= Load, Load \in Nat, counter < limit
  PROVE  Bounded(counter, limit, count, call)
<1>1. count * call <= Load * call /\ count * call \in Nat /\ Load * call \in Nat
  BY Product
<1> QED
  BY <1>1 DEF Bounded, Load

LEMMA OnePaid ==
  ASSUME NEW counter \in Nat, NEW limit \in Nat, NEW call \in Nat, NEW count \in Nat,
         Bounded(counter, limit, count + 1, call), Load \in Nat, NEW paid \in 0..call
  PROVE  Bounded(counter + paid, limit, count, call)
<1>1. (count + 1) * call = count * call + call /\ count * call \in Nat /\ Load * call \in Nat
  BY Product
<1> QED
  BY <1>1 DEF Bounded, Load

LEMMA LessComing ==
  ASSUME NEW counter \in Nat, NEW limit \in Nat, NEW call \in Nat, NEW count \in Nat,
         NEW fewer \in Nat, fewer <= count, Bounded(counter, limit, count, call), Load \in Nat
  PROVE  Bounded(counter, limit, fewer, call)
<1>1. /\ fewer * call <= count * call
      /\ fewer * call \in Nat /\ count * call \in Nat /\ Load * call \in Nat
  BY Product
<1> QED
  BY <1>1 DEF Bounded, Load

(* The counter of requests is within its limit. *)
CounterBounded(e) ==
  e.limits.maxRequests > 0 /\ ~e.rateLowered => e.requests <= e.limits.maxRequests

(* A request let through in the window is in the counter, or was missed. *)
Counted(e) ==
  e.admitted <= (IF e.rate = "open" THEN e.requests ELSE 0) + e.missed

(* An entry within its limits while count requests are in flight. *)
Within(e, count) ==
  Exists(e) => /\ CostBounded(e, count) /\ TokensBounded(e, count)
               /\ CounterBounded(e) /\ Counted(e)

LEMMA EntryNumbers ==
  ASSUME NEW e \in KeyEntry
  PROVE  /\ e.cost \in Nat /\ e.tokens \in Nat /\ e.requests \in Nat
         /\ e.admitted \in Nat /\ e.missed \in Nat
         /\ e.limits.maxCost \in Nat /\ e.limits.maxTokens \in Nat
         /\ e.limits.maxRequests \in Nat
         /\ e.costLowered \in BOOLEAN /\ e.rateLowered \in BOOLEAN
         /\ Exists(e)
         /\ DearestCall \in Nat /\ LongestCall \in Nat
BY GovernanceAssumption DEF KeyEntry, Limits, Exists

LEMMA WithinFewer ==
  ASSUME NEW e \in Entries, NEW count \in Nat, NEW fewer \in Nat, fewer <= count,
         Load \in Nat, Within(e, count)
  PROVE  Within(e, fewer)
BY EntryFacts, EntryNumbers, LessComing DEF Within, CostBounded, TokensBounded

(* The fields Within looks at decide it. *)
SameCounts(e, f) ==
  /\ f.limits = e.limits
  /\ f.cost = e.cost /\ f.costLowered = e.costLowered
  /\ f.tokens = e.tokens /\ f.requests = e.requests /\ f.rateLowered = e.rateLowered
  /\ f.rate = e.rate /\ f.admitted = e.admitted /\ f.missed = e.missed

LEMMA WithinSame ==
  ASSUME NEW e \in KeyEntry, NEW f \in KeyEntry, SameCounts(e, f),
         NEW count, Within(e, count)
  PROVE  Within(f, count)
BY EntryNumbers DEF Within, SameCounts, CostBounded, TokensBounded, CounterBounded, Counted

(* Time running out forgets what was let through. *)
LEMMA WithinElapse ==
  ASSUME NEW e \in KeyEntry, NEW field \in {"budget", "rate"}, NEW count, Within(e, count)
  PROVE  Within(Elapse(e, field), count)
<1> DEFINE f == Elapse(e, field)
<1>1. /\ f.limits = e.limits
      /\ f.cost = e.cost /\ f.costLowered = e.costLowered
      /\ f.tokens = e.tokens /\ f.requests = e.requests /\ f.rateLowered = e.rateLowered
      /\ \/ f.rate = e.rate /\ f.admitted = e.admitted /\ f.missed = e.missed
         \/ f.rate # "open" /\ f.admitted = 0 /\ f.missed = 0
  BY ElapseType, EntryFacts DEF Entries
<1> HIDE DEF f
<1>2. /\ CostBounded(f, count) /\ TokensBounded(f, count)
      /\ CounterBounded(f) /\ Counted(f)
  BY <1>1, EntryNumbers DEF Within, CostBounded, TokensBounded, CounterBounded, Counted
<1> QED
  BY <1>2 DEF Within, f

LEMMA WithinMissing ==
  ASSUME NEW e \in KeyEntry, NEW count, Within(e, count)
  PROVE  Within(Missing(e), count)
<1> DEFINE f == Missing(e)
<1>1. /\ f.limits = e.limits
      /\ f.cost = e.cost /\ f.costLowered = e.costLowered
      /\ f.tokens = e.tokens /\ f.requests = e.requests /\ f.rateLowered = e.rateLowered
      /\ f.rate = e.rate /\ f.admitted = e.admitted + 1 /\ f.missed = e.missed + 1
  BY MissingFields
<1> HIDE DEF f
<1>2. /\ CostBounded(f, count) /\ TokensBounded(f, count)
      /\ CounterBounded(f) /\ Counted(f)
  BY <1>1, EntryNumbers DEF Within, CostBounded, TokensBounded, CounterBounded, Counted
<1> QED
  BY <1>2 DEF Within, f

(* What is let through in a window is bounded by the limit and what was missed. *)
LEMMA WithinRequests ==
  ASSUME NEW e \in Entries, NEW count, Within(e, count), Exists(e)
  PROVE  RequestsBounded(e)
BY EntryFacts, EntryNumbers DEF Within, CounterBounded, Counted, RequestsBounded

LEMMA WithinReset ==
  ASSUME NEW e \in KeyEntry, NEW count \in Nat, count <= Load, Load \in Nat,
         Within(e, count)
  PROVE  Within(MaybeReset(e), count)
<1> DEFINE f == MaybeReset(e)
<1>1. f \in KeyEntry /\ f.limits = e.limits
  BY MaybeResetType
<1>2. CostBounded(f, count)
  BY <1>1, MaybeResetType, EntryNumbers, BelowLimit DEF Within, CostBounded
<1>3. TokensBounded(f, count)
  BY <1>1, MaybeResetType, EntryNumbers, BelowLimit DEF Within, TokensBounded
<1>4. CounterBounded(f)
  BY <1>1, MaybeResetType, EntryNumbers DEF Within, CounterBounded
<1>5. Counted(f)
  BY <1>1, MaybeResetType, EntryNumbers DEF Within, Counted
<1> QED
  BY <1>2, <1>3, <1>4, <1>5 DEF Within

(* A request let through found every counter below its limit. *)
LEMMA WithinReserved ==
  ASSUME NEW e \in KeyEntry, NEW count \in Nat, count <= Load, Load \in Nat,
         ~DeniedBudget(e), ~DeniedRate(e), e.rate = "open", Counted(e)
  PROVE  Within(Reserved(e), count)
<1>1. CostBounded(Reserved(e), count)
  BY ReservedFields, EntryNumbers, BelowLimit DEF CostBounded, DeniedBudget
<1>2. TokensBounded(Reserved(e), count)
  BY ReservedFields, EntryNumbers, BelowLimit DEF TokensBounded, DeniedRate
<1>3. CounterBounded(Reserved(e))
  BY ReservedFields, EntryNumbers DEF CounterBounded, DeniedRate
<1>4. Counted(Reserved(e))
  BY ReservedFields, EntryNumbers DEF Counted
<1> QED
  BY <1>1, <1>2, <1>3, <1>4 DEF Within

LEMMA WithinSpent ==
  ASSUME NEW e \in KeyEntry, NEW count \in Nat, Load \in Nat, Within(e, count + 1),
         NEW cost \in 0..DearestCall, NEW tokens \in 0..LongestCall
  PROVE  Within(Spent(e, cost, tokens), count)
<1>1. cost \in Nat /\ tokens \in Nat
  BY GovernanceAssumption
<1> DEFINE f == Spent(e, cost, tokens)
<1>2. /\ f.limits = e.limits
      /\ f.cost = e.cost + cost /\ f.costLowered = e.costLowered
      /\ f.tokens = e.tokens + tokens /\ f.rateLowered = e.rateLowered
      /\ f.requests = e.requests /\ f.rate = e.rate
      /\ f.admitted = e.admitted /\ f.missed = e.missed
  BY <1>1, SpentFields
<1>3. /\ CostBounded(e, count + 1) /\ TokensBounded(e, count + 1)
      /\ CounterBounded(e) /\ Counted(e)
  BY EntryNumbers DEF Within
<1>4. Bounded(e.cost, e.limits.maxCost, count + 1, DearestCall)
        => Bounded(e.cost + cost, e.limits.maxCost, count, DearestCall)
  BY EntryNumbers, OnePaid
<1>5. Bounded(e.tokens, e.limits.maxTokens, count + 1, LongestCall)
        => Bounded(e.tokens + tokens, e.limits.maxTokens, count, LongestCall)
  BY EntryNumbers, OnePaid
<1> HIDE DEF f
<1>6. /\ CostBounded(f, count) /\ TokensBounded(f, count)
      /\ CounterBounded(f) /\ Counted(f)
  BY <1>2, <1>3, <1>4, <1>5 DEF CostBounded, TokensBounded, CounterBounded, Counted
<1> QED
  BY <1>6 DEF Within, f

LEMMA WithinNew ==
  ASSUME NEW s \in Nat \ {0}, NEW count \in Nat, count <= Load, Load \in Nat
  PROVE  Within(NewEntry(s), count)
<1> DEFINE e == NewEntry(s)
<1>1. /\ e \in KeyEntry
      /\ e.cost = 0 /\ e.tokens = 0 /\ e.requests = 0
      /\ e.admitted = 0 /\ e.missed = 0
  BY NewEntryType DEF NewEntry
<1> HIDE DEF e
<1>2. CostBounded(e, count)
  BY <1>1, EntryNumbers, BelowLimit DEF CostBounded
<1>3. TokensBounded(e, count)
  BY <1>1, EntryNumbers, BelowLimit DEF TokensBounded
<1>4. CounterBounded(e) /\ Counted(e)
  BY <1>1, EntryNumbers DEF CounterBounded, Counted
<1> QED
  BY <1>2, <1>3, <1>4 DEF Within, e

(* Raising a limit keeps the bound, and lowering one withdraws the claim. *)
LEMMA WithinNewLimits ==
  ASSUME NEW e \in KeyEntry, NEW l \in LimitChoices, NEW b \in Windows, NEW w \in Windows,
         w \in Periods(e.rate),
         NEW count \in Nat, Load \in Nat, Within(e, count)
  PROVE  Within(WithLimits(e, l, b, w), count)
<1> DEFINE f == WithLimits(e, l, b, w)
           x == e.costLowered \/ Lowered(e.limits.maxCost, l.maxCost)
           y == e.rateLowered \/ Lowered(e.limits.maxRequests, l.maxRequests)
                              \/ Lowered(e.limits.maxTokens, l.maxTokens)
           ranOut == e.rate = "open" /\ w = "over"
           a == IF ranOut THEN 0 ELSE e.admitted
           d == IF ranOut THEN 0 ELSE e.missed
<1>0. f = [e EXCEPT !.limits = l, !.budget = b, !.rate = w,
                    !.costLowered = x, !.rateLowered = y,
                    !.admitted = a, !.missed = d]
  BY Zenon DEF WithLimits
<1>7. w = "open" \/ e.rate # "open" \/ (a = 0 /\ d = 0)
  BY DEF Periods
<1> HIDE DEF f, x, y, a, d
<1>1. /\ f \in KeyEntry /\ f.limits = l
      /\ f.cost = e.cost /\ f.tokens = e.tokens /\ f.requests = e.requests
      /\ f.costLowered = x /\ f.rateLowered = y
      /\ f.rate = w /\ f.admitted = a /\ f.missed = d
  BY <1>0, WithLimitsType DEF KeyEntry, f
<1>2. l.maxCost \in Nat /\ l.maxTokens \in Nat /\ l.maxRequests \in Nat
  BY KeysAssumption DEF Limits
<1>3. /\ count * DearestCall \in Nat /\ Load * DearestCall \in Nat
      /\ count * LongestCall \in Nat /\ Load * LongestCall \in Nat
  BY Product, EntryNumbers
<1>4. CostBounded(f, count)
  BY <1>1, <1>2, <1>3, EntryNumbers DEF Within, CostBounded, Bounded, Lowered, Load, x
<1>5. TokensBounded(f, count)
  BY <1>1, <1>2, <1>3, EntryNumbers DEF Within, TokensBounded, Bounded, Lowered, Load, y
<1>6. CounterBounded(f) /\ Counted(f)
  <2>1. CounterBounded(f)
    BY <1>1, <1>2, EntryNumbers DEF Within, CounterBounded, Lowered, y
  <2>2. Counted(f)
    BY <1>1, <1>7, EntryNumbers DEF Within, Counted, a, d
  <2> QED
    BY <2>1, <2>2
<1> QED
  BY <1>4, <1>5, <1>6 DEF Within, f

Count(n) == Cardinality(InFlight(n))

BoundsInv ==
  \A n \in Names : Within(keys[n], Count(n)) /\ Within(keysFile[n], 0)

LEMMA CountType ==
  ASSUME NEW n \in Names
  PROVE  Count(n) \in Nat /\ Count(n) <= Load /\ Load \in Nat
BY InFlightCount DEF Count, InFlight

(* What is within its limits with requests in flight is so without them: a save keeps the
   bound in the file, which a restart reads when nothing is in flight. *)
LEMMA SavedWithin ==
  ASSUME NEW e \in Entries, NEW n \in Names, Within(e, Count(n))
  PROVE  Within(e, 0)
BY CountType, WithinFewer

LEMMA MutateWithin ==
  ASSUME GovTypeOK, BoundsInv, UNCHANGED requestVars, NEW n \in Names, NEW e \in Entries,
         NEW ok \in BOOLEAN, Mutate([keys EXCEPT ![n] = e], ok), Within(e, Count(n))
  PROVE  BoundsInv'
<1>1. \A m \in Names : Count(m)' = Count(m)
  BY DEF Count, InFlight, requestVars
<1>2. \A m \in Names : keys'[m] = IF m = n THEN e ELSE keys[m]
  BY DEF Mutate, GovTypeOK
<1>3. keysFile' = keys' \/ keysFile' = keysFile
  BY DEF Mutate, SaveLocked
<1>4. \A m \in Names : keys'[m] \in Entries /\ Within(keys'[m], Count(m))
  BY <1>2 DEF BoundsInv, GovTypeOK
<1>5. \A m \in Names : Within(keysFile'[m], 0)
  BY <1>3, <1>4, SavedWithin DEF BoundsInv
<1> QED
  BY <1>1, <1>4, <1>5 DEF BoundsInv, Within, Exists, CostBounded, TokensBounded,
                          CounterBounded, Counted, Bounded

LEMMA BoundsStep ==
  ASSUME GovTypeOK, BoundsInv, [Next]_govVars
  PROVE  BoundsInv'
<1>0. \A n \in Names : /\ keys[n] \in Entries /\ keysFile[n] \in Entries
                       /\ Within(keys[n], Count(n)) /\ Within(keysFile[n], 0)
  BY DEF GovTypeOK, BoundsInv
<1>1. ASSUME UNCHANGED <<keys, keysFile>>, \A n \in Names : Count(n)' = Count(n)
      PROVE  BoundsInv'
  BY <1>0, <1>1 DEF BoundsInv, Within, Exists, CostBounded, TokensBounded,
                    CounterBounded, Counted, Bounded
<1>2. ASSUME NEW r \in Requests, NEW n \in Names, Identify(r, n)
      PROVE  BoundsInv'
  <2>1. \A m \in Names : InFlight(m)' = InFlight(m)
    BY <1>2 DEF Identify, InFlight, GovTypeOK
  <2> QED
    BY <1>1, <1>2, <2>1 DEF Identify, storeVars, Count
<1>3. ASSUME NEW r \in Requests, Authorize(r)
      PROVE  BoundsInv'
  <2>1. PICK n \in Names : n = client[r]
    BY DEF GovTypeOK
  <2> DEFINE e == MaybeReset(keys[n])
  <2>2. \A m \in Names \ {n} : InFlight(m)' = InFlight(m) /\ keys'[m] = keys[m]
    BY <1>3, <2>1, AdmitEntry DEF Authorize, InFlight, GovTypeOK
  <2>3. \A m \in Names : Within(keysFile'[m], 0)
    BY <1>0, <1>3, <2>1, NotedEntry, WithinMissing DEF Authorize, GovTypeOK
  <2>4. InFlight(n)' \in SUBSET Requests
    BY DEF InFlight
  <2>5. Count(n)' \in Nat /\ Count(n)' <= Load /\ Load \in Nat
    BY <2>4, InFlightCount DEF Count
  <2>6. Within(keys'[n], Count(n)')
    <3>1. CASE ~Governed(n)
      <4>1. keys'[n] = keys[n]
        BY <1>3, <2>1, <3>1 DEF Authorize, Admit
      <4>2. Exists(keys[n]) => /\ keys[n] \in KeyEntry /\ keys[n].limits.maxCost = 0
                               /\ keys[n].limits.maxTokens = 0
                               /\ keys[n].limits.maxRequests = 0
        BY <1>0, <2>1, <3>1, EntryFacts DEF Governed, Empty
      <4> QED
        BY <1>0, <2>1, <4>1, <4>2 DEF Within, CostBounded, TokensBounded, CounterBounded, Counted
    <3>2. CASE Governed(n) /\ Allowed(n)
      <4>1. keys[n] \in KeyEntry
        BY <1>0, <2>1, <3>2, EntryFacts DEF Governed
      <4>2. keys'[n] = Reserved(e) /\ ~DeniedBudget(e) /\ ~DeniedRate(e)
        BY <1>3, <2>1, <3>2 DEF Authorize, Admit, Allowed, GovTypeOK
      <4>3. e \in KeyEntry
        BY <4>1, MaybeResetType
      <4>4. e.rate = "open" /\ Counted(e)
        <5>1. e.rate = "open" /\ Exists(e)
          BY <4>1, <4>3, MaybeResetType, EntryFacts DEF Entries
        <5>2. Within(e, Count(n))
          BY <1>0, <2>1, <4>1, CountType, WithinReset
        <5> QED
          BY <5>1, <5>2 DEF Within
      <4> HIDE DEF e
      <4> QED
        BY <2>5, <4>2, <4>3, <4>4, WithinReserved
    <3>3. CASE Governed(n) /\ ~Allowed(n)
      <4>1. keys[n] \in KeyEntry
        BY <1>0, <2>1, <3>3, EntryFacts DEF Governed
      <4>2. keys'[n] = e
        BY <1>3, <2>1, <3>3 DEF Authorize, Admit, GovTypeOK
      <4>3. InFlight(n)' = InFlight(n)
        BY <1>3, <2>1, <3>3 DEF Authorize, InFlight, GovTypeOK
      <4> HIDE DEF e
      <4>4. Within(e, Count(n))
        BY <1>0, <2>1, <4>1, CountType, WithinReset DEF e
      <4> QED
        BY <4>2, <4>3, <4>4 DEF Count
    <3> QED
      BY <3>1, <3>2, <3>3
  <2> HIDE DEF e
  <2>7. ASSUME NEW m \in Names \ {n}
        PROVE  Within(keys'[m], Count(m)')
    BY <1>0, <2>2 DEF Count
  <2>8. \A m \in Names : Within(keys'[m], Count(m)') /\ Within(keysFile'[m], 0)
    BY <1>0, <2>3, <2>6, <2>7
  <2> QED
    BY <2>8 DEF BoundsInv, Within, Exists, CostBounded, TokensBounded,
                CounterBounded, Counted, Bounded
<1>4. ASSUME NEW r \in Requests, NEW spend \in Spends, Record(r, spend)
      PROVE  BoundsInv'
  <2>0. /\ spend.cost \in 0..DearestCall /\ spend.tokens \in 0..LongestCall
        /\ spend.cost \in Nat /\ spend.tokens \in Nat
    BY GovernanceAssumption
  <2>1. PICK n \in Names : n = client[r]
    BY DEF GovTypeOK
  <2> DEFINE e == MaybeReset(keys[n])
  <2>2. \A m \in Names \ {n} : InFlight(m)' = InFlight(m) /\ keys'[m] = keys[m]
    <3>1. \A m \in Names \ {n} : InFlight(m)' = InFlight(m)
      BY <1>4, <2>1 DEF Record, InFlight, GovTypeOK
    <3>2. keys' = Charge(n, spend.cost, spend.tokens)
      BY <1>4, <2>1 DEF Record
    <3> QED
      BY <2>0, <3>1, <3>2, ChargeEntry DEF GovTypeOK
  <2>3. keysFile' = keysFile
    BY <1>4 DEF Record
  <2>4. InFlight(n)' = InFlight(n) \ {r} /\ r \in InFlight(n)
    BY <1>4, <2>1 DEF Record, InFlight, GovTypeOK
  <2>5. /\ Count(n) = Count(n)' + 1 /\ Count(n)' \in Nat
        /\ Count(n) \in Nat /\ Count(n) <= Load /\ Load \in Nat
    <3>1. InFlight(n) \in SUBSET Requests /\ InFlight(n)' \in SUBSET Requests
      BY DEF InFlight
    <3> QED
      BY <2>4, <3>1, InFlightCount DEF Count
  <2>6. Within(keys'[n], Count(n)')
    <3>1. CASE ~Governed(n) \/ (spend.cost = 0 /\ spend.tokens = 0)
      <4>1. keys'[n] = keys[n]
        BY <1>4, <2>1, <3>1 DEF Record, Charge
      <4> QED
        BY <1>0, <2>1, <2>5, <4>1, WithinFewer
    <3>2. CASE Governed(n) /\ ~(spend.cost = 0 /\ spend.tokens = 0)
      <4>1. keys[n] \in KeyEntry
        BY <1>0, <2>1, <3>2, EntryFacts DEF Governed
      <4>2. keys'[n] = Spent(e, spend.cost, spend.tokens)
        BY <1>4, <2>1, <3>2 DEF Record, Charge, GovTypeOK
      <4>3. e \in KeyEntry
        BY <4>1, MaybeResetType
      <4>4. Within(e, Count(n)' + 1)
        BY <1>0, <2>1, <2>5, <4>1, WithinReset
      <4> HIDE DEF e
      <4> QED
        BY <2>0, <2>5, <4>2, <4>3, <4>4, WithinSpent
    <3> QED
      BY <3>1, <3>2
  <2> HIDE DEF e
  <2>7. ASSUME NEW m \in Names \ {n}
        PROVE  Within(keys'[m], Count(m)')
    BY <1>0, <2>2 DEF Count
  <2>8. \A m \in Names : Within(keys'[m], Count(m)') /\ Within(keysFile'[m], 0)
    BY <1>0, <2>3, <2>6, <2>7
  <2> QED
    BY <2>8 DEF BoundsInv, Within, Exists, CostBounded, TokensBounded,
                CounterBounded, Counted, Bounded
<1>5. ASSUME NEW n \in Names, NEW ok \in BOOLEAN, CreateKey(n, ok)
      PROVE  BoundsInv'
  <2>1. minted + 1 \in Nat \ {0}
    BY DEF GovTypeOK
  <2>2. NewEntry(minted + 1) \in Entries /\ Within(NewEntry(minted + 1), Count(n))
    BY <2>1, NewEntryType, WithinNew, CountType DEF Entries
  <2> QED
    BY <1>5, <2>2, MutateWithin DEF CreateKey
<1>6. ASSUME NEW n \in Names, NEW ok \in BOOLEAN, NEW enabled \in BOOLEAN,
             SetEnabled(n, enabled, ok)
      PROVE  BoundsInv'
  <2> DEFINE e == [keys[n] EXCEPT !.enabled = enabled]
  <2>1. keys[n] \in KeyEntry
    BY <1>0, <1>6, EntryFacts DEF SetEnabled
  <2>2. e \in KeyEntry /\ SameCounts(keys[n], e)
    BY <2>1 DEF KeyEntry, SameCounts
  <2>3. Mutate([keys EXCEPT ![n] = e], ok) /\ UNCHANGED requestVars
    BY <1>6 DEF SetEnabled
  <2> HIDE DEF e
  <2>4. Within(e, Count(n))
    BY <1>0, <2>1, <2>2, WithinSame
  <2> QED
    BY <2>2, <2>3, <2>4, MutateWithin DEF Entries
<1>7. ASSUME NEW n \in Names, NEW ok \in BOOLEAN, DeleteKey(n, ok)
      PROVE  BoundsInv'
  <2>1. NoEntry \in Entries /\ Within(NoEntry, Count(n))
    BY EntryFacts DEF Entries, Within, Exists
  <2> QED
    BY <1>7, <2>1, MutateWithin DEF DeleteKey
<1>8. ASSUME NEW n \in Names, NEW ok \in BOOLEAN, NEW l \in LimitChoices,
             NEW budget \in Windows, NEW rate \in Windows, SetLimits(n, l, budget, rate, ok)
      PROVE  BoundsInv'
  <2> DEFINE e == WithLimits(keys[n], l, budget, rate)
  <2>1. keys[n] \in KeyEntry
    BY <1>0, <1>8, EntryFacts DEF SetLimits
  <2>2. e \in Entries /\ Within(e, Count(n))
    <3>1. rate \in Periods(keys[n].rate)
      BY <1>8 DEF SetLimits
    <3> QED
      BY <1>0, <2>1, <3>1, WithLimitsType, WithinNewLimits, CountType DEF Entries
  <2>3. Mutate([keys EXCEPT ![n] = e], ok) /\ UNCHANGED requestVars
    BY <1>8 DEF SetLimits
  <2> HIDE DEF e
  <2> QED
    BY <2>2, <2>3, MutateWithin
<1>9. ASSUME NEW n \in Names, NEW field \in {"budget", "rate"}, NEW also \in BOOLEAN,
             Elapses(n, field, also)
      PROVE  BoundsInv'
  <2>1. ASSUME NEW e \in Entries, NEW count, Within(e, count)
        PROVE  Within(Elapse(e, field), count)
    <3>1. CASE ~Exists(e)
      BY <2>1, <3>1, ElapseType DEF Within, Exists
    <3>2. CASE Exists(e)
      <4>1. e \in KeyEntry
        BY <3>2, EntryFacts
      <4> QED
        BY <2>1, <4>1, WithinElapse
    <3> QED
      BY <3>1, <3>2
  <2>2. \A m \in Names : Count(m)' = Count(m)
    BY <1>9 DEF Elapses, requestVars, Count, InFlight
  <2>3. \A m \in Names : /\ keys'[m] \in {keys[m], Elapse(keys[m], field)}
                         /\ keysFile'[m] \in {keysFile[m], Elapse(keysFile[m], field)}
    BY <1>9 DEF Elapses, WindowElapses, GovTypeOK
  <2>4. \A m \in Names : Within(keys'[m], Count(m)) /\ Within(keysFile'[m], 0)
    BY <1>0, <2>1, <2>3
  <2> QED
    BY <2>2, <2>4 DEF BoundsInv, Within, Exists, CostBounded, TokensBounded,
                      CounterBounded, Counted, Bounded
<1>10. ASSUME NEW ok \in BOOLEAN, Save(ok)
       PROVE  BoundsInv'
  <2>1. \A m \in Names : Count(m)' = Count(m)
    BY <1>10 DEF Save, requestVars, Count, InFlight
  <2>2. keys' = keys /\ keysFile' \in {keys, keysFile}
    BY <1>10 DEF Save, SaveLocked
  <2>3. \A m \in Names : Within(keys[m], 0)
    BY <1>0, SavedWithin
  <2> QED
    BY <1>0, <2>1, <2>2, <2>3 DEF BoundsInv, Within, Exists, CostBounded, TokensBounded,
                                  CounterBounded, Counted, Bounded
<1>11. CASE Restart
  <2>1. \A m \in Names : Count(m)' = 0
    <3>1. \A m \in Names : InFlight(m)' = {}
      BY <1>11 DEF Restart, InFlight
    <3> QED
      BY <3>1, FS_EmptySet DEF Count
  <2>2. keys' = keysFile /\ keysFile' = keysFile
    BY <1>11 DEF Restart, LoadStore
  <2> QED
    BY <1>0, <2>1, <2>2 DEF BoundsInv, Within, Exists, CostBounded, TokensBounded,
                            CounterBounded, Counted, Bounded
<1>12. CASE UNCHANGED govVars
  BY <1>1, <1>12 DEF govVars, storeVars, requestVars, Count, InFlight
<1> QED
  BY <1>2, <1>3, <1>4, <1>5, <1>6, <1>7, <1>8, <1>9, <1>10, <1>11, <1>12 DEF Next

LEMMA BoundsInit == Init => BoundsInv
BY EntryFacts DEF Init, BoundsInv, Within, Exists

(* A budget or token limit in force since its window opened is overshot by at most what
   the requests in flight together cost, for any number of keys and requests. *)
THEOREM BudgetHolds == Spec => []OvershootBounded
<1>1. BoundsInv => OvershootBounded
  BY DEF BoundsInv, OvershootBounded, Within, Count
<1> QED
  BY <1>1, TypeInit, TypeStep, BoundsInit, BoundsStep, PTL DEF Spec

(* Of the requests let through in one window of a key, over any number of restarts, those
   above its limit were let through after the last save before a restart; without such a
   loss the limit is exact.  Whatever limits, keys and requests there are. *)
THEOREM RateHolds == Spec => []RequestsWithinLimit
<1>1. GovTypeOK /\ BoundsInv => RequestsWithinLimit
  BY WithinRequests DEF GovTypeOK, BoundsInv, RequestsWithinLimit
<1> QED
  BY <1>1, TypeInit, TypeStep, BoundsInit, BoundsStep, PTL DEF Spec

-----------------------------------------------------------------------------
(* What the operator was told is what memory and the file hold. *)

LEMMA ChosenByCalls ==
  ASSUME GovTypeOK, NEW n \in Names, NEW cost \in Nat, NEW tokens \in Nat
  PROVE  \A m \in Names : /\ Chosen(Admit(n)[m]) = Chosen(keys[m])
                          /\ Chosen(Charge(n, cost, tokens)[m]) = Chosen(keys[m])
<1>1. ASSUME NEW e \in KeyEntry, NEW f \in KeyEntry,
             f.secret = e.secret, f.enabled = e.enabled, f.limits = e.limits
      PROVE  Chosen(f) = Chosen(e)
  BY <1>1 DEF Chosen, Exists
<1>2. ASSUME NEW e \in KeyEntry
      PROVE  /\ MaybeReset(e) \in KeyEntry /\ Chosen(MaybeReset(e)) = Chosen(e)
             /\ Chosen(Reserved(e)) = Chosen(e)
             /\ Chosen(Spent(e, cost, tokens)) = Chosen(e)
  <2>1. MaybeReset(e).enabled = e.enabled
    <3>1. ResetBudget(e) \in KeyEntry /\ ResetBudget(e).enabled = e.enabled
      BY DEF ResetBudget, KeyEntry, Windows
    <3> QED
      BY <3>1 DEF MaybeReset, ResetRate, KeyEntry
  <2>2. Reserved(e).enabled = e.enabled /\ Spent(e, cost, tokens).enabled = e.enabled
    BY DEF Reserved, Spent, KeyEntry
  <2> QED
    BY <1>1, <2>1, <2>2, MaybeResetType, ReservedFields, SpentFields
<1>3. Governed(n) => keys[n] \in KeyEntry
  BY EntryFacts DEF Governed, GovTypeOK
<1>4. \A m \in Names : Chosen(Admit(n)[m]) = Chosen(keys[m])
  BY <1>2, <1>3 DEF Admit, GovTypeOK
<1>5. \A m \in Names : Chosen(Charge(n, cost, tokens)[m]) = Chosen(keys[m])
  BY <1>2, <1>3 DEF Charge, GovTypeOK
<1> QED
  BY <1>4, <1>5

LEMMA ChosenNoted ==
  ASSUME GovTypeOK, NEW n \in Names
  PROVE  \A m \in Names : Chosen(NoteUnsaved(n)[m]) = Chosen(keysFile[m])
<1>1. ASSUME NEW e \in KeyEntry
      PROVE  Chosen(Missing(e)) = Chosen(e)
  BY MissingFields DEF Chosen, Exists
<1> QED
  BY <1>1, NotedEntry DEF GovTypeOK

(* A change either reaches memory and file before it is answered with success, or makes
   its name unsure; the other names keep what they had in memory, which is what they had
   in the file. *)
LEMMA ChangeKeepsWord ==
  ASSUME GovTypeOK, AnsweredIsSaved, NEW n \in Names, NEW e \in Entries, NEW ok \in BOOLEAN,
         Mutate([keys EXCEPT ![n] = e], ok), Told(n, e, ok)
  PROVE  AnsweredIsSaved'
<1>1. \A m \in Names : keys'[m] = IF m = n THEN e ELSE keys[m]
  BY DEF Mutate, GovTypeOK
<1>2. \A m \in Names : keysFile'[m] = IF ok THEN keys'[m] ELSE keysFile[m]
  BY DEF Mutate, SaveLocked
<1>3. /\ \A m \in Names \ {n} : promised'[m] = promised[m] /\ (m \in unsure' <=> m \in unsure)
      /\ ok => promised'[n] = Chosen(e)
      /\ ~ok => n \in unsure'
  BY DEF Told, GovTypeOK
<1>4. ASSUME NEW m \in Names, m \notin unsure'
      PROVE  Chosen(keys'[m]) = promised'[m] /\ Chosen(keysFile'[m]) = promised'[m]
  <2>1. CASE m = n
    BY <1>1, <1>2, <1>3, <1>4, <2>1
  <2>2. CASE m # n
    BY <1>1, <1>2, <1>3, <1>4, <2>2 DEF AnsweredIsSaved
  <2> QED
    BY <2>1, <2>2
<1> QED
  BY <1>4 DEF AnsweredIsSaved, Chosen, Exists

LEMMA AnsweredStep ==
  ASSUME GovTypeOK, AnsweredIsSaved, [Next]_govVars
  PROVE  AnsweredIsSaved'
<1>1. ASSUME \A m \in Names : /\ Chosen(keys'[m]) \in {Chosen(keys[m]), Chosen(keysFile[m])}
                              /\ Chosen(keysFile'[m])
                                   \in {Chosen(keys[m]), Chosen(keysFile[m])},
             UNCHANGED <<promised, unsure>>
      PROVE  AnsweredIsSaved'
  <2>1. \A m \in Names \ unsure : /\ Chosen(keys'[m]) = promised[m]
                                  /\ Chosen(keysFile'[m]) = promised[m]
    BY <1>1 DEF AnsweredIsSaved
  <2> QED
    BY <1>1, <2>1 DEF AnsweredIsSaved, Chosen, Exists
<1>2. ASSUME NEW r \in Requests, NEW n \in Names, Identify(r, n)
      PROVE  AnsweredIsSaved'
  BY <1>1, <1>2 DEF Identify, storeVars, historyVars
<1>3. ASSUME NEW r \in Requests, Authorize(r)
      PROVE  AnsweredIsSaved'
  <2>1. client[r] \in Names
    BY DEF GovTypeOK
  <2>2. \A m \in Names : /\ Chosen(keys'[m]) = Chosen(keys[m])
                         /\ Chosen(keysFile'[m]) = Chosen(keysFile[m])
    BY <1>3, <2>1, ChosenByCalls, ChosenNoted DEF Authorize
  <2> QED
    BY <1>1, <1>3, <2>2 DEF Authorize, historyVars
<1>4. ASSUME NEW r \in Requests, NEW spend \in Spends, Record(r, spend)
      PROVE  AnsweredIsSaved'
  <2>1. client[r] \in Names /\ spend.cost \in Nat /\ spend.tokens \in Nat
    BY GovernanceAssumption DEF GovTypeOK
  <2>2. keys' = Charge(client[r], spend.cost, spend.tokens)
    BY <1>4 DEF Record
  <2>3. \A m \in Names : Chosen(keys'[m]) = Chosen(keys[m])
    BY <2>1, <2>2, ChosenByCalls
  <2> QED
    BY <1>1, <1>4, <2>3 DEF Record, historyVars
<1>5. ASSUME NEW n \in Names, NEW ok \in BOOLEAN, CreateKey(n, ok)
      PROVE  AnsweredIsSaved'
  <2>1. NewEntry(minted + 1) \in Entries
    BY NewEntryType DEF Entries, GovTypeOK
  <2> QED
    BY <1>5, <2>1, ChangeKeepsWord DEF CreateKey
<1>6. ASSUME NEW n \in Names, NEW ok \in BOOLEAN, NEW enabled \in BOOLEAN,
             SetEnabled(n, enabled, ok)
      PROVE  AnsweredIsSaved'
  <2> DEFINE e == [keys[n] EXCEPT !.enabled = enabled]
  <2>1. e \in Entries
    BY <1>6, EntryFacts DEF SetEnabled, Entries, KeyEntry, GovTypeOK
  <2>2. Mutate([keys EXCEPT ![n] = e], ok) /\ Told(n, e, ok)
    BY <1>6 DEF SetEnabled
  <2> HIDE DEF e
  <2> QED
    BY <2>1, <2>2, ChangeKeepsWord
<1>7. ASSUME NEW n \in Names, NEW ok \in BOOLEAN, DeleteKey(n, ok)
      PROVE  AnsweredIsSaved'
  <2>1. NoEntry \in Entries
    BY DEF Entries
  <2> QED
    BY <1>7, <2>1, ChangeKeepsWord DEF DeleteKey
<1>8. ASSUME NEW n \in Names, NEW ok \in BOOLEAN, NEW l \in LimitChoices,
             NEW budget \in Windows, NEW rate \in Windows, SetLimits(n, l, budget, rate, ok)
      PROVE  AnsweredIsSaved'
  <2> DEFINE e == WithLimits(keys[n], l, budget, rate)
  <2>1. e \in Entries
    BY <1>8, EntryFacts, WithLimitsType DEF SetLimits, Entries, GovTypeOK
  <2>2. Mutate([keys EXCEPT ![n] = e], ok) /\ Told(n, e, ok)
    BY <1>8 DEF SetLimits
  <2> HIDE DEF e
  <2> QED
    BY <2>1, <2>2, ChangeKeepsWord
<1>9. ASSUME NEW n \in Names, NEW field \in {"budget", "rate"}, NEW also \in BOOLEAN,
             Elapses(n, field, also)
      PROVE  AnsweredIsSaved'
  <2>1. ASSUME NEW e \in Entries
        PROVE  Chosen(Elapse(e, field)) = Chosen(e)
    BY ElapseType, EntryFacts DEF Chosen, Exists, Entries
  <2>2. \A m \in Names : /\ keys'[m] \in {keys[m], Elapse(keys[m], field)}
                         /\ keysFile'[m] \in {keysFile[m], Elapse(keysFile[m], field)}
    BY <1>9 DEF Elapses, WindowElapses, GovTypeOK
  <2>3. \A m \in Names : /\ Chosen(keys'[m]) = Chosen(keys[m])
                         /\ Chosen(keysFile'[m]) = Chosen(keysFile[m])
    BY <2>1, <2>2 DEF GovTypeOK
  <2> QED
    BY <1>1, <1>9, <2>3 DEF Elapses, historyVars
<1>10. ASSUME NEW ok \in BOOLEAN, Save(ok)
       PROVE  AnsweredIsSaved'
  BY <1>1, <1>10 DEF Save, SaveLocked, historyVars
<1>11. CASE Restart
  BY <1>1, <1>11 DEF Restart, LoadStore, historyVars
<1>12. CASE UNCHANGED govVars
  BY <1>1, <1>12 DEF govVars, storeVars, historyVars
<1> QED
  BY <1>2, <1>3, <1>4, <1>5, <1>6, <1>7, <1>8, <1>9, <1>10, <1>11, <1>12 DEF Next

LEMMA AnsweredInit == Init => AnsweredIsSaved
BY EntryFacts DEF Init, AnsweredIsSaved, Chosen, Exists

(* Every change of a key that was answered with success is what the gateway does and what
   it will do after a restart, until the next change. *)
THEOREM AnswersAreKept == Spec => []AnsweredIsSaved
BY TypeInit, TypeStep, AnsweredInit, AnsweredStep, PTL DEF Spec
=============================================================================
