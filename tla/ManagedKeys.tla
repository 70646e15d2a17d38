----------------------------- MODULE ManagedKeys -----------------------------
(***************************************************************************)
(* The store of managed client keys (internal/access): the entries, the    *)
(* file they are saved to, and what each method does to one entry.  Every  *)
(* method runs under Store.mu, the write of the file included.             *)
(*                                                                         *)
(* Costs are counted in whole units.  Time is kept as the state of each    *)
(* rolling window: "none" before its first use (a zero start), "open", and *)
(* "over" once its span has elapsed.                                       *)
(***************************************************************************)
EXTENDS Integers

CONSTANTS
    Names,          \* names an operator gives to keys
    LimitChoices,   \* limits an operator sets
    Default,        \* access.default_key_limits, which a new key gets
    MaxMinted,      \* bound: secrets generated
    MaxCount        \* bound: a counter no limit stops does not exceed it

Limits == [maxCost : Nat, maxRequests : Nat, maxTokens : Nat]

ASSUME KeysAssumption ==
  /\ LimitChoices \subseteq Limits
  /\ Default \in LimitChoices
  /\ MaxMinted \in Nat
  /\ MaxCount \in Nat

VARIABLES
    keys,           \* Store.entries, by name
    keysFile,       \* the keys file
    minted          \* secrets generated so far; the next one is minted + 1

storeVars == <<keys, keysFile, minted>>

Windows == {"none", "open", "over"}

(* An entry with its limits and counters.  The other fields are history.  costLowered and
   rateLowered: a limit of that window was lowered or introduced since its counters were
   last zeroed, so the counters may be past it already.  admitted: the requests let
   through under limits since the rate window last ran out, in this process or an earlier
   one.  missed: those of them that were let through after this copy of the entry was
   written to the file, so that a process that starts from the copy knows nothing of
   them. *)
KeyEntry == [secret : Nat \ {0}, enabled : BOOLEAN, limits : Limits,
             budget : Windows, cost : Nat, costLowered : BOOLEAN,
             rate : Windows, requests : Nat, tokens : Nat, rateLowered : BOOLEAN,
             admitted : Nat, missed : Nat]

(* No entry of that name. *)
NoEntry == [secret |-> 0]

Exists(e) == e.secret # 0

Entries == KeyEntry \cup {NoEntry}

(* Mutant: an error of generateKey is ignored and the secret stays empty. *)
NewEntryEmptySecret(secret) ==
  [secret |-> 0, enabled |-> TRUE, limits |-> Default,
   budget |-> "none", cost |-> 0, costLowered |-> FALSE,
   rate |-> "none", requests |-> 0, tokens |-> 0, rateLowered |-> FALSE,
   admitted |-> 0, missed |-> 0]

NewEntry(secret) ==
  [secret |-> secret, enabled |-> TRUE, limits |-> Default,
   budget |-> "none", cost |-> 0, costLowered |-> FALSE,
   rate |-> "none", requests |-> 0, tokens |-> 0, rateLowered |-> FALSE,
   admitted |-> 0, missed |-> 0]

(* What an operator chose about a key; the counters are not part of it. *)
Chosen(e) ==
  IF Exists(e) THEN [secret |-> e.secret, enabled |-> e.enabled, limits |-> e.limits]
               ELSE NoEntry

(* Limits.empty: the key is unlimited. *)
Empty(l) == l.maxCost = 0 /\ l.maxRequests = 0 /\ l.maxTokens = 0

ResetBudget(e) ==
  IF e.budget = "open" THEN e
  ELSE [e EXCEPT !.budget = "open", !.cost = 0, !.costLowered = FALSE]

ResetRate(e) ==
  IF e.rate = "open" THEN e
  ELSE [e EXCEPT !.rate = "open", !.requests = 0, !.tokens = 0, !.rateLowered = FALSE]

(* counters.maybeReset. *)
MaybeReset(e) == ResetRate(ResetBudget(e))

(* Mutant: the budget may be reached before a request is denied. *)
DeniedPastBudget(e) == e.limits.maxCost > 0 /\ e.cost > e.limits.maxCost

DeniedBudget(e) == e.limits.maxCost > 0 /\ e.cost >= e.limits.maxCost

DeniedRate(e) ==
  \/ e.limits.maxRequests > 0 /\ e.requests >= e.limits.maxRequests
  \/ e.limits.maxTokens > 0 /\ e.tokens >= e.limits.maxTokens

(* Whether the name is governed at all: Admit and Charge look the entry up by name. *)
Governed(n) == Exists(keys[n]) /\ ~Empty(keys[n].limits)

(* Admit decides to let the request pass. *)
Allowed(n) ==
  Governed(n) => LET e == MaybeReset(keys[n]) IN ~DeniedBudget(e) /\ ~DeniedRate(e)

(* One request is reserved; an answer is paid for. *)
Reserved(e) == [e EXCEPT !.requests = @ + 1, !.admitted = @ + 1]

Spent(e, cost, tokens) == [e EXCEPT !.cost = @ + cost, !.tokens = @ + tokens]

(* What Admit leaves: an elapsed window is reset even for a request it denies. *)
Admit(n) ==
  IF ~Governed(n) THEN keys
  ELSE LET e == MaybeReset(keys[n])
       IN [keys EXCEPT ![n] =
             IF Allowed(n) THEN Reserved(e) ELSE e]

(* History: Admit writes nothing, so the file's copy of the key misses a request that is
   let through. *)
Missing(e) == [e EXCEPT !.admitted = @ + 1, !.missed = @ + 1]

NoteUnsaved(n) ==
  IF Governed(n) /\ Allowed(n) /\ keysFile[n].secret = keys[n].secret
  THEN [keysFile EXCEPT ![n] = Missing(@)]
  ELSE keysFile

Charge(n, cost, tokens) ==
  IF ~Governed(n) \/ (cost = 0 /\ tokens = 0) THEN keys
  ELSE [keys EXCEPT ![n] = Spent(MaybeReset(@), cost, tokens)]

(* The limit went down to new: it is set now, and was higher or not set before. *)
Lowered(old, new) == new > 0 /\ (old = 0 \/ new < old)

(* SetLimits on an entry.  The counters stay; a window in use may be open or over under
   the new period, whichever it was under the old one. *)
WithLimits(e, l, budget, rate) ==
  LET ranOut == e.rate = "open" /\ rate = "over"
  IN [e EXCEPT !.limits = l, !.budget = budget, !.rate = rate,
        !.costLowered = @ \/ Lowered(e.limits.maxCost, l.maxCost),
        !.rateLowered = @ \/ Lowered(e.limits.maxRequests, l.maxRequests)
                          \/ Lowered(e.limits.maxTokens, l.maxTokens),
        !.admitted = IF ranOut THEN 0 ELSE @,
        !.missed = IF ranOut THEN 0 ELSE @]

Periods(window) == IF window = "none" THEN {"none"} ELSE {"open", "over"}

(* saveLocked: a temporary file and a rename.  A failure of either leaves the old file. *)
SaveLocked(entries, ok) == keysFile' = IF ok THEN entries ELSE keysFile

(* A method that changes the entries and then saves them: memory changes either way. *)
Mutate(entries, ok) ==
  /\ keys' = entries
  /\ SaveLocked(entries, ok)

(* Mutant: the counters are left out of the file, or of what is read from it. *)
LoadWithoutCounters ==
  keys' = [n \in Names |->
             IF ~Exists(keysFile[n]) THEN NoEntry
             ELSE [keysFile[n] EXCEPT !.budget = "none", !.cost = 0,
                                      !.rate = "none", !.requests = 0, !.tokens = 0]]

(* LoadStore reads the file back. *)
LoadStore == keys' = keysFile

(* A window's span elapses.  The file's copy began no later, so it is over as well,
   unless it was saved with other limits, whose period may be longer. *)
Elapse(e, field) ==
  IF ~Exists(e) THEN e
  ELSE LET f == IF e[field] = "open" THEN [e EXCEPT ![field] = "over"] ELSE e
       IN IF field = "rate" THEN [f EXCEPT !.admitted = 0, !.missed = 0] ELSE f

(* A span is running: that of the window, or of one which a restart forgot. *)
Running(e, field) == e[field] = "open" \/ (field = "rate" /\ e.admitted > 0)

WindowElapses(n, field, alsoInFile) ==
  /\ Exists(keys[n]) /\ Running(keys[n], field)
  /\ \/ alsoInFile
     \/ Exists(keysFile[n]) /\ keysFile[n].limits # keys[n].limits
  /\ keys' = [keys EXCEPT ![n] = Elapse(@, field)]
  /\ keysFile' = [keysFile EXCEPT ![n] = IF alsoInFile THEN Elapse(@, field) ELSE @]
  /\ UNCHANGED minted
=============================================================================
