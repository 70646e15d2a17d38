--------------------------- MODULE CredentialStore ---------------------------
(***************************************************************************)
(* credential.Store (internal/credential/credential.go): the credentials   *)
(* of one provider and the operations its mutex makes atomic.  Entries are *)
(* numbered 1..N in slice order, so idx here is the code's idx + 1.  Time  *)
(* counts from 0, the zero time.Time of a credential that never cooled.    *)
(*                                                                         *)
(* Every operator below that mentions a primed variable is one critical    *)
(* section of Store.mu and says what happens to every variable of storeVars*)
(* except now; the modules that compose it (CredentialPool, Dispatch) say  *)
(* who calls it, and when.                                                 *)
(***************************************************************************)
EXTENDS Integers

CONSTANTS
    N,            \* number of credentials in the store
    OAuth,        \* the entries whose kind is KindOAuth; the others hold API keys
    NameOf,       \* the name of each entry; nothing makes names unique
    Base,         \* the base cooldown the callers penalize with
    MaxCooldown,  \* maxCooldown
    MaxTime       \* bound on the clock, for TLC only

Creds == 1..N

ASSUME StoreAssumption ==
    /\ N \in Nat \ {0}
    /\ OAuth \subseteq Creds
    /\ Base \in Nat
    /\ MaxCooldown \in Nat

VARIABLES
    idx,            \* next entry the rotation examines
    cooldownUntil,  \* per entry: not handed out before this time
    failStreak,     \* per entry: consecutive counted failures
    disabled,       \* per entry: switched off by the operator
    fillFirst,      \* WithFillFirst: fixed order instead of round-robin; never changes
    now             \* the injected clock

rotationVars == <<idx, cooldownUntil, failStreak, disabled, fillFirst>>
storeVars == <<rotationVars, now>>

StoreInit ==
    /\ idx = 1
    /\ cooldownUntil = [c \in Creds |-> 0]
    /\ failStreak = [c \in Creds |-> 0]
    /\ disabled \in [Creds -> BOOLEAN]   \* whatever the durable set holds
    /\ fillFirst \in BOOLEAN
    /\ now = 0

StoreTypeOK ==
    /\ idx \in Creds
    /\ cooldownUntil \in [Creds -> Int]
    /\ failStreak \in [Creds -> Nat]
    /\ disabled \in [Creds -> BOOLEAN]
    /\ fillFirst \in BOOLEAN
    /\ now \in Nat

-----------------------------------------------------------------------------
\* MatchHeader: no header accepts any entry, otherwise a kind or an exact name.
Filters ==
    {Creds, OAuth, Creds \ OAuth} \cup {{c \in Creds : NameOf[c] = NameOf[d]} : d \in Creds}

\* Mutant: the wrap comes one entry late.
LateWrap(i) == IF i > N + 1 THEN i - N ELSE i

Wrap(i) == IF i > N THEN i - N ELSE i

\* The k-th entry NextOf examines.
Examined(k) == IF fillFirst THEN k ELSE Wrap(idx + k - 1)

Available(c) == ~disabled[c] /\ now >= cooldownUntil[c]
Fits(c, match) == Available(c) /\ c \in match

\* Mutant: a pick does not give the turn away.
NextOfKeepingTurn(match, c) ==
    \E k \in Creds :
        /\ c = Examined(k)
        /\ Fits(c, match)
        /\ \A j \in 1..(k - 1) : ~Fits(Examined(j), match)
        /\ idx' = IF fillFirst THEN idx ELSE c
        /\ UNCHANGED <<cooldownUntil, failStreak, disabled, fillFirst>>

\* NextOf: hands out the first entry in examination order that fits, leaving the
\* rotation just past it.  Entries examined and skipped lose their turn.
NextOf(match, c) ==
    \E k \in Creds :
        /\ c = Examined(k)
        /\ Fits(c, match)
        /\ \A j \in 1..(k - 1) : ~Fits(Examined(j), match)
        /\ idx' = IF fillFirst THEN idx ELSE Wrap(idx + k)
        /\ UNCHANGED <<cooldownUntil, failStreak, disabled, fillFirst>>

\* NextOf returning ErrNoneAvailable: the scan went all the way round.
NextOfNone(match) ==
    /\ \A c \in Creds : ~Fits(c, match)
    /\ UNCHANGED rotationVars

\* The doubling loop of PenalizeDetail: d after k rounds.
Doubled[k \in Nat] ==
    IF k = 0 THEN Base
    ELSE LET d == Doubled[k - 1] IN IF d < MaxCooldown THEN 2 * d ELSE d

\* Mutant: the cap is tested by the loop only.
UncappedBackoff(streak) == Doubled[streak - 1]

\* The cooldown of a streak: the loop, and its cap (d is never negative).
Backoff(streak) ==
    LET d == Doubled[streak - 1] IN IF d \in 0..MaxCooldown THEN d ELSE MaxCooldown

Cooling(c) == now < cooldownUntil[c]

\* Mutant: a duplicate restarts the cooldown with the base.
RestartCooldown(c) ==
    IF Cooling(c)
    THEN /\ cooldownUntil' = [cooldownUntil EXCEPT ![c] = now + Base]
         /\ UNCHANGED <<idx, failStreak, disabled, fillFirst>>
    ELSE /\ failStreak' = [failStreak EXCEPT ![c] = @ + 1]
         /\ cooldownUntil' = [cooldownUntil EXCEPT ![c] = now + Backoff(failStreak[c] + 1)]
         /\ UNCHANGED <<idx, disabled, fillFirst>>

\* Mutant: every failure counts, duplicates included.
CountEveryFailure(c) ==
    /\ failStreak' = [failStreak EXCEPT ![c] = @ + 1]
    /\ cooldownUntil' = [cooldownUntil EXCEPT ![c] = now + Backoff(failStreak[c] + 1)]
    /\ UNCHANGED <<idx, disabled, fillFirst>>

\* PenalizeDetail: a failure that arrives during the cooldown is a duplicate.
CountFailure(c) ==
    /\ ~Cooling(c)
    /\ failStreak' = [failStreak EXCEPT ![c] = @ + 1]
    /\ cooldownUntil' = [cooldownUntil EXCEPT ![c] = now + Backoff(failStreak[c] + 1)]
    /\ UNCHANGED <<idx, disabled, fillFirst>>

PenalizeDetail(c) ==
    \/ CountFailure(c)
    \/ Cooling(c) /\ UNCHANGED rotationVars

MarkSuccess(c) ==
    /\ failStreak' = [failStreak EXCEPT ![c] = 0]
    /\ cooldownUntil' = [cooldownUntil EXCEPT ![c] = 0]
    /\ UNCHANGED <<idx, disabled, fillFirst>>

\* SetEnabled once the choice is persisted: only the first entry of that name.
SetEnabled(name, enabled) ==
    \E c \in Creds :
        /\ NameOf[c] = name
        /\ \A d \in 1..(c - 1) : NameOf[d] # name
        /\ disabled' = [disabled EXCEPT ![c] = ~enabled]
        /\ UNCHANGED <<idx, cooldownUntil, failStreak, fillFirst>>

Tick ==
    /\ now < MaxTime
    /\ now' = now + 1
    /\ UNCHANGED rotationVars
=============================================================================
