---------------------------- MODULE CredentialPool ----------------------------
(***************************************************************************)
(* The credential store under concurrent callers.  A caller (a request in  *)
(* Server.dispatch or provider.RotateFilteredOpts) takes a credential,     *)
(* uses it outside the lock for as long as it likes and reports the        *)
(* outcome, by which time other callers, the operator and the clock have   *)
(* moved on: the store must stay sensible when outcomes arrive late.       *)
(***************************************************************************)
EXTENDS CredentialStore

CONSTANT Callers

NoCred == 0

VARIABLES
    held,        \* per caller: the credential it is using, NoCred if none
    passedOver   \* history: hand-outs to others since the entry's last turn, up to N

poolVars == <<storeVars, held, passedOver>>

PoolTypeOK ==
    /\ StoreTypeOK
    /\ held \in [Callers -> Creds \cup {NoCred}]
    /\ passedOver \in [Creds -> 0..N]

Init ==
    /\ StoreInit
    /\ held = [p \in Callers |-> NoCred]
    /\ passedOver = [c \in Creds |-> 0]

-----------------------------------------------------------------------------
\* A caller takes a credential.  An entry that could not have served this caller
\* starts waiting afresh: it was not wronged by this hand-out.
Take(p, match) ==
    /\ held[p] = NoCred
    /\ \E c \in Creds :
        /\ NextOf(match, c)
        /\ held' = [held EXCEPT ![p] = c]
        /\ passedOver' = [d \in Creds |->
              IF d = c \/ ~Fits(d, match) THEN 0
              ELSE IF passedOver[d] = N THEN N ELSE passedOver[d] + 1]
    /\ UNCHANGED now

\* ErrNoneAvailable: the caller answers 503 and holds nothing.
TakeNone(p, match) ==
    /\ held[p] = NoCred
    /\ NextOfNone(match)
    /\ UNCHANGED <<held, passedOver, now>>

ReportFailure(p) ==
    /\ held[p] # NoCred
    /\ PenalizeDetail(held[p])
    /\ held' = [held EXCEPT ![p] = NoCred]
    /\ UNCHANGED <<passedOver, now>>

ReportSuccess(p) ==
    /\ held[p] # NoCred
    /\ MarkSuccess(held[p])
    /\ held' = [held EXCEPT ![p] = NoCred]
    /\ UNCHANGED <<passedOver, now>>

\* A cancelled request reports nothing.
Abandon(p) ==
    /\ held[p] # NoCred
    /\ held' = [held EXCEPT ![p] = NoCred]
    /\ UNCHANGED <<storeVars, passedOver>>

Switch(c, enabled) ==
    /\ SetEnabled(NameOf[c], enabled)
    /\ UNCHANGED <<held, passedOver, now>>

ClockTick == Tick /\ UNCHANGED <<held, passedOver>>

CallerStep(p) ==
    \/ \E match \in Filters : Take(p, match) \/ TakeNone(p, match)
    \/ ReportFailure(p)
    \/ ReportSuccess(p)
    \/ Abandon(p)

Next ==
    \/ \E p \in Callers : CallerStep(p)
    \/ \E c \in Creds, enabled \in BOOLEAN : Switch(c, enabled)
    \/ ClockTick

Spec == Init /\ [][Next]_poolVars

-----------------------------------------------------------------------------
\* However failures interleave, no credential is ever parked for longer than
\* maxCooldown from now (credential.go, PenalizeDetail's cap).
ParkingBounded == \A c \in Creds : cooldownUntil[c] <= now + MaxCooldown

\* A streak of n was earned one cooldown at a time: the n-th failure was counted
\* no earlier than n-1 base cooldowns after time zero, so a burst of parallel
\* failures counts once (the comment on PenalizeDetail).
ShortestCooldown == IF Base > MaxCooldown THEN MaxCooldown ELSE Base
StreakEarned ==
    \A c \in Creds : failStreak[c] > 0 =>
        cooldownUntil[c] - Backoff(failStreak[c]) >= (failStreak[c] - 1) * ShortestCooldown

\* Rotation is fair.  Round-robin: between two turns of a credential that could
\* serve every hand-out in between, the others get at most one turn each, with
\* failures, cooldowns, pinned requests and switches going on.  Fill-first: the
\* first entry is never passed over while it could serve.
RotationFair ==
    IF fillFirst THEN passedOver[1] = 0 ELSE \A c \in Creds : passedOver[c] <= N - 1

\* A parked credential comes back early only through a success, which also
\* forgives its streak; nothing else shortens a cooldown or lowers a streak.
OnlySuccessForgives ==
    [][\A c \in Creds :
          (failStreak'[c] < failStreak[c] \/ cooldownUntil'[c] < cooldownUntil[c])
          => /\ failStreak'[c] = 0 /\ cooldownUntil'[c] = 0
             /\ \E p \in Callers : held[p] = c /\ held'[p] = NoCred]_poolVars
=============================================================================
