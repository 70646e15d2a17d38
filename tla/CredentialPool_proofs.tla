------------------------ MODULE CredentialPool_proofs ------------------------
(***************************************************************************)
(* Proofs about CredentialPool, for every number of credentials and        *)
(* callers, every base cooldown and cap, with or without fill-first.       *)
(***************************************************************************)
EXTENDS CredentialPool, FiniteSetTheorems, TLAPS

(* Every cooldown is a time, and PenalizeDetail's cap holds for every streak. *)
LEMMA BackoffCapped ==
  ASSUME NEW streak \in Nat \ {0}
  PROVE  Backoff(streak) \in Nat /\ Backoff(streak) <= MaxCooldown
BY StoreAssumption DEF Backoff

(* An examined entry is an entry. *)
LEMMA ExaminedIsEntry ==
  ASSUME StoreTypeOK, NEW k \in Creds
  PROVE  Examined(k) \in Creds /\ Wrap(idx + k) \in Creds
BY StoreAssumption DEF StoreTypeOK, Examined, Wrap, Creds

LEMMA CredsAreNumbers == Creds \subseteq Nat /\ 1 \in Creds /\ NoCred \notin Creds
BY StoreAssumption DEF Creds, NoCred

(* Every step keeps every variable in its type: the clock, the rotation index, the
   parking and the switches of the store, and what the callers hold. *)
LEMMA TypeStep ==
  ASSUME PoolTypeOK, [Next]_poolVars
  PROVE  PoolTypeOK'
<1> USE DEF PoolTypeOK, StoreTypeOK
<1>1. ASSUME NEW p \in Callers, NEW match \in Filters, Take(p, match)
      PROVE  PoolTypeOK'
  <2>1. PICK c \in Creds : NextOf(match, c) /\ held' = [held EXCEPT ![p] = c]
    BY <1>1 DEF Take
  <2>2. idx' \in Creds
    BY <2>1, ExaminedIsEntry DEF NextOf
  <2>3. passedOver' \in [Creds -> 0..N]
    BY <1>1, StoreAssumption DEF Take
  <2> QED
    BY <1>1, <2>1, <2>2, <2>3 DEF NextOf, Take
<1>2. ASSUME NEW p \in Callers, NEW match \in Filters, TakeNone(p, match)
      PROVE  PoolTypeOK'
  BY <1>2 DEF TakeNone, NextOfNone, rotationVars
<1>3. ASSUME NEW p \in Callers, ReportFailure(p)
      PROVE  PoolTypeOK'
  <2>1. CASE Cooling(held[p])
    BY <1>3, <2>1 DEF ReportFailure, PenalizeDetail, CountFailure, rotationVars
  <2>2. CASE ~Cooling(held[p])
    <3>1. held[p] \in Creds
      BY <1>3 DEF ReportFailure
    <3>2. failStreak[held[p]] + 1 \in Nat \ {0}
      BY <3>1
    <3>3. Backoff(failStreak[held[p]] + 1) \in Int
      BY <3>2, BackoffCapped
    <3> QED
      BY <1>3, <2>2, <3>1, <3>3 DEF ReportFailure, PenalizeDetail, CountFailure
  <2> QED
    BY <2>1, <2>2
<1>4. ASSUME NEW p \in Callers, ReportSuccess(p)
      PROVE  PoolTypeOK'
  BY <1>4 DEF ReportSuccess, MarkSuccess
<1>5. ASSUME NEW p \in Callers, Abandon(p)
      PROVE  PoolTypeOK'
  BY <1>5 DEF Abandon, storeVars, rotationVars
<1>6. ASSUME NEW c \in Creds, NEW enabled \in BOOLEAN, Switch(c, enabled)
      PROVE  PoolTypeOK'
  BY <1>6 DEF Switch, SetEnabled
<1>7. CASE ClockTick
  BY <1>7 DEF ClockTick, Tick, rotationVars
<1>8. CASE UNCHANGED poolVars
  BY <1>8 DEF poolVars, storeVars, rotationVars
<1> QED
  BY <1>1, <1>2, <1>3, <1>4, <1>5, <1>6, <1>7, <1>8 DEF Next, CallerStep

(* Types hold throughout, whatever the callers and the operator do. *)
THEOREM TypeCorrect == Spec => []PoolTypeOK
<1>1. Init => PoolTypeOK
  BY StoreAssumption DEF Init, StoreInit, PoolTypeOK, StoreTypeOK, Creds
<1>2. PoolTypeOK /\ [Next]_poolVars => PoolTypeOK'
  BY TypeStep
<1> QED
  BY <1>1, <1>2, PTL DEF Spec

(* No credential is ever parked for longer than maxCooldown from now, however many
   callers report failures and however often. *)
THEOREM ParkingIsBounded == Spec => []ParkingBounded
<1>1. Init => ParkingBounded
  BY StoreAssumption DEF Init, StoreInit, ParkingBounded
<1>2. PoolTypeOK /\ ParkingBounded /\ [Next]_poolVars => ParkingBounded'
  <2> SUFFICES ASSUME PoolTypeOK, ParkingBounded, [Next]_poolVars
               PROVE  ParkingBounded'
    OBVIOUS
  <2> USE DEF PoolTypeOK, StoreTypeOK, ParkingBounded
  <2>1. ASSUME NEW p \in Callers, NEW match \in Filters, Take(p, match)
        PROVE  ParkingBounded'
    BY <2>1 DEF Take, NextOf
  <2>2. ASSUME NEW p \in Callers, NEW match \in Filters, TakeNone(p, match)
        PROVE  ParkingBounded'
    BY <2>2 DEF TakeNone, NextOfNone, rotationVars
  <2>3. ASSUME NEW p \in Callers, ReportFailure(p)
        PROVE  ParkingBounded'
    <3>1. CASE Cooling(held[p])
      BY <2>3, <3>1 DEF ReportFailure, PenalizeDetail, CountFailure, rotationVars
    <3>2. CASE ~Cooling(held[p])
      <4>1. held[p] \in Creds
        BY <2>3 DEF ReportFailure
      <4>2. failStreak[held[p]] + 1 \in Nat \ {0}
        BY <4>1
      <4> DEFINE d == Backoff(failStreak[held[p]] + 1)
      <4>3. d \in Int /\ d <= MaxCooldown
        BY <4>2, BackoffCapped
      <4>4. now' = now /\ cooldownUntil' = [cooldownUntil EXCEPT ![held[p]] = now + d]
        BY <2>3, <3>2 DEF ReportFailure, PenalizeDetail, CountFailure
      <4> HIDE DEF d
      <4> QED
        BY <4>1, <4>3, <4>4, StoreAssumption
    <3> QED
      BY <3>1, <3>2
  <2>4. ASSUME NEW p \in Callers, ReportSuccess(p)
        PROVE  ParkingBounded'
    BY <2>4, StoreAssumption DEF ReportSuccess, MarkSuccess
  <2>5. ASSUME NEW p \in Callers, Abandon(p)
        PROVE  ParkingBounded'
    BY <2>5 DEF Abandon, storeVars, rotationVars
  <2>6. ASSUME NEW c \in Creds, NEW enabled \in BOOLEAN, Switch(c, enabled)
        PROVE  ParkingBounded'
    BY <2>6 DEF Switch, SetEnabled
  <2>7. CASE ClockTick
    BY <2>7, StoreAssumption DEF ClockTick, Tick, rotationVars
  <2>8. CASE UNCHANGED poolVars
    BY <2>8 DEF poolVars, storeVars, rotationVars
  <2> QED
    BY <2>1, <2>2, <2>3, <2>4, <2>5, <2>6, <2>7, <2>8 DEF Next, CallerStep
<1> QED
  BY <1>1, <1>2, TypeCorrect, PTL DEF Spec

-----------------------------------------------------------------------------
(***************************************************************************)
(* Rotation.  RotationFair is not inductive: it does not say how far the   *)
(* rotation is from an entry.  An entry passed over m times must be within *)
(* N - 1 - m entries of its turn.                                          *)
(***************************************************************************)
Dist(i, c) == IF c >= i THEN c - i ELSE c - i + N

RotationInv ==
    IF fillFirst
    THEN passedOver[1] = 0
    ELSE \A c \in Creds : passedOver[c] + Dist(idx, c) <= N - 1

(* An entry is examined when the scan has covered its distance. *)
LEMMA ExaminedAtDistance ==
  ASSUME StoreTypeOK, ~fillFirst, NEW d \in Creds
  PROVE  /\ Dist(idx, d) \in 0..(N - 1)
         /\ Dist(idx, d) + 1 \in Creds
         /\ Examined(Dist(idx, d) + 1) = d
BY StoreAssumption DEF StoreTypeOK, Dist, Examined, Wrap, Creds

(* Moving the rotation on by k brings it k closer to an entry it has not reached. *)
LEMMA CloserByK ==
  ASSUME StoreTypeOK, NEW d \in Creds, NEW k \in Creds, k <= Dist(idx, d)
  PROVE  Dist(Wrap(idx + k), d) = Dist(idx, d) - k
BY StoreAssumption DEF StoreTypeOK, Dist, Wrap, Creds

(* A hand-out keeps the invariant: whoever it passes over has moved closer. *)
LEMMA TakeKeepsRotation ==
  ASSUME PoolTypeOK, RotationInv, NEW p \in Callers, NEW match \in Filters, Take(p, match)
  PROVE  RotationInv'
<1> USE DEF PoolTypeOK
<1>1. PICK c \in Creds, k \in Creds :
        /\ c = Examined(k)
        /\ \A j \in 1..(k - 1) : ~Fits(Examined(j), match)
        /\ idx' = IF fillFirst THEN idx ELSE Wrap(idx + k)
        /\ passedOver' = [d \in Creds |->
              IF d = c \/ ~Fits(d, match) THEN 0
              ELSE IF passedOver[d] = N THEN N ELSE passedOver[d] + 1]
        /\ fillFirst' = fillFirst
  BY DEF Take, NextOf
<1>2. CASE fillFirst
  <2>1. 1 \in Creds
    BY CredsAreNumbers
  <2>2. 1 = c \/ ~Fits(1, match)
    <3>1. CASE k = 1
      BY <1>1, <1>2, <3>1 DEF Examined
    <3>2. CASE k # 1
      <4>1. 1 \in 1..(k - 1)
        BY <3>2 DEF Creds
      <4> QED
        BY <1>1, <1>2, <4>1 DEF Examined
    <3> QED
      BY <3>1, <3>2
  <2>3. passedOver'[1] = 0
    BY <1>1, <2>1, <2>2
  <2> QED
    BY <1>1, <1>2, <2>3 DEF RotationInv
<1>3. CASE ~fillFirst
  <2> SUFFICES ASSUME NEW d \in Creds
               PROVE  passedOver'[d] + Dist(idx', d) <= N - 1
    BY <1>1, <1>3 DEF RotationInv, Dist
  <2>1. idx' = Wrap(idx + k) /\ idx' \in Creds
    BY <1>1, <1>3, ExaminedIsEntry
  <2>2. CASE d = c \/ ~Fits(d, match)
    <3>1. passedOver'[d] = 0
      BY <1>1, <2>2
    <3>2. Dist(idx', d) <= N - 1
      BY <2>1, StoreAssumption DEF Dist, Creds
    <3>3. Dist(idx', d) \in Int
      BY <2>1, StoreAssumption DEF Dist, Creds
    <3> QED
      BY <3>1, <3>2, <3>3
  <2>3. CASE d # c /\ Fits(d, match)
    <3> DEFINE m == Dist(idx, d)
    <3>1. m \in 0..(N - 1) /\ Examined(m + 1) = d /\ m + 1 \in Creds
      BY <1>3, ExaminedAtDistance
    <3>2. m + 1 \notin 1..(k - 1)
      BY <1>1, <2>3, <3>1
    <3>3. m + 1 # k
      BY <1>1, <2>3, <3>1
    <3> HIDE DEF m
    <3>4. k <= m
      BY <3>1, <3>2, <3>3, StoreAssumption DEF Creds
    <3>5. Dist(idx', d) = m - k
      BY <2>1, <3>4, CloserByK DEF m
    <3>6. passedOver[d] + m <= N - 1 /\ passedOver[d] \in 0..N
      BY <1>3 DEF RotationInv, m
    <3>7. passedOver[d] # N /\ passedOver'[d] = passedOver[d] + 1
      BY <1>1, <2>3, <3>1, <3>6, StoreAssumption
    <3>8. k \in Nat \ {0}
      BY DEF Creds
    <3> QED
      BY <3>1, <3>4, <3>5, <3>6, <3>7, <3>8, StoreAssumption
  <2> QED
    BY <2>2, <2>3
<1> QED
  BY <1>2, <1>3

(* Rotation is fair for every number of credentials and callers: round-robin, the
   others get at most one turn each between two turns of an entry that could serve;
   fill-first, the first entry is never passed over while it could serve. *)
THEOREM RotationIsFair == Spec => []RotationFair
<1>1. Init => RotationInv
  BY StoreAssumption DEF Init, StoreInit, RotationInv, Dist, Creds
<1>2. PoolTypeOK /\ RotationInv /\ [Next]_poolVars => RotationInv'
  <2> SUFFICES ASSUME PoolTypeOK, RotationInv, [Next]_poolVars
               PROVE  RotationInv'
    OBVIOUS
  <2>1. CASE \E p \in Callers, match \in Filters : Take(p, match)
    BY <2>1, TakeKeepsRotation
  <2>2. CASE UNCHANGED <<idx, fillFirst, passedOver>>
    BY <2>2 DEF RotationInv, Dist
  <2>3. ASSUME NEW p \in Callers, CallerStep(p)
        PROVE  RotationInv'
    <3>1. ASSUME NEW match \in Filters, TakeNone(p, match)
          PROVE  UNCHANGED <<idx, fillFirst, passedOver>>
      BY <3>1 DEF TakeNone, NextOfNone, rotationVars
    <3>2. CASE ReportFailure(p) \/ ReportSuccess(p) \/ Abandon(p)
      <4>1. UNCHANGED <<idx, fillFirst, passedOver>>
        BY <3>2 DEF ReportFailure, PenalizeDetail, CountFailure, ReportSuccess, MarkSuccess,
                    Abandon, storeVars, rotationVars
      <4> QED
        BY <4>1, <2>2
    <3> QED
      BY <2>1, <2>2, <2>3, <3>1, <3>2 DEF CallerStep
  <2>4. ASSUME NEW c \in Creds, NEW enabled \in BOOLEAN, Switch(c, enabled)
        PROVE  RotationInv'
    <3>1. UNCHANGED <<idx, fillFirst, passedOver>>
      BY <2>4 DEF Switch, SetEnabled
    <3> QED
      BY <3>1, <2>2
  <2>5. CASE ClockTick \/ UNCHANGED poolVars
    <3>1. UNCHANGED <<idx, fillFirst, passedOver>>
      BY <2>5 DEF ClockTick, Tick, poolVars, storeVars, rotationVars
    <3> QED
      BY <3>1, <2>2
  <2> QED
    BY <2>3, <2>4, <2>5 DEF Next
<1>3. PoolTypeOK /\ RotationInv => RotationFair
  <2> SUFFICES ASSUME PoolTypeOK, RotationInv
               PROVE  RotationFair
    OBVIOUS
  <2>1. CASE fillFirst
    BY <2>1 DEF RotationInv, RotationFair
  <2>2. CASE ~fillFirst
    <3> SUFFICES ASSUME NEW c \in Creds
                 PROVE  passedOver[c] <= N - 1
      BY <2>2 DEF RotationFair
    <3>1. Dist(idx, c) \in 0..(N - 1)
      BY <2>2, ExaminedAtDistance DEF PoolTypeOK
    <3>2. passedOver[c] + Dist(idx, c) <= N - 1 /\ passedOver[c] \in 0..N
      BY <2>2 DEF RotationInv, PoolTypeOK
    <3> QED
      BY <3>1, <3>2, StoreAssumption
  <2> QED
    BY <2>1, <2>2
<1> QED
  BY <1>1, <1>2, <1>3, TypeCorrect, PTL DEF Spec

-----------------------------------------------------------------------------
(***************************************************************************)
(* Induction over the naturals, in the form the provers can use: a set of  *)
(* naturals that is not empty has a least element.  A set of naturals that *)
(* holds every counterexample then has none.                               *)
(***************************************************************************)
(* The initial segments 0..n are finite sets, and strict inclusion of finite sets is
   well founded: the smallest segment ends in the least element. *)
LEMMA LeastNatural ==
  ASSUME NEW T \in SUBSET Nat, T # {}
  PROVE  \E m \in T : \A k \in T : m <= k
<1> DEFINE Below(n) == 0..n
           Segments == {Below(n) : n \in T}
<1>1. Segments \subseteq FiniteSubsetsOf(Nat)
  <2> SUFFICES ASSUME NEW n \in T
               PROVE  0..n \in FiniteSubsetsOf(Nat)
    OBVIOUS
  <2>1. IsFiniteSet(0..n)
    BY FS_Interval
  <2> QED
    BY <2>1 DEF FiniteSubsetsOf
<1>2. PICK x \in Segments : \A y \in Segments : <<y, x>> \notin StrictSubsetOrdering(Nat)
  <2>1. Segments # {}
    OBVIOUS
  <2> HIDE DEF Segments
  <2> QED
    BY <1>1, <2>1, FS_StrictSubsetOrderingWellFounded, WFMin
<1>3. PICK m \in T : x = 0..m
  BY <1>2
<1>4. \A k \in T : m <= k
  <2> SUFFICES ASSUME NEW k \in T, ~(m <= k)
               PROVE  FALSE
    OBVIOUS
  <2>1. 0..k \subseteq 0..m /\ 0..k # 0..m
    <3>1. m \in 0..m /\ m \notin 0..k
      OBVIOUS
    <3> QED
      BY <3>1
  <2>2. <<0..k, 0..m>> \in StrictSubsetOrdering(Nat)
    <3>1. 0..k \in SUBSET Nat /\ 0..m \in SUBSET Nat
      OBVIOUS
    <3> DEFINE a == 0..k
               b == 0..m
    <3> HIDE DEF a, b
    <3>2. a \in SUBSET Nat /\ b \in SUBSET Nat /\ a \subseteq b /\ a # b
      BY <2>1, <3>1 DEF a, b
    <3>3. <<a, b>> \in StrictSubsetOrdering(Nat)
      BY <3>2 DEF StrictSubsetOrdering
    <3> QED
      BY <3>3 DEF a, b
  <2>3. 0..k \in Segments
    OBVIOUS
  <2> QED
    BY <1>2, <1>3, <2>2, <2>3
<1> QED
  BY <1>4

(***************************************************************************)
(* The loop of PenalizeDetail, as the recursive function Doubled.  That a  *)
(* function with this recursion exists is itself a theorem: its first n    *)
(* rounds exist for every n, and agree wherever two of them are defined.   *)
(***************************************************************************)
(* One more round. *)
Redouble(d) == IF d < MaxCooldown THEN 2 * d ELSE d

(* A round yields a natural, and never less than it was given. *)
LEMMA RedoubleTyped == \A d \in Nat : Redouble(d) \in Nat /\ Redouble(d) >= d
BY StoreAssumption DEF Redouble

(* The loop run for n rounds: every value it went through. *)
Rounds(n) ==
  {h \in [0..n -> Nat] : h[0] = Base /\ \A k \in 1..n : h[k] = Redouble(h[k - 1])}

(* Two runs of the loop agree wherever both are defined. *)
LEMMA RoundsAgree ==
  ASSUME NEW n \in Nat, NEW m \in Nat, NEW g \in Rounds(n), NEW h \in Rounds(m),
         NEW k \in Nat, k <= n, k <= m
  PROVE  g[k] = h[k]
<1> DEFINE Bad == {i \in Nat : i <= n /\ i <= m /\ g[i] # h[i]}
<1>1. SUFFICES ASSUME Bad # {} PROVE FALSE
  OBVIOUS
<1>2. PICK i \in Bad : \A j \in Bad : i <= j
  <2>1. Bad \in SUBSET Nat
    OBVIOUS
  <2> HIDE DEF Bad
  <2> QED
    BY <1>1, <2>1, LeastNatural
<1>3. i # 0
  BY DEF Rounds
<1>4. i - 1 \in Nat /\ i - 1 <= n /\ i - 1 <= m /\ i - 1 \notin Bad
  BY <1>2, <1>3
<1>5. g[i - 1] = h[i - 1]
  BY <1>4
<1>6. i \in 1..n /\ i \in 1..m
  BY <1>3
<1>7. g[i] = Redouble(g[i - 1]) /\ h[i] = Redouble(h[i - 1])
  BY <1>6 DEF Rounds
<1> QED
  BY <1>5, <1>7

(* The loop can be run for any number of rounds. *)
LEMMA RoundsExist ==
  ASSUME NEW n \in Nat
  PROVE  Rounds(n) # {}
<1> DEFINE Bad == {i \in Nat : Rounds(i) = {}}
<1>1. SUFFICES ASSUME Bad # {} PROVE FALSE
  OBVIOUS
<1>2. PICK i \in Bad : \A j \in Bad : i <= j
  <2>1. Bad \in SUBSET Nat
    OBVIOUS
  <2> HIDE DEF Bad
  <2> QED
    BY <1>1, <2>1, LeastNatural
<1>3. i # 0
  <2>1. [k \in 0..0 |-> Base] \in Rounds(0)
    BY StoreAssumption DEF Rounds
  <2> QED
    BY <2>1
<1>4. i - 1 \in Nat /\ i - 1 \notin Bad
  BY <1>2, <1>3
<1>5. PICK h \in Rounds(i - 1) : TRUE
  BY <1>4
<1> DEFINE g == [k \in 0..i |-> IF k = i THEN Redouble(h[i - 1]) ELSE h[k]]
<1>6. h \in [0..(i - 1) -> Nat] /\ h[0] = Base /\ \A k \in 1..(i - 1) : h[k] = Redouble(h[k - 1])
  BY <1>5 DEF Rounds
<1>7. Redouble(h[i - 1]) \in Nat
  BY <1>4, <1>6, RedoubleTyped
<1>8. g \in [0..i -> Nat]
  <2> SUFFICES ASSUME NEW k \in 0..i
               PROVE  (IF k = i THEN Redouble(h[i - 1]) ELSE h[k]) \in Nat
    OBVIOUS
  <2>1. CASE k = i
    BY <1>7, <2>1
  <2>2. CASE k # i
    BY <1>4, <1>6, <2>2
  <2> QED
    BY <2>1, <2>2
<1>9. g[0] = Base
  BY <1>3, <1>6
<1>10. \A k \in 1..i : g[k] = Redouble(g[k - 1])
  <2> SUFFICES ASSUME NEW k \in 1..i
               PROVE  g[k] = Redouble(g[k - 1])
    OBVIOUS
  <2>1. g[k - 1] = h[k - 1]
    OBVIOUS
  <2>2. CASE k = i
    BY <2>1, <2>2
  <2>3. CASE k # i
    <3>1. k \in 1..(i - 1) /\ g[k] = h[k]
      BY <2>3
    <3> HIDE DEF g
    <3> QED
      BY <1>6, <2>1, <3>1
  <2> QED
    BY <2>2, <2>3
<1> HIDE DEF g
<1>11. g \in Rounds(i)
  BY <1>8, <1>9, <1>10 DEF Rounds
<1> QED
  BY <1>11

(* Doubled is the function its definition describes. *)
LEMMA DoubledDef ==
  Doubled = [k \in Nat |-> IF k = 0 THEN Base ELSE Redouble(Doubled[k - 1])]
<1> DEFINE run(n) == CHOOSE h \in Rounds(n) : TRUE
           f == [n \in Nat |-> run(n)[n]]
<1>1. \A n \in Nat : run(n) \in Rounds(n)
  BY RoundsExist
<1>2. ASSUME NEW n \in Nat
      PROVE  f[n] = IF n = 0 THEN Base ELSE Redouble(f[n - 1])
  <2>1. f[n] = run(n)[n] /\ run(n) \in Rounds(n)
    BY <1>1
  <2>2. CASE n = 0
    BY <2>1, <2>2 DEF Rounds
  <2>3. CASE n # 0
    <3>1. n - 1 \in Nat /\ n - 1 <= n /\ n \in 1..n
      BY <2>3
    <3>2. f[n - 1] = run(n - 1)[n - 1] /\ run(n - 1) \in Rounds(n - 1)
      BY <1>1, <3>1
    <3> HIDE DEF run
    <3>3. run(n - 1)[n - 1] = run(n)[n - 1]
      BY <2>1, <3>1, <3>2, RoundsAgree
    <3>4. run(n)[n] = Redouble(run(n)[n - 1])
      BY <2>1, <3>1 DEF Rounds
    <3> HIDE DEF f
    <3> QED
      BY <2>1, <2>3, <3>2, <3>3, <3>4
  <2> QED
    BY <2>2, <2>3
<1> HIDE DEF run
<1>3. f = [n \in Nat |-> f[n]]
  OBVIOUS
<1> HIDE DEF f
<1>4. f = [k \in Nat |-> IF k = 0 THEN Base ELSE Redouble(f[k - 1])]
  BY <1>2, <1>3
<1>5. f = [k \in Nat |-> IF k = 0 THEN Base
             ELSE LET d == f[k - 1] IN IF d < MaxCooldown THEN 2 * d ELSE d]
  BY <1>4 DEF Redouble
<1>6. Doubled = [k \in Nat |-> IF k = 0 THEN Base
             ELSE LET d == Doubled[k - 1] IN IF d < MaxCooldown THEN 2 * d ELSE d]
  BY <1>5 DEF Doubled
<1> QED
  BY <1>6 DEF Redouble

(* The loop never falls below the base cooldown it starts from. *)
LEMMA DoubledGrows ==
  ASSUME NEW k \in Nat
  PROVE  Doubled[k] \in Nat /\ Base <= Doubled[k]
<1> DEFINE Bad == {i \in Nat : ~(Doubled[i] \in Nat /\ Base <= Doubled[i])}
<1>1. SUFFICES ASSUME Bad # {} PROVE FALSE
  OBVIOUS
<1>2. PICK i \in Bad : \A j \in Bad : i <= j
  <2>1. Bad \in SUBSET Nat
    OBVIOUS
  <2> HIDE DEF Bad
  <2> QED
    BY <1>1, <2>1, LeastNatural
<1>3. Doubled[i] = IF i = 0 THEN Base ELSE Redouble(Doubled[i - 1])
  BY <1>2, DoubledDef
<1>4. i # 0
  BY <1>3, StoreAssumption
<1>5. i - 1 \in Nat /\ i - 1 \notin Bad
  BY <1>2, <1>4
<1>6. Doubled[i - 1] \in Nat /\ Base <= Doubled[i - 1]
  BY <1>5
<1> QED
  BY <1>3, <1>4, <1>6, RedoubleTyped, StoreAssumption

(* No cooldown is shorter than the shortest one. *)
LEMMA BackoffAtLeast ==
  ASSUME NEW streak \in Nat \ {0}
  PROVE  ShortestCooldown \in Nat /\ ShortestCooldown <= Backoff(streak)
<1>1. streak - 1 \in Nat
  OBVIOUS
<1>2. Doubled[streak - 1] \in Nat /\ Base <= Doubled[streak - 1]
  BY <1>1, DoubledGrows
<1> QED
  BY <1>2, StoreAssumption DEF Backoff, ShortestCooldown

(* A failure counted after a streak of n was counted after that streak's cooldown,
   which ends no earlier than n shortest cooldowns after time zero. *)
LEMMA EarnedSoFar ==
  ASSUME PoolTypeOK, StreakEarned, NEW c \in Creds, ~Cooling(c)
  PROVE  now >= failStreak[c] * ShortestCooldown
<1> DEFINE n == failStreak[c]
           short == ShortestCooldown
           cool == Backoff(n)
<1>1. n \in Nat /\ now \in Nat /\ cooldownUntil[c] \in Int /\ now >= cooldownUntil[c]
  BY DEF PoolTypeOK, StoreTypeOK, Cooling
<1>2. CASE n = 0
  <2>1. short \in Nat
    BY StoreAssumption DEF ShortestCooldown
  <2> HIDE DEF n, short
  <2>2. n * short = 0
    BY <1>2, <2>1
  <2>3. now >= n * short
    BY <1>1, <2>2
  <2> QED
    BY <2>3 DEF n, short
<1>3. CASE n # 0
  <2>1. short \in Nat /\ short <= cool /\ cool \in Nat
    BY <1>1, <1>3, BackoffAtLeast, BackoffCapped
  <2>2. cooldownUntil[c] - cool >= (n - 1) * short
    BY <1>1, <1>3 DEF StreakEarned
  <2> HIDE DEF n, short, cool
  <2>3. (n - 1) * short = n * short - short /\ n * short \in Int
    BY <1>1, <2>1
  <2>4. now >= n * short
    BY <1>1, <2>1, <2>2, <2>3
  <2> QED
    BY <2>4 DEF n, short
<1> QED
  BY <1>2, <1>3

(* A streak of n takes n - 1 cooldowns to earn, for every number of credentials and
   of callers that report failures in parallel: a burst counts once. *)
THEOREM StreaksAreEarned == Spec => []StreakEarned
<1>1. Init => StreakEarned
  BY DEF Init, StoreInit, StreakEarned
<1>2. PoolTypeOK /\ StreakEarned /\ [Next]_poolVars => StreakEarned'
  <2> SUFFICES ASSUME PoolTypeOK, StreakEarned, [Next]_poolVars
               PROVE  StreakEarned'
    OBVIOUS
  <2>1. CASE UNCHANGED <<cooldownUntil, failStreak>>
    BY <2>1 DEF StreakEarned, Backoff, ShortestCooldown
  <2>2. ASSUME NEW p \in Callers, ReportFailure(p)
        PROVE  StreakEarned'
    <3>1. CASE Cooling(held[p])
      BY <2>1, <2>2, <3>1 DEF ReportFailure, PenalizeDetail, CountFailure, rotationVars
    <3>2. CASE ~Cooling(held[p])
      <4>1. held[p] \in Creds
        BY <2>2 DEF ReportFailure, PoolTypeOK
      <4>2. PICK c \in Creds, n \in Nat : c = held[p] /\ n = failStreak[c]
        BY <4>1 DEF PoolTypeOK, StoreTypeOK
      <4>3. /\ failStreak' = [failStreak EXCEPT ![c] = n + 1]
            /\ cooldownUntil' = [cooldownUntil EXCEPT ![c] = now + Backoff(n + 1)]
        BY <2>2, <3>2, <4>2 DEF ReportFailure, PenalizeDetail, CountFailure
      <4>4. now >= n * ShortestCooldown
        BY <3>2, <4>2, EarnedSoFar
      <4>5. Backoff(n + 1) \in Nat
        BY BackoffCapped
      <4> SUFFICES ASSUME NEW d \in Creds, failStreak'[d] > 0
                   PROVE  cooldownUntil'[d] - Backoff(failStreak'[d])
                            >= (failStreak'[d] - 1) * ShortestCooldown
        BY DEF StreakEarned, Backoff, ShortestCooldown
      <4>6. CASE d = c
        <5>1. failStreak'[d] = n + 1 /\ cooldownUntil'[d] = now + Backoff(n + 1)
          BY <4>3, <4>6 DEF PoolTypeOK, StoreTypeOK
        <5>2. now \in Nat
          BY DEF PoolTypeOK, StoreTypeOK
        <5>3. cooldownUntil'[d] - Backoff(failStreak'[d]) = now
          BY <4>5, <5>1, <5>2
        <5>4. failStreak'[d] - 1 = n
          BY <5>1
        <5> QED
          BY <4>4, <5>3, <5>4
      <4>7. CASE d # c
        <5>1. failStreak'[d] = failStreak[d] /\ cooldownUntil'[d] = cooldownUntil[d]
          BY <4>3, <4>7 DEF PoolTypeOK, StoreTypeOK
        <5> QED
          BY <5>1 DEF StreakEarned
      <4> QED
        BY <4>6, <4>7
    <3> QED
      BY <3>1, <3>2
  <2>3. ASSUME NEW p \in Callers, ReportSuccess(p)
        PROVE  StreakEarned'
    <3> SUFFICES ASSUME NEW d \in Creds, failStreak'[d] > 0
                 PROVE  cooldownUntil'[d] - Backoff(failStreak'[d])
                          >= (failStreak'[d] - 1) * ShortestCooldown
      BY DEF StreakEarned, Backoff, ShortestCooldown
    <3>1. failStreak'[d] = failStreak[d] /\ cooldownUntil'[d] = cooldownUntil[d]
      BY <2>3 DEF ReportSuccess, MarkSuccess, PoolTypeOK, StoreTypeOK
    <3> QED
      BY <3>1 DEF StreakEarned
  <2>4. ASSUME NEW p \in Callers, NEW match \in Filters, Take(p, match) \/ TakeNone(p, match)
        PROVE  StreakEarned'
    BY <2>1, <2>4 DEF Take, NextOf, TakeNone, NextOfNone, rotationVars
  <2>5. ASSUME NEW p \in Callers, Abandon(p)
        PROVE  StreakEarned'
    BY <2>1, <2>5 DEF Abandon, storeVars, rotationVars
  <2>6. ASSUME NEW c \in Creds, NEW enabled \in BOOLEAN, Switch(c, enabled)
        PROVE  StreakEarned'
    BY <2>1, <2>6 DEF Switch, SetEnabled
  <2>7. CASE ClockTick
    BY <2>1, <2>7 DEF ClockTick, Tick, rotationVars
  <2>8. CASE UNCHANGED poolVars
    BY <2>1, <2>8 DEF poolVars, storeVars, rotationVars
  <2> QED
    BY <2>2, <2>3, <2>4, <2>5, <2>6, <2>7, <2>8 DEF Next, CallerStep
<1> QED
  BY <1>1, <1>2, TypeCorrect, PTL DEF Spec

-----------------------------------------------------------------------------
(***************************************************************************)
(* What a step may never do.                                               *)
(***************************************************************************)
Forgives ==
    \A c \in Creds :
        (failStreak'[c] < failStreak[c] \/ cooldownUntil'[c] < cooldownUntil[c])
        => /\ failStreak'[c] = 0 /\ cooldownUntil'[c] = 0
           /\ \E p \in Callers : held[p] = c /\ held'[p] = NoCred

(* A step that leaves the streaks and the cooldowns alone forgives nothing. *)
LEMMA NothingForgiven ==
  ASSUME PoolTypeOK, UNCHANGED <<cooldownUntil, failStreak>>
  PROVE  Forgives
BY DEF Forgives, PoolTypeOK, StoreTypeOK

(* Only the holder's success shortens a cooldown or lowers a streak, and it clears
   both: a late failure, a duplicate, the operator and the clock never do. *)
THEOREM SuccessAloneForgives == Spec => OnlySuccessForgives
<1>1. PoolTypeOK /\ [Next]_poolVars => [Forgives]_poolVars
  <2> SUFFICES ASSUME PoolTypeOK, Next
               PROVE  Forgives
    OBVIOUS
  <2>1. ASSUME NEW p \in Callers, ReportFailure(p)
        PROVE  Forgives
    <3>1. CASE Cooling(held[p])
      BY <2>1, <3>1, NothingForgiven DEF ReportFailure, PenalizeDetail, CountFailure, rotationVars
    <3>2. CASE ~Cooling(held[p])
      <4>1. held[p] \in Creds
        BY <2>1 DEF ReportFailure, PoolTypeOK
      <4>2. PICK c \in Creds, n \in Nat : c = held[p] /\ n = failStreak[c]
        BY <4>1 DEF PoolTypeOK, StoreTypeOK
      <4>3. PICK b \in Nat : b = Backoff(n + 1)
        BY BackoffCapped
      <4>4. /\ failStreak' = [failStreak EXCEPT ![c] = n + 1]
            /\ cooldownUntil' = [cooldownUntil EXCEPT ![c] = now + b]
        BY <2>1, <3>2, <4>2, <4>3 DEF ReportFailure, PenalizeDetail, CountFailure
      <4>5. now >= cooldownUntil[c]
        BY <3>2, <4>2 DEF Cooling, PoolTypeOK, StoreTypeOK
      <4> QED
        BY <4>2, <4>4, <4>5 DEF Forgives, PoolTypeOK, StoreTypeOK
    <3> QED
      BY <3>1, <3>2
  <2>2. ASSUME NEW p \in Callers, ReportSuccess(p)
        PROVE  Forgives
    BY <2>2 DEF ReportSuccess, MarkSuccess, Forgives, PoolTypeOK, StoreTypeOK
  <2>3. ASSUME NEW p \in Callers, NEW match \in Filters, Take(p, match) \/ TakeNone(p, match)
        PROVE  Forgives
    BY <2>3, NothingForgiven DEF Take, NextOf, TakeNone, NextOfNone, rotationVars
  <2>4. ASSUME NEW p \in Callers, Abandon(p)
        PROVE  Forgives
    BY <2>4, NothingForgiven DEF Abandon, storeVars, rotationVars
  <2>5. ASSUME NEW c \in Creds, NEW enabled \in BOOLEAN, Switch(c, enabled)
        PROVE  Forgives
    BY <2>5, NothingForgiven DEF Switch, SetEnabled
  <2>6. CASE ClockTick
    BY <2>6, NothingForgiven DEF ClockTick, Tick, rotationVars
  <2> QED
    BY <2>1, <2>2, <2>3, <2>4, <2>5, <2>6 DEF Next, CallerStep
<1> QED
  BY <1>1, TypeCorrect, PTL DEF Spec, OnlySuccessForgives, Forgives
=============================================================================
