-------------------------- MODULE AccountState_proofs --------------------------
(***************************************************************************)
(* That switching accounts does what Switches promises, for any number of  *)
(* accounts, stores and operators, whatever write fails and whenever the   *)
(* process dies.  It does where no two accounts bear one name; only the    *)
(* types hold without that.                                                *)
(***************************************************************************)
EXTENDS AccountState, FiniteSetTheorems, WellFoundedInduction, TLAPS

UniqueNames == \A d, e \in Entries : NameOf[d] = NameOf[e] => d = e

HoldsStore(x) == x.at \in {"locking", "writing", "renaming", "adopting", "applying"}
HoldsSet(x) == x.at \in {"writing", "renaming", "adopting"}
Committed(x) == x.at \in {"adopting", "applying"}

\* A request under way holds the mutexes of the place it is at, has computed its set from
\* the one in force, and once it is committed the file says what it asked for.
OpOK(o, x) ==
    /\ HoldsStore(x) => /\ x.entry \in Entries /\ NameOf[x.entry] = x.name
                        /\ storeMu[StoreOf[x.entry]] = o
    /\ HoldsSet(x) => setMu = o
    /\ x.at \in {"writing", "renaming"} => x.next = With(names, x.name, x.turnOff)
    /\ x.at = "renaming" => tmp = x.next
    /\ x.at = "adopting" => file = x.next
    /\ Committed(x) => (x.name \in file <=> x.turnOff)

UnderWay(o) == op[o] # NoOp

\* Memory is what the file says, but for what is committed and not yet adopted or applied.
AgreeInv ==
    /\ file \subseteq Known
    /\ (\A o \in Operators : ~At(o, "adopting")) => names = file
    /\ \A e \in Entries :
          (\A o \in Operators : UnderWay(o) /\ Committed(op[o]) => op[o].entry # e)
             => (disabled[e] <=> NameOf[e] \in file)

AccountInv ==
    /\ AccountTypeOK
    /\ \A o \in Operators : UnderWay(o) => OpOK(o, op[o])
    /\ AgreeInv

-----------------------------------------------------------------------------
(* Type correctness, which asks nothing of the names: accounts of one store or of several
   may share one, and First takes the one with the lowest number. *)

LEMMA SmallestPart ==
    ASSUME NEW D, IsFiniteSet(D), NEW Parts \in SUBSET SUBSET D, Parts # {}
    PROVE  \E S \in Parts : \A T \in Parts : T \subseteq S => T = S
  <1>1. Parts \subseteq FiniteSubsetsOf(D)
    BY FS_Subset DEF FiniteSubsetsOf
  <1>2. PICK S \in Parts : \A T \in Parts : <<T, S>> \notin StrictSubsetOrdering(D)
    BY <1>1, FS_StrictSubsetOrderingWellFounded, WFMin
  <1>3. ASSUME NEW T \in Parts, T \subseteq S, T # S PROVE FALSE
    BY <1>2, <1>3 DEF StrictSubsetOrdering
  <1> QED BY <1>2, <1>3

LEMMA LowestNumber ==
    ASSUME NEW B \in SUBSET Nat, B # {}
    PROVE  \E n \in B : \A m \in B : n <= m
  <1>1. PICK b \in B : TRUE
    OBVIOUS
  <1> DEFINE D == 0..b
             Starts == {S \in SUBSET D : \E m \in B : S = 0..m}
  <1>2. IsFiniteSet(D) /\ D \in Starts
    BY FS_Interval
  <1> HIDE DEF D
  <1>3. Starts \in SUBSET SUBSET D
    OBVIOUS
  <1>4. PICK S \in Starts : \A T \in Starts : T \subseteq S => T = S
    <2> HIDE DEF Starts
    <2> QED BY <1>2, <1>3, SmallestPart
  <1>5. PICK n \in B : S = 0..n
    OBVIOUS
  <1>6. ASSUME NEW m \in B, m < n PROVE FALSE
    <2>1. 0..m \subseteq S /\ n \in S /\ n \notin 0..m
      BY <1>5, <1>6
    <2>2. 0..m \in Starts /\ 0..m # S
      BY <2>1
    <2> QED BY <1>4, <2>1, <2>2
  <1> QED BY <1>6

LEMMA FirstMatches ==
    ASSUME NEW s, NEW name, Matches(s, name) # {}
    PROVE  First(s, name) \in Entries
  <1>1. Matches(s, name) \in SUBSET Nat
    BY DEF Matches, Entries
  <1>2. \E e \in Matches(s, name) : \A d \in Matches(s, name) : e <= d
    BY <1>1, LowestNumber
  <1>3. First(s, name) \in Matches(s, name)
    BY <1>2 DEF First
  <1> QED BY <1>3 DEF Matches

\* What the types rest on: who holds DisabledSet.mu, and what the temporary file holds
\* while it is about to be renamed.
TypedOp(o, x, mu, t) ==
    /\ HoldsStore(x) => x.entry \in Entries
    /\ HoldsSet(x) => mu = o
    /\ x.at = "renaming" => t = x.next

TypedInv ==
    /\ AccountTypeOK
    /\ \A o \in Operators : UnderWay(o) => TypedOp(o, op[o], setMu, tmp)

Typed(d, ns, f, t, sm, dm) ==
    /\ d \in [Entries -> BOOLEAN]
    /\ ns \in SUBSET Names
    /\ f \in SUBSET Names
    /\ t = NoFile \/ t \in SUBSET Names
    /\ sm \in [Stores -> Operators \cup {NoOne}]
    /\ dm \in Operators \cup {NoOne}

LEMMA TypedNow ==
    ASSUME TypedInv
    PROVE  Typed(disabled, names, file, tmp, storeMu, setMu)
  BY DEF TypedInv, AccountTypeOK, Typed

LEMMA TypedAt ==
    ASSUME TypedInv, NEW o \in Operators, NEW step, At(o, step)
    PROVE  op[o] \in Op /\ op[o].at = step /\ TypedOp(o, op[o], setMu, tmp)
  BY DEF TypedInv, AccountTypeOK, At, UnderWay

\* A request moves to y; who is past Compute finds the mutex and the file as they were.
LEMMA TypedMove ==
    ASSUME TypedInv, NEW o \in Operators, NEW y \in Op \cup {NoOp}, op' = [op EXCEPT ![o] = y],
           Typed(disabled', names', file', tmp', storeMu', setMu'),
           y # NoOp => TypedOp(o, y, setMu', tmp'),
           UNCHANGED <<setMu, tmp>> \/ setMu \in {o, NoOne}
    PROVE  TypedInv'
  <1>1. /\ op'[o] = y /\ \A p \in Operators : p # o => op'[p] = op[p]
        /\ op' \in [Operators -> Op \cup {NoOp}]
    BY DEF TypedInv, AccountTypeOK
  <1>2. AccountTypeOK'
    BY <1>1, AccountAssumption DEF AccountTypeOK, Typed
  <1>3. ASSUME NEW p \in Operators, UnderWay(p)' PROVE TypedOp(p, op'[p], setMu', tmp')
    <2>1. CASE p = o
      BY <1>1, <1>3, <2>1 DEF UnderWay
    <2>2. CASE p # o
      <3>1. op'[p] = op[p] /\ TypedOp(p, op[p], setMu, tmp)
        BY <1>1, <1>3, <2>2 DEF TypedInv, UnderWay
      <3>2. CASE UNCHANGED <<setMu, tmp>>
        BY <3>1, <3>2
      <3>3. CASE setMu \in {o, NoOne}
        BY <2>2, <3>1, <3>3, AccountAssumption DEF TypedOp, HoldsSet
      <3> QED BY <3>2, <3>3
    <2> QED BY <2>1, <2>2
  <1> QED BY <1>2, <1>3 DEF TypedInv

LEMMA TypedAsk == ASSUME TypedInv, NEW o \in Operators, Ask(o) PROVE TypedInv'
  <1>1. PICK name \in Names, turnOff \in BOOLEAN :
          op' = [op EXCEPT ![o] = [at |-> "looking", name |-> name, turnOff |-> turnOff,
                                   left |-> Stores, entry |-> 0, next |-> {}]]
    BY DEF Ask
  <1> DEFINE y == [at |-> "looking", name |-> name, turnOff |-> turnOff,
                   left |-> Stores, entry |-> 0, next |-> {}]
  <1>2. y \in Op /\ y.at = "looking"
    BY DEF Op, Steps
  <1>3. op' = [op EXCEPT ![o] = y] /\ UNCHANGED <<memory, disk, locks>>
    BY <1>1 DEF Ask
  <1> HIDE DEF y
  <1>4. TypedOp(o, y, setMu', tmp')
    BY <1>2 DEF TypedOp, HoldsStore, HoldsSet
  <1>5. Typed(disabled', names', file', tmp', storeMu', setMu') /\ UNCHANGED <<setMu, tmp>>
    BY <1>3, TypedNow DEF memory, disk, locks
  <1> QED BY <1>2, <1>3, <1>4, <1>5, TypedMove

\* The steps of the look-up change the request, and Hit the mutex of the store.
LEMMA TypedLookUp ==
    ASSUME TypedInv, NEW o \in Operators, Miss(o) \/ Hit(o) \/ NotFound(o)
    PROVE  TypedInv'
  <1>1. op[o] \in Op /\ op[o].at = "looking"
    BY TypedAt DEF Miss, Hit, NotFound
  <1>2. ASSUME NEW s \in op[o].left, Matches(s, op[o].name) # {},
               storeMu' = [storeMu EXCEPT ![s] = o],
               op' = [op EXCEPT ![o].at = "locking", ![o].left = {},
                                ![o].entry = First(s, op[o].name)],
               UNCHANGED <<memory, disk, setMu>>
        PROVE  TypedInv'
    <2> DEFINE e == First(s, op[o].name)
               y == [op[o] EXCEPT !.at = "locking", !.left = {}, !.entry = e]
    <2>1. e \in Entries
      BY <1>2, FirstMatches
    <2>2. op' = [op EXCEPT ![o] = y]
      BY <1>2
    <2> HIDE DEF e
    <2>3. y \in Op /\ y.at = "locking" /\ y.entry = e
      BY <1>1, <2>1 DEF Op, Steps
    <2> HIDE DEF y
    <2>4. TypedOp(o, y, setMu', tmp')
      BY <2>1, <2>3 DEF TypedOp, HoldsSet
    <2>5. s \in Stores
      BY <1>1, <1>2 DEF Op
    <2>6. Typed(disabled', names', file', tmp', storeMu', setMu') /\ UNCHANGED <<setMu, tmp>>
      BY <1>2, <2>5, TypedNow DEF Typed, memory, disk
    <2> QED BY <2>2, <2>3, <2>4, <2>6, TypedMove
  <1>3. ASSUME NEW y \in Op, y.at \in {"looking", "refused"}, op' = [op EXCEPT ![o] = y],
               UNCHANGED <<memory, disk, locks>>
        PROVE  TypedInv'
    <2>1. TypedOp(o, y, setMu', tmp')
      BY <1>3 DEF TypedOp, HoldsStore, HoldsSet
    <2>2. Typed(disabled', names', file', tmp', storeMu', setMu') /\ UNCHANGED <<setMu, tmp>>
      BY <1>3, TypedNow DEF memory, disk, locks
    <2> QED BY <1>3, <2>1, <2>2, TypedMove
  <1>4. ASSUME NEW s \in op[o].left, op' = [op EXCEPT ![o].left = @ \ {s}],
               UNCHANGED <<memory, disk, locks>>
        PROVE  TypedInv'
    <2> DEFINE y == [op[o] EXCEPT !.left = @ \ {s}]
    <2>1. y \in Op /\ y.at = "looking"
      BY <1>1 DEF Op
    <2>2. op' = [op EXCEPT ![o] = y]
      BY <1>4
    <2> HIDE DEF y
    <2> QED BY <1>3, <1>4, <2>1, <2>2
  <1>5. ASSUME NotFound(o) PROVE TypedInv'
    <2> DEFINE y == [op[o] EXCEPT !.at = "refused"]
    <2>1. y \in Op /\ y.at = "refused"
      BY <1>1 DEF Op, Steps
    <2>2. op' = [op EXCEPT ![o] = y] /\ UNCHANGED <<memory, disk, locks>>
      BY <1>5 DEF NotFound, Goto
    <2> HIDE DEF y
    <2> QED BY <1>3, <2>1, <2>2
  <1> QED BY <1>2, <1>4, <1>5 DEF Miss, Hit

\* The steps that hold a mutex.
LEMMA TypedSave ==
    ASSUME TypedInv, NEW o \in Operators, AlreadySet(o) \/ Compute(o) \/ WriteTmp(o) \/ Rename(o)
    PROVE  TypedInv'
  <1>1. CASE AlreadySet(o)
    <2>1. op[o] \in Op /\ op[o].at = "locking" /\ TypedOp(o, op[o], setMu, tmp)
      BY <1>1, TypedAt DEF AlreadySet
    <2> DEFINE y == [op[o] EXCEPT !.at = "applying"]
    <2>2. y \in Op /\ y.at = "applying" /\ y.entry = op[o].entry
      BY <2>1 DEF Op, Steps
    <2>3. op' = [op EXCEPT ![o] = y] /\ UNCHANGED <<memory, disk, locks>>
      BY <1>1 DEF AlreadySet, Goto
    <2> HIDE DEF y
    <2>4. TypedOp(o, y, setMu', tmp')
      BY <2>1, <2>2 DEF TypedOp, HoldsStore, HoldsSet
    <2>5. Typed(disabled', names', file', tmp', storeMu', setMu') /\ UNCHANGED <<setMu, tmp>>
      BY <2>3, TypedNow DEF memory, disk, locks
    <2> QED BY <2>2, <2>3, <2>4, <2>5, TypedMove
  <1>2. CASE Compute(o)
    <2>1. op[o] \in Op /\ op[o].at = "locking" /\ TypedOp(o, op[o], setMu, tmp)
      BY <1>2, TypedAt DEF Compute
    <2> DEFINE y == [op[o] EXCEPT !.at = "writing",
                                  !.next = With(names, op[o].name, op[o].turnOff)]
    <2>2. y \in Op /\ y.at = "writing" /\ y.entry = op[o].entry
      BY <2>1, TypedNow DEF Op, Steps, With, Typed
    <2>3. /\ op' = [op EXCEPT ![o] = y] /\ setMu' = o /\ setMu = NoOne
          /\ UNCHANGED <<memory, disk, storeMu>>
      BY <1>2 DEF Compute
    <2> HIDE DEF y
    <2>4. TypedOp(o, y, setMu', tmp')
      BY <2>1, <2>2, <2>3 DEF TypedOp, HoldsStore, HoldsSet
    <2>5. Typed(disabled', names', file', tmp', storeMu', setMu')
      BY <2>3, TypedNow DEF Typed, memory, disk
    <2> QED BY <2>2, <2>3, <2>4, <2>5, TypedMove
  <1>3. CASE WriteTmp(o)
    <2>1. op[o] \in Op /\ op[o].at = "writing" /\ TypedOp(o, op[o], setMu, tmp)
      BY <1>3, TypedAt DEF WriteTmp
    <2> DEFINE y == [op[o] EXCEPT !.at = "renaming"]
    <2>2. y \in Op /\ y.at = "renaming" /\ y.entry = op[o].entry /\ y.next = op[o].next
      BY <2>1 DEF Op, Steps
    <2>3. /\ op' = [op EXCEPT ![o] = y] /\ tmp' = op[o].next
          /\ UNCHANGED <<memory, file, locks>>
      BY <1>3 DEF WriteTmp, Goto
    <2> HIDE DEF y
    <2>4. TypedOp(o, y, setMu', tmp') /\ setMu = o
      BY <2>1, <2>2, <2>3 DEF TypedOp, HoldsStore, HoldsSet, locks
    <2>5. Typed(disabled', names', file', tmp', storeMu', setMu')
      BY <2>1, <2>3, TypedNow DEF Typed, memory, locks, Op
    <2> QED BY <2>2, <2>3, <2>4, <2>5, TypedMove
  <1>4. CASE Rename(o)
    <2>1. op[o] \in Op /\ op[o].at = "renaming" /\ TypedOp(o, op[o], setMu, tmp)
      BY <1>4, TypedAt DEF Rename
    <2> DEFINE y == [op[o] EXCEPT !.at = "adopting"]
    <2>2. y \in Op /\ y.at = "adopting" /\ y.entry = op[o].entry
      BY <2>1 DEF Op, Steps
    <2>3. /\ op' = [op EXCEPT ![o] = y] /\ file' = tmp /\ tmp' = NoFile
          /\ UNCHANGED <<memory, locks>>
      BY <1>4 DEF Rename, Goto
    <2> HIDE DEF y
    <2>4. TypedOp(o, y, setMu', tmp') /\ setMu = o
      BY <2>1, <2>2, <2>3 DEF TypedOp, HoldsStore, HoldsSet, locks
    <2>5. tmp \in SUBSET Names
      BY <2>1 DEF TypedOp, Op
    <2>6. Typed(disabled', names', file', tmp', storeMu', setMu')
      BY <2>3, <2>5, TypedNow DEF Typed, memory, locks
    <2> QED BY <2>2, <2>3, <2>4, <2>6, TypedMove
  <1> QED BY <1>1, <1>2, <1>3, <1>4

\* The steps that give a mutex back, and the answer.
LEMMA TypedEnd ==
    ASSUME TypedInv, NEW o \in Operators, WriteFails(o) \/ Adopt(o) \/ Apply(o) \/ Answer(o)
    PROVE  TypedInv'
  <1>1. CASE WriteFails(o)
    <2>1. op[o] \in Op /\ setMu = o
      BY <1>1, TypedAt DEF WriteFails, TypedOp, HoldsSet
    <2> DEFINE y == [op[o] EXCEPT !.at = "refused"]
    <2>2. y \in Op /\ y.at = "refused"
      BY <2>1 DEF Op, Steps
    <2>3. /\ op' = [op EXCEPT ![o] = y] /\ tmp' = NoFile /\ setMu' = NoOne
          /\ FreeStore(Store(o)) /\ UNCHANGED <<memory, file>>
      BY <1>1 DEF WriteFails, Goto
    <2> HIDE DEF y
    <2>4. TypedOp(o, y, setMu', tmp')
      BY <2>2 DEF TypedOp, HoldsStore, HoldsSet
    <2>5. Typed(disabled', names', file', tmp', storeMu', setMu')
      BY <2>3, TypedNow DEF Typed, memory, FreeStore
    <2> QED BY <2>1, <2>2, <2>3, <2>4, <2>5, TypedMove
  <1>2. CASE Adopt(o)
    <2>1. op[o] \in Op /\ op[o].at = "adopting" /\ TypedOp(o, op[o], setMu, tmp)
      BY <1>2, TypedAt DEF Adopt
    <2> DEFINE y == [op[o] EXCEPT !.at = "applying", !.next = {}]
    <2>2. y \in Op /\ y.at = "applying" /\ y.entry = op[o].entry
      BY <2>1 DEF Op, Steps
    <2>3. /\ op' = [op EXCEPT ![o] = y] /\ setMu' = NoOne /\ names' = op[o].next
          /\ UNCHANGED <<disabled, disk, storeMu>>
      BY <1>2 DEF Adopt
    <2> HIDE DEF y
    <2>4. TypedOp(o, y, setMu', tmp') /\ setMu = o
      BY <2>1, <2>2 DEF TypedOp, HoldsStore, HoldsSet
    <2>5. Typed(disabled', names', file', tmp', storeMu', setMu')
      BY <2>1, <2>3, TypedNow DEF Typed, disk, Op
    <2> QED BY <2>2, <2>3, <2>4, <2>5, TypedMove
  <1>3. CASE Apply(o)
    <2>1. op[o] \in Op /\ op[o].at = "applying" /\ TypedOp(o, op[o], setMu, tmp)
      BY <1>3, TypedAt DEF Apply
    <2> DEFINE y == [op[o] EXCEPT !.at = "done"]
    <2>2. y \in Op /\ y.at = "done"
      BY <2>1 DEF Op, Steps
    <2>3. /\ op' = [op EXCEPT ![o] = y]
          /\ disabled' = [disabled EXCEPT ![op[o].entry] = op[o].turnOff]
          /\ FreeStore(Store(o)) /\ UNCHANGED <<names, disk, setMu>>
      BY <1>3 DEF Apply, Goto
    <2> HIDE DEF y
    <2>4. TypedOp(o, y, setMu', tmp') /\ UNCHANGED <<setMu, tmp>>
      BY <2>2, <2>3 DEF TypedOp, HoldsStore, HoldsSet, disk
    <2>5. Typed(disabled', names', file', tmp', storeMu', setMu')
      BY <2>1, <2>3, TypedNow DEF Typed, disk, Op, FreeStore
    <2> QED BY <2>2, <2>3, <2>4, <2>5, TypedMove
  <1>4. CASE Answer(o)
    <2>1. op' = [op EXCEPT ![o] = NoOp] /\ UNCHANGED <<memory, disk, locks>>
      BY <1>4 DEF Answer
    <2>2. Typed(disabled', names', file', tmp', storeMu', setMu') /\ UNCHANGED <<setMu, tmp>>
      BY <2>1, TypedNow DEF memory, disk, locks
    <2> QED BY <2>1, <2>2, TypedMove
  <1> QED BY <1>1, <1>2, <1>3, <1>4

LEMMA TypedStep == ASSUME TypedInv, [Next]_accountVars PROVE TypedInv'
  <1>1. ASSUME NEW o \in Operators, Ask(o) \/ Handle(o) PROVE TypedInv'
    BY <1>1, TypedAsk, TypedLookUp, TypedSave, TypedEnd DEF Handle
  <1>2. CASE Restart
    <2>1. /\ names' = file /\ disabled' = Loaded(file) /\ storeMu' = NobodyHolds
          /\ setMu' = NoOne /\ op' = [o \in Operators |-> NoOp] /\ UNCHANGED <<file, tmp>>
      BY <1>2 DEF Restart, disk
    <2>2. AccountTypeOK'
      BY <2>1 DEF TypedInv, AccountTypeOK, Loaded, NobodyHolds
    <2> QED BY <2>1, <2>2 DEF TypedInv, UnderWay
  <1>3. CASE UNCHANGED accountVars
    BY <1>3 DEF accountVars, memory, disk, locks, TypedInv, AccountTypeOK, UnderWay
  <1> QED BY <1>1, <1>2, <1>3 DEF Next

(* Every variable has its type, through crashes and failed writes: the file is always a
   set of names and never a torn one, whoever shares a name (AccountState). *)
THEOREM TypeCorrect == Spec => []AccountTypeOK
  <1>1. Init => TypedInv
    <2> SUFFICES ASSUME Init PROVE TypedInv OBVIOUS
    <2>1. AccountTypeOK
      BY AccountAssumption DEF Init, AccountTypeOK, Loaded, NobodyHolds
    <2> QED BY <2>1 DEF Init, TypedInv, UnderWay
  <1>2. TypedInv => AccountTypeOK
    BY DEF TypedInv
  <1> QED BY <1>1, <1>2, TypedStep, PTL DEF Spec

-----------------------------------------------------------------------------
(* What holds where names are unique. *)

LEMMA OpFields ==
    ASSUME NEW x \in Op \cup {NoOp}
    PROVE  (x # NoOp <=> x \in Op) /\ (x = NoOp <=> x.at = "idle")
  BY DEF Op, NoOp, Steps

LEMMA InitAccount == Init => AccountInv
  <1> SUFFICES ASSUME Init PROVE AccountInv OBVIOUS
  <1>1. file \in SUBSET Names /\ tmp = NoFile /\ names = file /\ disabled = Loaded(file)
        /\ storeMu = NobodyHolds /\ setMu = NoOne /\ op = [o \in Operators |-> NoOp]
    BY AccountAssumption DEF Init
  <1>2. AccountTypeOK
    BY <1>1, AccountAssumption DEF AccountTypeOK, Loaded, NobodyHolds
  <1>3. AgreeInv
    BY <1>1 DEF Init, AgreeInv, Loaded
  <1> QED BY <1>1, <1>2, <1>3 DEF AccountInv, UnderWay

\* Two requests past the look-up are not for the same account.
LEMMA OneHolder ==
    ASSUME UniqueNames, AccountInv, NEW o \in Operators, NEW p \in Operators, o # p,
           UnderWay(o), UnderWay(p), HoldsStore(op[o]), HoldsStore(op[p])
    PROVE  op[o].name # op[p].name /\ op[o].entry # op[p].entry
  BY DEF AccountInv, OpOK, UniqueNames

\* While one request holds DisabledSet.mu, or nobody does, no other is about to adopt.
LEMMA NamesInFile ==
    ASSUME AccountInv, NEW o, setMu = o, \A p \in Operators : p = o => ~At(p, "adopting")
    PROVE  names = file
  <1>1. ASSUME NEW p \in Operators, At(p, "adopting") PROVE FALSE
    BY <1>1 DEF AccountInv, OpOK, HoldsSet, At, UnderWay
  <1> QED BY <1>1 DEF AccountInv, AgreeInv

\* A step of one request that changes nothing but where it is.
LEMMA OnlyMoves ==
    ASSUME AccountInv, NEW o \in Operators, NEW y \in Op \cup {NoOp}, op' = [op EXCEPT ![o] = y],
           UNCHANGED <<memory, disk, locks>>,
           UnderWay(o) => ~Committed(op[o]),
           y # NoOp => OpOK(o, y) /\ y.at # "adopting"
    PROVE  AccountInv'
  <1>1. /\ op' = [p \in Operators |-> op'[p]] /\ op'[o] = y
        /\ \A p \in Operators : p # o => op'[p] = op[p]
    BY DEF AccountInv, AccountTypeOK
  <1>2. AccountTypeOK'
    BY DEF AccountInv, AccountTypeOK, memory, disk, locks
  <1>3. ASSUME NEW p \in Operators, UnderWay(p)' PROVE OpOK(p, op[p])'
    BY <1>1, <1>3 DEF AccountInv, OpOK, UnderWay, memory, disk, locks
  <1>4. AgreeInv'
    BY <1>1 DEF AccountInv, AgreeInv, UnderWay, Committed, At, memory, disk, locks
  <1> QED BY <1>2, <1>3, <1>4 DEF AccountInv

\* What op becomes when request o gets to y.
LEMMA OneMoves ==
    ASSUME AccountInv, NEW o \in Operators, NEW y, op' = [op EXCEPT ![o] = y]
    PROVE  /\ op' = [p \in Operators |-> op'[p]] /\ op'[o] = y
           /\ \A p \in Operators : p # o => op'[p] = op[p]
           /\ y \in Op \cup {NoOp} => op' \in [Operators -> Op \cup {NoOp}]
  BY DEF AccountInv, AccountTypeOK

LEMMA AtOp ==
    ASSUME AccountInv, NEW o \in Operators, NEW step, At(o, step)
    PROVE  op[o] \in Op /\ op[o].at = step /\ UnderWay(o) /\ OpOK(o, op[o])
  BY DEF AccountInv, AccountTypeOK, At, UnderWay

LEMMA AskKeeps == ASSUME AccountInv, NEW o \in Operators, Ask(o) PROVE AccountInv'
  <1>1. PICK name \in Names, turnOff \in BOOLEAN :
          op' = [op EXCEPT ![o] = [at |-> "looking", name |-> name, turnOff |-> turnOff,
                                   left |-> Stores, entry |-> 0, next |-> {}]]
    BY DEF Ask
  <1> DEFINE y == [at |-> "looking", name |-> name, turnOff |-> turnOff,
                   left |-> Stores, entry |-> 0, next |-> {}]
  <1>2. y \in Op /\ y.at = "looking"
    BY DEF Op, Steps
  <1>3. OpOK(o, y)
    BY <1>2 DEF OpOK, HoldsStore, HoldsSet, Committed
  <1>4. op' = [op EXCEPT ![o] = y]
    BY <1>1
  <1> HIDE DEF y
  <1>5. ~UnderWay(o) /\ UNCHANGED <<memory, disk, locks>>
    BY DEF Ask, UnderWay
  <1> QED BY <1>2, <1>3, <1>4, <1>5, OnlyMoves

LEMMA MissKeeps == ASSUME AccountInv, NEW o \in Operators, Miss(o) PROVE AccountInv'
  <1>1. PICK s \in op[o].left : op' = [op EXCEPT ![o].left = @ \ {s}]
    BY DEF Miss
  <1>2. op[o] \in Op /\ op[o].at = "looking"
    BY AtOp DEF Miss
  <1> DEFINE y == [op[o] EXCEPT !.left = @ \ {s}]
  <1>3. y \in Op /\ y.at = "looking"
    BY <1>2 DEF Op
  <1>4. op' = [op EXCEPT ![o] = y]
    BY <1>1
  <1>5. OpOK(o, y)
    BY <1>3 DEF OpOK, HoldsStore, HoldsSet, Committed
  <1> HIDE DEF y
  <1> QED BY <1>2, <1>3, <1>4, <1>5, OnlyMoves DEF Miss, Committed

LEMMA NotFoundKeeps == ASSUME AccountInv, NEW o \in Operators, NotFound(o) PROVE AccountInv'
  <1>1. op[o] \in Op /\ op[o].at = "looking"
    BY AtOp DEF NotFound
  <1> DEFINE y == [op[o] EXCEPT !.at = "refused"]
  <1>2. y \in Op /\ y.at = "refused"
    BY <1>1 DEF Op, Steps
  <1>3. op' = [op EXCEPT ![o] = y]
    BY DEF NotFound, Goto
  <1>4. OpOK(o, y)
    BY <1>2 DEF OpOK, HoldsStore, HoldsSet, Committed
  <1> HIDE DEF y
  <1> QED BY <1>1, <1>2, <1>3, <1>4, OnlyMoves DEF NotFound, Committed

LEMMA AnswerKeeps == ASSUME AccountInv, NEW o \in Operators, Answer(o) PROVE AccountInv'
  BY AtOp, OnlyMoves DEF Answer, Committed

LEMMA AlreadySetKeeps == ASSUME AccountInv, NEW o \in Operators, AlreadySet(o) PROVE AccountInv'
  <1>1. op[o] \in Op /\ op[o].at = "locking" /\ OpOK(o, op[o])
    BY AtOp DEF AlreadySet
  <1> DEFINE y == [op[o] EXCEPT !.at = "applying"]
  <1>2. y \in Op /\ y.at = "applying" /\ y.entry = op[o].entry /\ y.name = op[o].name
        /\ y.turnOff = op[o].turnOff
    BY <1>1 DEF Op, Steps
  <1>3. op' = [op EXCEPT ![o] = y]
    BY DEF AlreadySet, Goto
  <1>4. names = file
    BY NamesInFile, AccountAssumption DEF AlreadySet
  <1>5. OpOK(o, y)
    BY <1>1, <1>2, <1>4 DEF OpOK, HoldsStore, HoldsSet, Committed, AlreadySet
  <1> HIDE DEF y
  <1> QED BY <1>1, <1>2, <1>3, <1>5, OnlyMoves DEF AlreadySet, Committed

LEMMA HitKeeps ==
    ASSUME AccountInv, UniqueNames, NEW o \in Operators, Hit(o) PROVE AccountInv'
  <1>1. PICK s \in op[o].left :
          /\ storeMu[s] = NoOne /\ Matches(s, op[o].name) # {}
          /\ storeMu' = [storeMu EXCEPT ![s] = o]
          /\ op' = [op EXCEPT ![o].at = "locking", ![o].left = {}, ![o].entry = First(s, op[o].name)]
    BY DEF Hit
  <1>2. op[o] \in Op /\ op[o].at = "looking"
    BY AtOp DEF Hit
  <1> DEFINE e == First(s, op[o].name)
             y == [op[o] EXCEPT !.at = "locking", !.left = {}, !.entry = e]
  <1>3. e \in Entries /\ StoreOf[e] = s /\ NameOf[e] = op[o].name
    <2>1. PICK d \in Entries : StoreOf[d] = s /\ NameOf[d] = op[o].name
      BY <1>1 DEF Matches
    <2>2. \A c \in Matches(s, op[o].name) : c = d
      BY <2>1 DEF Matches, UniqueNames
    <2>3. d \in Matches(s, op[o].name) /\ \A c \in Matches(s, op[o].name) : d <= c
      BY <2>1, <2>2 DEF Matches, Entries
    <2>4. First(s, op[o].name) \in Matches(s, op[o].name)
      BY <2>3 DEF First
    <2> QED BY <2>4 DEF Matches
  <1> HIDE DEF e
  <1>4. y \in Op /\ y.at = "locking" /\ y.entry = e /\ y.name = op[o].name
    BY <1>2, <1>3 DEF Op, Steps
  <1>5. op' = [op EXCEPT ![o] = y]
    BY <1>1 DEF e
  <1> HIDE DEF y
  <1>6. /\ op' = [p \in Operators |-> op'[p]] /\ op'[o] = y
        /\ \A p \in Operators : p # o => op'[p] = op[p]
        /\ op' \in [Operators -> Op \cup {NoOp}]
    BY <1>4, <1>5, OneMoves
  <1>7. s \in Stores
    BY <1>2 DEF Op
  <1>8. AccountTypeOK'
    BY <1>1, <1>6, <1>7 DEF AccountInv, AccountTypeOK, Hit, memory, disk
  <1>9. storeMu'[s] = o /\ \A t \in Stores : t # s => storeMu'[t] = storeMu[t]
    BY <1>1, <1>7 DEF AccountInv, AccountTypeOK
  <1>10. ASSUME NEW p \in Operators, UnderWay(p)' PROVE OpOK(p, op[p])'
    <2>1. CASE p = o
      BY <1>3, <1>4, <1>6, <1>9, <2>1 DEF OpOK, HoldsStore, HoldsSet, Committed
    <2>2. CASE p # o
      <3>1. OpOK(p, op[p]) /\ op'[p] = op[p]
        BY <1>6, <1>10, <2>2 DEF AccountInv, UnderWay
      <3>2. HoldsStore(op[p]) => StoreOf[op[p].entry] # s /\ StoreOf[op[p].entry] \in Stores
        BY <1>1, <3>1, AccountAssumption DEF OpOK
      <3>3. HoldsStore(op[p]) => storeMu'[StoreOf[op[p].entry]] = storeMu[StoreOf[op[p].entry]]
        BY <1>9, <3>2
      <3>4. UNCHANGED <<names, file, tmp, setMu>>
        BY DEF Hit, memory, disk
      <3> QED BY <3>1, <3>3, <3>4 DEF OpOK
    <2> QED BY <2>1, <2>2
  <1>11. AgreeInv'
    BY <1>2, <1>4, <1>6 DEF AccountInv, AgreeInv, UnderWay, Committed, At, Hit, memory, disk
  <1> QED BY <1>8, <1>10, <1>11 DEF AccountInv

LEMMA ComputeKeeps == ASSUME AccountInv, NEW o \in Operators, Compute(o) PROVE AccountInv'
  <1>1. op[o] \in Op /\ op[o].at = "locking" /\ OpOK(o, op[o])
    BY AtOp DEF Compute
  <1> DEFINE y == [op[o] EXCEPT !.at = "writing", !.next = With(names, op[o].name, op[o].turnOff)]
  <1>2. y \in Op /\ y.at = "writing" /\ y.entry = op[o].entry /\ y.name = op[o].name
        /\ y.turnOff = op[o].turnOff /\ y.next = With(names, op[o].name, op[o].turnOff)
    BY <1>1 DEF Op, Steps, With, AccountInv, AccountTypeOK
  <1>3. op' = [op EXCEPT ![o] = y]
    BY DEF Compute
  <1> HIDE DEF y
  <1>4. /\ op' = [p \in Operators |-> op'[p]] /\ op'[o] = y
        /\ \A p \in Operators : p # o => op'[p] = op[p]
        /\ op' \in [Operators -> Op \cup {NoOp}]
    BY <1>2, <1>3, OneMoves
  <1>5. AccountTypeOK'
    BY <1>4 DEF AccountInv, AccountTypeOK, Compute, memory, disk
  <1>6. ASSUME NEW p \in Operators, UnderWay(p)' PROVE OpOK(p, op[p])'
    <2>1. CASE p = o
      BY <1>1, <1>2, <1>4, <2>1 DEF OpOK, HoldsStore, HoldsSet, Committed, Compute, memory, disk
    <2>2. CASE p # o
      <3>1. OpOK(p, op[p]) /\ op'[p] = op[p]
        BY <1>4, <1>6, <2>2 DEF AccountInv, UnderWay
      <3>2. ~HoldsSet(op[p])
        BY <3>1, AccountAssumption DEF OpOK, Compute
      <3> QED BY <3>1, <3>2 DEF OpOK, HoldsSet, Compute, memory, disk
    <2> QED BY <2>1, <2>2
  <1>7. AgreeInv'
    BY <1>1, <1>2, <1>4 DEF AccountInv, AgreeInv, UnderWay, Committed, At, Compute, memory, disk
  <1> QED BY <1>5, <1>6, <1>7 DEF AccountInv

LEMMA WriteTmpKeeps == ASSUME AccountInv, NEW o \in Operators, WriteTmp(o) PROVE AccountInv'
  <1>1. op[o] \in Op /\ op[o].at = "writing" /\ OpOK(o, op[o])
    BY AtOp DEF WriteTmp
  <1> DEFINE y == [op[o] EXCEPT !.at = "renaming"]
  <1>2. y \in Op /\ y.at = "renaming" /\ y.entry = op[o].entry /\ y.name = op[o].name
        /\ y.turnOff = op[o].turnOff /\ y.next = op[o].next
    BY <1>1 DEF Op, Steps
  <1>3. op' = [op EXCEPT ![o] = y]
    BY DEF WriteTmp, Goto
  <1> HIDE DEF y
  <1>4. /\ op' = [p \in Operators |-> op'[p]] /\ op'[o] = y
        /\ \A p \in Operators : p # o => op'[p] = op[p]
        /\ op' \in [Operators -> Op \cup {NoOp}]
    BY <1>2, <1>3, OneMoves
  <1>5. AccountTypeOK'
    BY <1>1, <1>4 DEF AccountInv, AccountTypeOK, WriteTmp, memory, locks, Op
  <1>6. ASSUME NEW p \in Operators, UnderWay(p)' PROVE OpOK(p, op[p])'
    <2>1. CASE p = o
      BY <1>1, <1>2, <1>4, <2>1 DEF OpOK, HoldsStore, HoldsSet, Committed, WriteTmp, memory, locks
    <2>2. CASE p # o
      <3>1. OpOK(p, op[p]) /\ op'[p] = op[p]
        BY <1>4, <1>6, <2>2 DEF AccountInv, UnderWay
      <3>2. ~HoldsSet(op[p])
        BY <1>1, <2>2, <3>1 DEF OpOK, HoldsSet
      <3> QED BY <3>1, <3>2 DEF OpOK, HoldsSet, WriteTmp, memory, locks
    <2> QED BY <2>1, <2>2
  <1>7. AgreeInv'
    BY <1>1, <1>2, <1>4 DEF AccountInv, AgreeInv, UnderWay, Committed, At, WriteTmp, memory, locks
  <1> QED BY <1>5, <1>6, <1>7 DEF AccountInv

LEMMA RenameKeeps ==
    ASSUME AccountInv, UniqueNames, NEW o \in Operators, Rename(o)
    PROVE  AccountInv' /\ file' = With(file, op[o].name, op[o].turnOff)
  <1>1. op[o] \in Op /\ op[o].at = "renaming" /\ OpOK(o, op[o])
    BY AtOp DEF Rename
  <1> DEFINE y == [op[o] EXCEPT !.at = "adopting"]
  <1>2. y \in Op /\ y.at = "adopting" /\ y.entry = op[o].entry /\ y.name = op[o].name
        /\ y.turnOff = op[o].turnOff /\ y.next = op[o].next
    BY <1>1 DEF Op, Steps
  <1>3. op' = [op EXCEPT ![o] = y]
    BY DEF Rename, Goto
  <1> HIDE DEF y
  <1>4. /\ op' = [p \in Operators |-> op'[p]] /\ op'[o] = y
        /\ \A p \in Operators : p # o => op'[p] = op[p]
        /\ op' \in [Operators -> Op \cup {NoOp}]
    BY <1>2, <1>3, OneMoves
  <1>5. names = file
    <2>1. setMu = o /\ \A p \in Operators : p = o => ~At(p, "adopting")
      BY <1>1 DEF OpOK, HoldsSet, At
    <2> QED BY <2>1, NamesInFile
  <1>6. file' = With(file, op[o].name, op[o].turnOff)
    BY <1>1, <1>5 DEF OpOK, Rename
  <1>7. op[o].entry \in Entries /\ NameOf[op[o].entry] = op[o].name /\ op[o].turnOff \in BOOLEAN
    BY <1>1 DEF OpOK, HoldsStore, Op
  <1>8. op[o].name \in file' <=> op[o].turnOff
    BY <1>6, <1>7 DEF With
  <1>9. \A n : n # op[o].name => (n \in file' <=> n \in file)
    BY <1>6 DEF With
  <1>10. AccountTypeOK'
    BY <1>1, <1>4, AccountAssumption DEF AccountInv, AccountTypeOK, Rename, memory, locks, OpOK, Op
  <1>11. ASSUME NEW p \in Operators, UnderWay(p)' PROVE OpOK(p, op[p])'
    <2>1. CASE p = o
      BY <1>1, <1>2, <1>4, <1>8, <2>1 DEF OpOK, HoldsStore, HoldsSet, Committed, Rename, memory, locks
    <2>2. CASE p # o
      <3>1. OpOK(p, op[p]) /\ op'[p] = op[p] /\ UnderWay(p)
        BY <1>4, <1>11, <2>2 DEF AccountInv, UnderWay
      <3>2. ~HoldsSet(op[p])
        BY <1>1, <2>2, <3>1 DEF OpOK, HoldsSet
      <3>3. Committed(op[p]) => op[p].name # op[o].name
        BY <1>1, <2>2, <3>1, OneHolder, AtOp DEF Committed, HoldsStore, Rename
      <3> QED BY <1>9, <3>1, <3>2, <3>3 DEF OpOK, HoldsSet, Rename, memory, locks
    <2> QED BY <2>1, <2>2
  <1>12. AgreeInv'
    <2>1. file' \subseteq Known
      BY <1>6, <1>7 DEF With, Known, AccountInv, AgreeInv
    <2>2. (\A p \in Operators : ~At(p, "adopting"))' => (names = file)'
      <3>1. At(o, "adopting")'
        BY <1>2, <1>4, OpFields DEF At
      <3> QED BY <3>1
    <2>3. ASSUME NEW e \in Entries,
                 (\A p \in Operators : UnderWay(p) /\ Committed(op[p]) => op[p].entry # e)'
          PROVE  disabled'[e] <=> NameOf[e] \in file'
      <3>1. e # op[o].entry
        BY <1>2, <1>4, <2>3, OpFields DEF UnderWay, Committed
      <3>2. NameOf[e] # op[o].name
        BY <1>7, <3>1 DEF UniqueNames
      <3>3. \A p \in Operators : UnderWay(p) /\ Committed(op[p]) => op[p].entry # e
        BY <1>1, <1>4, <2>3 DEF UnderWay, Committed
      <3> QED BY <1>9, <3>2, <3>3 DEF AccountInv, AgreeInv, Rename, memory
    <2> QED BY <2>1, <2>2, <2>3 DEF AgreeInv
  <1> QED BY <1>6, <1>10, <1>11, <1>12 DEF AccountInv

LEMMA WriteFailsKeeps ==
    ASSUME AccountInv, UniqueNames, NEW o \in Operators, WriteFails(o) PROVE AccountInv'
  <1>1. op[o] \in Op /\ op[o].at \in {"writing", "renaming"} /\ OpOK(o, op[o])
    BY AtOp DEF WriteFails
  <1> DEFINE y == [op[o] EXCEPT !.at = "refused"]
  <1>2. y \in Op /\ y.at = "refused"
    BY <1>1 DEF Op, Steps
  <1>3. op' = [op EXCEPT ![o] = y]
    BY DEF WriteFails, Goto
  <1> HIDE DEF y
  <1>4. /\ op' = [p \in Operators |-> op'[p]] /\ op'[o] = y
        /\ \A p \in Operators : p # o => op'[p] = op[p]
        /\ op' \in [Operators -> Op \cup {NoOp}]
    BY <1>2, <1>3, OneMoves
  <1>5. AccountTypeOK'
    BY <1>4 DEF AccountInv, AccountTypeOK, WriteFails, memory, FreeStore
  <1>6. ASSUME NEW p \in Operators, UnderWay(p)' PROVE OpOK(p, op[p])'
    <2>1. CASE p = o
      BY <1>2, <1>4, <2>1 DEF OpOK, HoldsStore, HoldsSet, Committed
    <2>2. CASE p # o
      <3>1. OpOK(p, op[p]) /\ op'[p] = op[p] /\ UnderWay(p)
        BY <1>4, <1>6, <2>2 DEF AccountInv, UnderWay
      <3>2. ~HoldsSet(op[p])
        BY <1>1, <2>2, <3>1 DEF OpOK, HoldsSet
      <3>3. HoldsStore(op[p]) => storeMu'[StoreOf[op[p].entry]] = p
        BY <1>1, <2>2, <3>1, AccountAssumption
           DEF OpOK, HoldsStore, WriteFails, FreeStore, Store, AccountInv, AccountTypeOK
      <3> QED BY <3>1, <3>2, <3>3 DEF OpOK, HoldsSet, WriteFails, memory
    <2> QED BY <2>1, <2>2
  <1>7. AgreeInv'
    BY <1>1, <1>4 DEF AccountInv, AgreeInv, UnderWay, Committed, At, WriteFails, memory
  <1> QED BY <1>5, <1>6, <1>7 DEF AccountInv

LEMMA AdoptKeeps == ASSUME AccountInv, NEW o \in Operators, Adopt(o) PROVE AccountInv'
  <1>1. op[o] \in Op /\ op[o].at = "adopting" /\ OpOK(o, op[o])
    BY AtOp DEF Adopt
  <1> DEFINE y == [op[o] EXCEPT !.at = "applying", !.next = {}]
  <1>2. y \in Op /\ y.at = "applying" /\ y.entry = op[o].entry /\ y.name = op[o].name
        /\ y.turnOff = op[o].turnOff
    BY <1>1 DEF Op, Steps
  <1>3. op' = [op EXCEPT ![o] = y]
    BY DEF Adopt
  <1> HIDE DEF y
  <1>4. /\ op' = [p \in Operators |-> op'[p]] /\ op'[o] = y
        /\ \A p \in Operators : p # o => op'[p] = op[p]
        /\ op' \in [Operators -> Op \cup {NoOp}]
    BY <1>2, <1>3, OneMoves
  <1>5. names' = file
    BY <1>1 DEF OpOK, Adopt
  <1>6. AccountTypeOK'
    BY <1>4, <1>5 DEF AccountInv, AccountTypeOK, Adopt, disk
  <1>7. ASSUME NEW p \in Operators, UnderWay(p)' PROVE OpOK(p, op[p])'
    <2>1. CASE p = o
      BY <1>1, <1>2, <1>4, <2>1 DEF OpOK, HoldsStore, HoldsSet, Committed, Adopt, disk
    <2>2. CASE p # o
      <3>1. OpOK(p, op[p]) /\ op'[p] = op[p]
        BY <1>4, <1>7, <2>2 DEF AccountInv, UnderWay
      <3>2. ~HoldsSet(op[p])
        BY <1>1, <2>2, <3>1 DEF OpOK, HoldsSet
      <3> QED BY <3>1, <3>2 DEF OpOK, HoldsSet, Adopt, disk
    <2> QED BY <2>1, <2>2
  <1>8. AgreeInv'
    <2>1. ASSUME NEW e \in Entries,
                 (\A p \in Operators : UnderWay(p) /\ Committed(op[p]) => op[p].entry # e)'
          PROVE  disabled'[e] <=> NameOf[e] \in file'
      <3>1. op[o].entry # e
        BY <1>2, <1>4, <2>1, OpFields DEF UnderWay, Committed
      <3>2. \A p \in Operators : UnderWay(p) /\ Committed(op[p]) => op[p].entry # e
        BY <1>4, <2>1, <3>1 DEF UnderWay, Committed
      <3> QED BY <3>2 DEF AccountInv, AgreeInv, Adopt, disk
    <2> QED BY <1>5, <2>1 DEF AccountInv, AgreeInv, Adopt, disk
  <1> QED BY <1>6, <1>7, <1>8 DEF AccountInv

LEMMA ApplyKeeps ==
    ASSUME AccountInv, UniqueNames, NEW o \in Operators, Apply(o) PROVE AccountInv'
  <1>1. op[o] \in Op /\ op[o].at = "applying" /\ OpOK(o, op[o])
    BY AtOp DEF Apply
  <1> DEFINE y == [op[o] EXCEPT !.at = "done"]
  <1>2. y \in Op /\ y.at = "done"
    BY <1>1 DEF Op, Steps
  <1>3. op' = [op EXCEPT ![o] = y]
    BY DEF Apply, Goto
  <1> HIDE DEF y
  <1>4. /\ op' = [p \in Operators |-> op'[p]] /\ op'[o] = y
        /\ \A p \in Operators : p # o => op'[p] = op[p]
        /\ op' \in [Operators -> Op \cup {NoOp}]
    BY <1>2, <1>3, OneMoves
  <1>5. AccountTypeOK'
    BY <1>1, <1>4 DEF AccountInv, AccountTypeOK, Apply, disk, FreeStore, Op
  <1>6. ASSUME NEW p \in Operators, UnderWay(p)' PROVE OpOK(p, op[p])'
    <2>1. CASE p = o
      BY <1>2, <1>4, <2>1 DEF OpOK, HoldsStore, HoldsSet, Committed
    <2>2. CASE p # o
      <3>1. OpOK(p, op[p]) /\ op'[p] = op[p] /\ UnderWay(p)
        BY <1>4, <1>6, <2>2 DEF AccountInv, UnderWay
      <3>2. HoldsStore(op[p]) => storeMu'[StoreOf[op[p].entry]] = p
        BY <1>1, <2>2, <3>1, AccountAssumption
           DEF OpOK, HoldsStore, Apply, FreeStore, Store, AccountInv, AccountTypeOK
      <3> QED BY <3>1, <3>2 DEF OpOK, Apply, disk
    <2> QED BY <2>1, <2>2
  <1>7. AgreeInv'
    <2>1. ASSUME NEW e \in Entries,
                 (\A p \in Operators : UnderWay(p) /\ Committed(op[p]) => op[p].entry # e)'
          PROVE  disabled'[e] <=> NameOf[e] \in file'
      <3>1. CASE e = op[o].entry
        BY <1>1, <3>1 DEF OpOK, HoldsStore, Committed, Apply, disk, AccountInv, AccountTypeOK
      <3>2. CASE e # op[o].entry
        <4>1. \A p \in Operators : UnderWay(p) /\ Committed(op[p]) => op[p].entry # e
          BY <1>4, <2>1, <3>2 DEF UnderWay, Committed
        <4>2. disabled'[e] = disabled[e] /\ file' = file
          BY <3>2 DEF Apply, disk, AccountInv, AccountTypeOK
        <4> QED BY <4>1, <4>2 DEF AccountInv, AgreeInv
      <3> QED BY <3>1, <3>2
    <2>2. (\A p \in Operators : ~At(p, "adopting"))' => \A p \in Operators : ~At(p, "adopting")
      BY <1>1, <1>4 DEF At
    <2> QED BY <2>1, <2>2 DEF AccountInv, AgreeInv, Apply, disk
  <1> QED BY <1>5, <1>6, <1>7 DEF AccountInv

LEMMA RestartKeeps == ASSUME AccountInv, Restart PROVE AccountInv'
  <1>1. names' = file /\ disabled' = Loaded(file) /\ storeMu' = NobodyHolds /\ setMu' = NoOne
        /\ op' = [o \in Operators |-> NoOp] /\ file' = file /\ tmp' = tmp
    BY DEF Restart, disk
  <1>2. AccountTypeOK'
    BY <1>1 DEF AccountInv, AccountTypeOK, Loaded, NobodyHolds
  <1>3. AgreeInv'
    BY <1>1 DEF AccountInv, AgreeInv, Loaded
  <1> QED BY <1>1, <1>2, <1>3 DEF AccountInv, UnderWay

LEMMA StepKeepsAccount ==
    ASSUME UniqueNames, AccountInv, [Next]_accountVars PROVE AccountInv'
  <1>1. ASSUME NEW o \in Operators, Ask(o) \/ Handle(o) PROVE AccountInv'
    BY <1>1, AskKeeps, MissKeeps, HitKeeps, NotFoundKeeps, AlreadySetKeeps, ComputeKeeps, WriteTmpKeeps,
       RenameKeeps, WriteFailsKeeps, AdoptKeeps, ApplyKeeps, AnswerKeeps DEF Handle
  <1>2. CASE Restart
    BY <1>2, RestartKeeps
  <1>3. CASE UNCHANGED accountVars
    BY <1>3 DEF accountVars, memory, disk, locks, AccountInv, AccountTypeOK, AgreeInv, UnderWay, OpOK, At
  <1> QED BY <1>1, <1>2, <1>3 DEF Next

(***************************************************************************)
(* Memory and file differ only on accounts whose change is under way: an   *)
(* answered change is the one a restart finds (SetEnabled, DisabledSet).   *)
(***************************************************************************)
THEOREM AnsweredChangesAreSaved == ASSUME UniqueNames PROVE Spec => []SettledIsSaved
  <1>1. AccountInv => SettledIsSaved
    <2> SUFFICES ASSUME AccountInv, NEW e \in Entries,
                        \A o \in Operators : UnderWay(o) => op[o].name # NameOf[e]
                 PROVE  disabled[e] = (NameOf[e] \in file)
      BY DEF SettledIsSaved, UnderWay
    <2>1. \A o \in Operators : UnderWay(o) /\ Committed(op[o]) => op[o].entry # e
      BY DEF AccountInv, OpOK, Committed, HoldsStore
    <2>2. disabled[e] <=> NameOf[e] \in file
      BY <2>1 DEF AccountInv, AgreeInv
    <2>3. disabled[e] \in BOOLEAN
      BY DEF AccountInv, AccountTypeOK
    <2> QED BY <2>2, <2>3
  <1> QED BY <1>1, InitAccount, StepKeepsAccount, PTL DEF Spec

-----------------------------------------------------------------------------
(***************************************************************************)
(* The refinement.  Enforced and Asked are what the mapping makes of the   *)
(* entries and of the requests; a request that moves moves alone there.    *)
(***************************************************************************)
Enforced == {NameOf[e] : e \in {d \in Entries : disabled[d]}}
View(x) == IF x = NoOp THEN [phase |-> "idle"]
           ELSE [phase |-> Phase(x.at), name |-> x.name, turnOff |-> x.turnOff]
Asked == [o \in Operators |-> View(op[o])]

Phases == {"asked", "committed", "done", "refused"}

LEMMA Phased ==
    ASSUME NEW x \in Op
    PROVE  /\ View(x) = [phase |-> Phase(x.at), name |-> x.name, turnOff |-> x.turnOff]
           /\ Phase(x.at) \in Phases
           /\ Phase(x.at) = "committed" <=> Committed(x)
           /\ Committed(x) => HoldsStore(x)
  BY OpFields DEF View, Phase, Phases, Op, Steps, Committed, HoldsStore

LEMMA Maps ==
    ASSUME AccountInv, NEW o \in Operators, NEW y, op' = [op EXCEPT ![o] = y]
    PROVE  Asked' = [Asked EXCEPT ![o] = View(y)]
  <1>1. op' = [p \in Operators |-> op'[p]] /\ op'[o] = y
        /\ \A p \in Operators : p # o => op'[p] = op[p]
    BY OneMoves
  <1> QED BY <1>1 DEF Asked

\* Advance of Switches: x gets to y, in another phase.
LEMMA Advances ==
    ASSUME AccountInv, NEW o \in Operators, NEW step \in Steps, op[o] \in Op, NEW y \in Op,
           op' = [op EXCEPT ![o] = y], y.at = step, y.name = op[o].name, y.turnOff = op[o].turnOff
    PROVE  Asked' = [Asked EXCEPT ![o].phase = Phase(step)]
  <1>1. Asked' = [Asked EXCEPT ![o] = View(y)]
    BY Maps
  <1>2. Asked[o] = [phase |-> Phase(op[o].at), name |-> op[o].name, turnOff |-> op[o].turnOff]
    BY Phased DEF Asked
  <1>3. View(y) = [phase |-> Phase(step), name |-> op[o].name, turnOff |-> op[o].turnOff]
    BY Phased
  <1>4. View(y) = [Asked[o] EXCEPT !.phase = Phase(step)]
    BY <1>2, <1>3
  <1> QED BY <1>1, <1>4

LEMMA SamePhase ==
    ASSUME AccountInv, NEW o \in Operators, op[o] \in Op, NEW y \in Op, op' = [op EXCEPT ![o] = y],
           Phase(y.at) = Phase(op[o].at), y.name = op[o].name, y.turnOff = op[o].turnOff
    PROVE  Asked' = Asked
  <1>1. Asked' = [Asked EXCEPT ![o] = View(y)]
    BY Maps
  <1>2. View(y) = Asked[o]
    BY Phased DEF Asked
  <1> QED BY <1>1, <1>2 DEF Asked

LEMMA MappedInit == Init => Promise!Init
  <1> SUFFICES ASSUME Init PROVE Promise!Init OBVIOUS
  <1>1. file \in SUBSET Known /\ disabled = Loaded(file) /\ op = [o \in Operators |-> NoOp]
    BY DEF Init
  <1>2. Enforced = file
    BY <1>1 DEF Enforced, Loaded, Known
  <1> QED BY <1>1, <1>2, AccountAssumption DEF Promise!Init, Promise!NoSwitch, Enforced

LEMMA MappedAsk ==
    ASSUME AccountInv, NEW o \in Operators, Ask(o) PROVE Promise!Ask(o)
  <1>1. PICK name \in Names, turnOff \in BOOLEAN :
          op' = [op EXCEPT ![o] = [at |-> "looking", name |-> name, turnOff |-> turnOff,
                                   left |-> Stores, entry |-> 0, next |-> {}]]
    BY DEF Ask
  <1> DEFINE y == [at |-> "looking", name |-> name, turnOff |-> turnOff,
                   left |-> Stores, entry |-> 0, next |-> {}]
  <1>2. y \in Op /\ y.at = "looking" /\ y.name = name /\ y.turnOff = turnOff
    BY DEF Op, Steps
  <1>3. op' = [op EXCEPT ![o] = y]
    BY <1>1
  <1> HIDE DEF y
  <1>4. Asked' = [Asked EXCEPT ![o] = [phase |-> "asked", name |-> name, turnOff |-> turnOff]]
    BY <1>2, <1>3, Maps, Phased DEF Phase
  <1>5. Asked[o] = [phase |-> "idle"]
    BY DEF Ask, Asked, View
  <1>6. UNCHANGED <<file, Enforced>>
    BY DEF Ask, memory, disk, Enforced
  <1> QED BY <1>4, <1>5, <1>6, Zenon
       DEF Promise!Ask, Promise!NoSwitch, Promise!Switch, Asked, View, Enforced

\* Asked at o, while the request is at one of its places.
LEMMA AskedAt ==
    ASSUME AccountInv, NEW o \in Operators, NEW step \in Steps, At(o, step)
    PROVE  /\ op[o] \in Op /\ op[o].at = step
           /\ Asked[o].phase = Phase(step) /\ Asked[o].name = op[o].name
           /\ Asked[o].turnOff = op[o].turnOff
  <1>1. op[o] \in Op /\ op[o].at = step
    BY AtOp
  <1> QED BY <1>1, Phased DEF Asked

LEMMA MappedStutter ==
    ASSUME AccountInv, NEW o \in Operators,
           Miss(o) \/ Hit(o) \/ Compute(o) \/ WriteTmp(o) \/ Adopt(o)
    PROVE  UNCHANGED <<file, Enforced, Asked>>
  <1>1. UNCHANGED <<file, disabled>>
    BY DEF Miss, Hit, Compute, WriteTmp, Adopt, memory, disk
  <1>2. CASE Miss(o)
    <2>1. PICK s \in op[o].left : op' = [op EXCEPT ![o].left = @ \ {s}]
      BY <1>2 DEF Miss
    <2> DEFINE y == [op[o] EXCEPT !.left = @ \ {s}]
    <2>2. op[o] \in Op
      BY <1>2, AtOp DEF Miss
    <2>3. y \in Op /\ y.at = op[o].at /\ y.name = op[o].name /\ y.turnOff = op[o].turnOff
      BY <2>2 DEF Op
    <2>4. op' = [op EXCEPT ![o] = y]
      BY <2>1
    <2> HIDE DEF y
    <2> QED BY <1>1, <2>2, <2>3, <2>4, SamePhase DEF Enforced
  <1>3. CASE Hit(o)
    <2>1. PICK e : op' = [op EXCEPT ![o].at = "locking", ![o].left = {}, ![o].entry = e]
      BY <1>3 DEF Hit
    <2> DEFINE y == [op[o] EXCEPT !.at = "locking", !.left = {}, !.entry = e]
    <2>2. op[o] \in Op /\ op[o].at = "looking"
      BY <1>3, AtOp DEF Hit
    <2>3. y # NoOp /\ y.at = "locking" /\ y.name = op[o].name /\ y.turnOff = op[o].turnOff
      BY <2>2 DEF Op, NoOp
    <2>4. op' = [op EXCEPT ![o] = y]
      BY <2>1
    <2> HIDE DEF y
    <2>5. Asked' = [Asked EXCEPT ![o] = View(y)]
      BY <2>4, Maps
    <2>6. View(y) = Asked[o]
      BY <2>2, <2>3, Phased DEF View, Asked, Phase
    <2> QED BY <1>1, <2>5, <2>6 DEF Enforced, Asked
  <1>4. CASE Compute(o)
    <2> DEFINE y == [op[o] EXCEPT !.at = "writing", !.next = With(names, op[o].name, op[o].turnOff)]
    <2>1. op[o] \in Op /\ op[o].at = "locking"
      BY <1>4, AtOp DEF Compute
    <2>2. y \in Op /\ y.at = "writing" /\ y.name = op[o].name /\ y.turnOff = op[o].turnOff
      BY <2>1 DEF Op, Steps, With, AccountInv, AccountTypeOK
    <2>3. op' = [op EXCEPT ![o] = y]
      BY <1>4 DEF Compute
    <2> HIDE DEF y
    <2> QED BY <1>1, <2>1, <2>2, <2>3, SamePhase DEF Enforced, Phase
  <1>5. CASE WriteTmp(o)
    <2> DEFINE y == [op[o] EXCEPT !.at = "renaming"]
    <2>1. op[o] \in Op /\ op[o].at = "writing"
      BY <1>5, AtOp DEF WriteTmp
    <2>2. y \in Op /\ y.at = "renaming" /\ y.name = op[o].name /\ y.turnOff = op[o].turnOff
      BY <2>1 DEF Op, Steps
    <2>3. op' = [op EXCEPT ![o] = y]
      BY <1>5 DEF WriteTmp, Goto
    <2> HIDE DEF y
    <2> QED BY <1>1, <2>1, <2>2, <2>3, SamePhase DEF Enforced, Phase
  <1>6. CASE Adopt(o)
    <2> DEFINE y == [op[o] EXCEPT !.at = "applying", !.next = {}]
    <2>1. op[o] \in Op /\ op[o].at = "adopting"
      BY <1>6, AtOp DEF Adopt
    <2>2. y \in Op /\ y.at = "applying" /\ y.name = op[o].name /\ y.turnOff = op[o].turnOff
      BY <2>1 DEF Op, Steps
    <2>3. op' = [op EXCEPT ![o] = y]
      BY <1>6 DEF Adopt
    <2> HIDE DEF y
    <2> QED BY <1>1, <2>1, <2>2, <2>3, SamePhase DEF Enforced, Phase
  <1> QED BY <1>2, <1>3, <1>4, <1>5, <1>6

\* A request that goes from one place to another and keeps the rest.
LEMMA MappedGoto ==
    ASSUME AccountInv, NEW o \in Operators, op[o] \in Op, NEW step \in Steps, Goto(o, step)
    PROVE  Asked' = [Asked EXCEPT ![o].phase = Phase(step)]
  <1> DEFINE y == [op[o] EXCEPT !.at = step]
  <1>1. y \in Op /\ y.at = step /\ y.name = op[o].name /\ y.turnOff = op[o].turnOff
    BY DEF Op
  <1>2. op' = [op EXCEPT ![o] = y]
    BY DEF Goto
  <1> HIDE DEF y
  <1> QED BY <1>1, <1>2, Advances

LEMMA MappedCommit ==
    ASSUME UniqueNames, AccountInv, NEW o \in Operators, AlreadySet(o) \/ Rename(o)
    PROVE  Promise!Commit(o)
  <1>1. /\ op[o] \in Op /\ OpOK(o, op[o]) /\ UnderWay(o)
        /\ op[o].at \in {"locking", "renaming"}
    BY AtOp DEF AlreadySet, Rename
  <1>2. Asked[o].phase = "asked" /\ Asked[o].name = op[o].name /\ Asked[o].turnOff = op[o].turnOff
    BY <1>1, Phased DEF Asked, Phase
  <1>3. ASSUME NEW p \in Operators, Asked[p].phase = "committed" PROVE Asked[p].name # Asked[o].name
    <2>1. op[p] \in Op /\ UnderWay(p)
      BY <1>3 DEF Asked, View, UnderWay, AccountInv, AccountTypeOK
    <2>2. Asked[p].name = op[p].name /\ Committed(op[p])
      BY <1>3, <2>1, Phased DEF Asked
    <2>3. HoldsStore(op[o]) /\ HoldsStore(op[p]) /\ p # o
      BY <1>1, <2>2 DEF HoldsStore, Committed
    <2> QED BY <1>1, <1>2, <2>1, <2>2, <2>3, OneHolder
  <1>4. file' = With(file, op[o].name, op[o].turnOff)
    <2>1. CASE Rename(o)
      BY <2>1, RenameKeeps
    <2>2. CASE AlreadySet(o)
      <3>1. names = file
        BY <2>2, NamesInFile, AccountAssumption DEF AlreadySet
      <3> QED BY <2>2, <3>1 DEF AlreadySet, disk, With
    <2> QED BY <2>1, <2>2
  <1>5. Asked' = [Asked EXCEPT ![o].phase = "committed"]
    BY <1>1, MappedGoto DEF AlreadySet, Rename, Phase, Steps
  <1>6. UNCHANGED Enforced
    BY DEF AlreadySet, Rename, memory, Enforced
  <1> HIDE DEF With
  <1> QED BY <1>2, <1>3, <1>4, <1>5, <1>6
       DEF Promise!Commit, Promise!Advance, Promise!With, Asked, View, Enforced, With

LEMMA MappedEnforce ==
    ASSUME UniqueNames, AccountInv, NEW o \in Operators, Apply(o) PROVE Promise!Enforce(o)
  <1>1. op[o] \in Op /\ op[o].at = "applying" /\ OpOK(o, op[o])
    BY AtOp DEF Apply
  <1>2. Asked[o].phase = "committed" /\ Asked[o].name = op[o].name /\ Asked[o].turnOff = op[o].turnOff
    BY <1>1, Phased DEF Asked, Phase
  <1>3. Asked' = [Asked EXCEPT ![o].phase = "done"]
    BY <1>1, MappedGoto DEF Apply, Phase, Steps
  <1>4. Enforced' = With(Enforced, op[o].name, op[o].turnOff)
    <2>1. op[o].entry \in Entries /\ NameOf[op[o].entry] = op[o].name /\ op[o].turnOff \in BOOLEAN
      BY <1>1 DEF OpOK, HoldsStore, Op
    <2>2. disabled' = [disabled EXCEPT ![op[o].entry] = op[o].turnOff] /\ DOMAIN disabled = Entries
      BY DEF Apply, AccountInv, AccountTypeOK
    <2>3. \A e \in Entries : disabled'[e] <=> IF NameOf[e] = op[o].name THEN op[o].turnOff ELSE disabled[e]
      BY <2>1, <2>2 DEF UniqueNames
    <2>4. CASE op[o].turnOff
      BY <2>1, <2>3, <2>4 DEF Enforced, With
    <2>5. CASE ~op[o].turnOff
      BY <2>1, <2>3, <2>5 DEF Enforced, With
    <2> QED BY <2>4, <2>5
  <1>5. UNCHANGED file
    BY DEF Apply, disk
  <1> QED BY <1>2, <1>3, <1>4, <1>5
       DEF Promise!Enforce, Promise!Advance, Promise!With, Asked, View, Enforced, With

LEMMA MappedRefuse ==
    ASSUME AccountInv, NEW o \in Operators, NotFound(o) \/ WriteFails(o) PROVE Promise!Refuse(o)
  <1>1. op[o] \in Op /\ op[o].at \in {"looking", "writing", "renaming"}
    BY AtOp DEF NotFound, WriteFails
  <1>2. Asked[o].phase = "asked"
    BY <1>1, Phased DEF Asked, Phase
  <1>3. Asked' = [Asked EXCEPT ![o].phase = "refused"]
    BY <1>1, MappedGoto DEF NotFound, WriteFails, Phase, Steps
  <1>4. UNCHANGED <<file, Enforced>>
    BY DEF NotFound, WriteFails, memory, disk, Enforced
  <1> QED BY <1>2, <1>3, <1>4 DEF Promise!Refuse, Promise!Advance, Asked, View, Enforced

LEMMA MappedAnswer ==
    ASSUME AccountInv, NEW o \in Operators, Answer(o) PROVE Promise!Answer(o)
  <1>1. op[o] \in Op /\ op[o].at \in {"done", "refused"}
    BY AtOp DEF Answer
  <1>2. Asked[o].phase \in {"done", "refused"}
    BY <1>1, Phased DEF Asked, Phase
  <1>3. Asked' = [Asked EXCEPT ![o] = [phase |-> "idle"]]
    BY Maps DEF Answer, View
  <1>4. UNCHANGED <<file, Enforced>>
    BY DEF Answer, memory, disk, Enforced
  <1> QED BY <1>2, <1>3, <1>4 DEF Promise!Answer, Promise!NoSwitch, Asked, View, Enforced

LEMMA MappedRestart == ASSUME AccountInv, Restart PROVE Promise!Restart
  <1>1. disabled' = Loaded(file) /\ op' = [o \in Operators |-> NoOp] /\ file' = file
    BY DEF Restart, disk
  <1>2. Enforced' = file
    BY <1>1 DEF Enforced, Loaded, Known, AccountInv, AgreeInv
  <1> QED BY <1>1, <1>2 DEF Promise!Restart, Promise!NoSwitch, Enforced

(***************************************************************************)
(* SetEnabled and DisabledSet do what Switches promises: a change becomes  *)
(* durable at one instant, is answered once enforced, and a refused one    *)
(* leaves no trace, through failed writes and crashes.                     *)
(***************************************************************************)
THEOREM SwitchesImplemented == ASSUME UniqueNames PROVE Spec => ImplementsSwitches
  <1>1. ASSUME AccountInv, [Next]_accountVars PROVE [Promise!Next]_(Promise!vars)
    <2>1. ASSUME NEW o \in Operators, Ask(o) PROVE Promise!Next
      BY <1>1, <2>1, MappedAsk DEF Promise!Next
    <2>2. ASSUME NEW o \in Operators, Handle(o) PROVE Promise!Next \/ UNCHANGED <<file, Enforced, Asked>>
      BY <1>1, <2>2, MappedStutter, MappedCommit, MappedEnforce, MappedRefuse, MappedAnswer
         DEF Handle, Promise!Next
    <2>3. CASE Restart
      BY <1>1, <2>3, MappedRestart DEF Promise!Next
    <2>4. ASSUME UNCHANGED accountVars PROVE UNCHANGED <<file, Enforced, Asked>>
      BY <2>4 DEF accountVars, memory, disk, Enforced, Asked
    <2> QED BY <1>1, <2>1, <2>2, <2>3, <2>4 DEF Next, Promise!vars, Enforced, Asked, View
  <1> QED BY <1>1, MappedInit, InitAccount, StepKeepsAccount, PTL
       DEF Spec, ImplementsSwitches, Promise!Spec
================================================================================
