----------------------------- MODULE AccountState -----------------------------
(***************************************************************************)
(* Switching accounts on and off at runtime: handleSetAccount walks the    *)
(* provider stores, Store.SetEnabled changes the first entry of that name  *)
(* under the store's mutex, and credential.DisabledSet, shared by all the  *)
(* stores, writes the choice to disabled.json first (temporary file, then  *)
(* rename).  Writes may fail and the process may die between any two steps.*)
(***************************************************************************)
EXTENDS Integers

CONSTANTS
    N,          \* entries, over all the stores
    Stores,
    StoreOf,    \* the store of each entry; an entry's number orders it in its store
    NameOf,     \* the name of each entry: "cred-<index>" unless configured
    Names,      \* the names an operator may give, those of the entries among them
    Operators,  \* admin requests that may be under way at once
    NoOne,      \* a mutex nobody holds
    NoFile      \* the temporary file does not exist, or its content is cut off

Entries == 1..N
Known == {NameOf[e] : e \in Entries}

ASSUME AccountAssumption ==
    /\ N \in Nat \ {0}
    /\ \A e \in Entries : StoreOf[e] \in Stores
    /\ Known \subseteq Names
    /\ NoOne \notin Operators
    /\ \A S \in SUBSET Names : S # NoFile

VARIABLES
    disabled,   \* entry.disabled
    names,      \* DisabledSet.names
    file, tmp,  \* disabled.json and disabled.json.tmp
    storeMu,    \* who holds each Store.mu
    setMu,      \* who holds DisabledSet.mu
    op          \* per operator: the request under way

memory == <<disabled, names>>
disk == <<file, tmp>>
locks == <<storeMu, setMu>>
accountVars == <<memory, disk, locks, op>>

Steps == {"looking", "locking", "writing", "renaming", "adopting", "applying", "done", "refused"}
NoOp == [at |-> "idle"]
Op == [at : Steps, name : Names, turnOff : BOOLEAN, left : SUBSET Stores,
       entry : Entries \cup {0}, next : SUBSET Names]

AccountTypeOK ==
    /\ disabled \in [Entries -> BOOLEAN]
    /\ names \in SUBSET Names
    /\ file # NoFile /\ file \in SUBSET Names
    /\ tmp = NoFile \/ tmp \in SUBSET Names
    /\ storeMu \in [Stores -> Operators \cup {NoOne}]
    /\ setMu \in Operators \cup {NoOne}
    /\ op \in [Operators -> Op \cup {NoOp}]

\* LoadDisabledSet, and NewStore for each provider.
Loaded(saved) == [e \in Entries |-> NameOf[e] \in saved]
NobodyHolds == [s \in Stores |-> NoOne]

\* A name left in the file by an account no longer configured concerns no entry.
Init ==
    /\ file \in SUBSET Known
    /\ tmp = NoFile
    /\ names = file
    /\ disabled = Loaded(file)
    /\ storeMu = NobodyHolds
    /\ setMu = NoOne
    /\ op = [o \in Operators |-> NoOp]

-----------------------------------------------------------------------------
At(o, step) == op[o] # NoOp /\ op[o].at = step
Goto(o, step) == op' = [op EXCEPT ![o].at = step]
Store(o) == StoreOf[op[o].entry]
FreeStore(s) == storeMu' = [storeMu EXCEPT ![s] = NoOne]
With(set, name, in) == IF in THEN set \cup {name} ELSE set \ {name}

\* The first entry of that name in the store, if there is one.
Matches(s, name) == {e \in Entries : StoreOf[e] = s /\ NameOf[e] = name}
First(s, name) == CHOOSE e \in Matches(s, name) : \A d \in Matches(s, name) : e <= d

Ask(o) ==
    /\ op[o] = NoOp
    /\ \E name \in Names, turnOff \in BOOLEAN :
         op' = [op EXCEPT ![o] = [at |-> "looking", name |-> name, turnOff |-> turnOff,
                                  left |-> Stores, entry |-> 0, next |-> {}]]
    /\ UNCHANGED <<memory, disk, locks>>

\* The range over the map of stores takes any that is left.
Miss(o) ==
    /\ At(o, "looking")
    /\ \E s \in op[o].left :
         /\ storeMu[s] = NoOne
         /\ Matches(s, op[o].name) = {}
         /\ op' = [op EXCEPT ![o].left = @ \ {s}]
    /\ UNCHANGED <<memory, disk, locks>>

Hit(o) ==
    /\ At(o, "looking")
    /\ \E s \in op[o].left :
         /\ storeMu[s] = NoOne
         /\ Matches(s, op[o].name) # {}
         /\ storeMu' = [storeMu EXCEPT ![s] = o]
         /\ op' = [op EXCEPT ![o].at = "locking", ![o].left = {},
                                ![o].entry = First(s, op[o].name)]
    /\ UNCHANGED <<memory, disk, setMu>>

\* 404: no store has the name.
NotFound(o) ==
    /\ At(o, "looking")
    /\ op[o].left = {}
    /\ Goto(o, "refused")
    /\ UNCHANGED <<memory, disk, locks>>

\* DisabledSet.Set: the set already says so, nothing to write.
AlreadySet(o) ==
    /\ At(o, "locking")
    /\ setMu = NoOne
    /\ (op[o].name \in names) = op[o].turnOff
    /\ Goto(o, "applying")
    /\ UNCHANGED <<memory, disk, locks>>

\* Mutant: the next set is computed before DisabledSet.mu is taken.
ComputeUnlocked(o) ==
    /\ At(o, "locking")
    /\ (op[o].name \in names) # op[o].turnOff
    /\ setMu' = o
    /\ op' = [op EXCEPT ![o].at = "writing", ![o].next = With(names, op[o].name, op[o].turnOff)]
    /\ UNCHANGED <<memory, disk, storeMu>>

\* It does not: the next set is computed under the mutex, which the write holds.
Compute(o) ==
    /\ At(o, "locking")
    /\ setMu = NoOne
    /\ (op[o].name \in names) # op[o].turnOff
    /\ setMu' = o
    /\ op' = [op EXCEPT ![o].at = "writing", ![o].next = With(names, op[o].name, op[o].turnOff)]
    /\ UNCHANGED <<memory, disk, storeMu>>

\* Mutant: the error of writing the temporary file is dropped.
WriteTmpUnchecked(o) ==
    /\ At(o, "writing")
    /\ tmp' \in {op[o].next, NoFile}
    /\ Goto(o, "renaming")
    /\ UNCHANGED <<memory, file, locks>>

WriteTmp(o) ==
    /\ At(o, "writing")
    /\ tmp' = op[o].next
    /\ Goto(o, "renaming")
    /\ UNCHANGED <<memory, file, locks>>

Rename(o) ==
    /\ At(o, "renaming")
    /\ file' = tmp
    /\ tmp' = NoFile
    /\ Goto(o, "adopting")
    /\ UNCHANGED <<memory, locks>>

\* Mutant: a failed write leaves with DisabledSet.mu held.
FailHoldingSet(o) ==
    /\ At(o, "writing") \/ At(o, "renaming")
    /\ tmp' = NoFile
    /\ FreeStore(Store(o))
    /\ Goto(o, "refused")
    /\ UNCHANGED <<memory, file, setMu>>

\* Mutant: SetEnabled logs the error and applies the change.
ApplyUnsaved(o) ==
    /\ At(o, "writing") \/ At(o, "renaming")
    /\ tmp' = NoFile
    /\ setMu' = NoOne
    /\ op' = [op EXCEPT ![o].at = "applying", ![o].next = {}]
    /\ UNCHANGED <<memory, file, storeMu>>

\* Writing the temporary file fails, perhaps half way, or the rename does and removes
\* it: 500, and nothing in memory has changed.
WriteFails(o) ==
    /\ At(o, "writing") \/ At(o, "renaming")
    /\ tmp' = NoFile
    /\ setMu' = NoOne
    /\ FreeStore(Store(o))
    /\ Goto(o, "refused")
    /\ UNCHANGED <<memory, file>>

\* d.names = next, and DisabledSet.mu released.
Adopt(o) ==
    /\ At(o, "adopting")
    /\ names' = op[o].next
    /\ setMu' = NoOne
    /\ op' = [op EXCEPT ![o].at = "applying", ![o].next = {}]
    /\ UNCHANGED <<disabled, disk, storeMu>>

\* Back in SetEnabled: the entry changes, and Store.mu is released.
Apply(o) ==
    /\ At(o, "applying")
    /\ disabled' = [disabled EXCEPT ![op[o].entry] = op[o].turnOff]
    /\ FreeStore(Store(o))
    /\ Goto(o, "done")
    /\ UNCHANGED <<names, disk, setMu>>

Answer(o) ==
    /\ At(o, "done") \/ At(o, "refused")
    /\ op' = [op EXCEPT ![o] = NoOp]
    /\ UNCHANGED <<memory, disk, locks>>

\* The process dies, and starts again from the file.
Restart ==
    /\ names' = file
    /\ disabled' = Loaded(file)
    /\ storeMu' = NobodyHolds
    /\ setMu' = NoOne
    /\ op' = [o \in Operators |-> NoOp]
    /\ UNCHANGED disk

Handle(o) ==
    \/ Miss(o) \/ Hit(o) \/ NotFound(o)
    \/ AlreadySet(o) \/ Compute(o) \/ WriteTmp(o) \/ Rename(o) \/ WriteFails(o)
    \/ Adopt(o) \/ Apply(o) \/ Answer(o)

Next ==
    \/ \E o \in Operators : Ask(o) \/ Handle(o)
    \/ Restart

\* A handler that holds no lock may find one taken again and again; Go's mutexes pass
\* to the longest waiter.  Disk operations return.
Fairness ==
    \A o \in Operators :
        /\ WF_accountVars(Handle(o))
        /\ SF_accountVars(Miss(o) \/ Hit(o))
        /\ SF_accountVars(AlreadySet(o) \/ Compute(o))

Spec == Init /\ [][Next]_accountVars
FairSpec == Spec /\ Fairness

-----------------------------------------------------------------------------
\* A change is committed when the file has it, and enforced when the entry has it.
Phase(step) ==
    CASE step \in {"looking", "locking", "writing", "renaming"} -> "asked"
      [] step \in {"adopting", "applying"} -> "committed"
      [] OTHER -> step

Promise == INSTANCE Switches WITH
    off <- file,
    enforced <- {NameOf[e] : e \in {d \in Entries : disabled[d]}},
    asked <- [o \in Operators |->
        IF op[o] = NoOp THEN [phase |-> "idle"]
        ELSE [phase |-> Phase(op[o].at), name |-> op[o].name, turnOff |-> op[o].turnOff]]

\* Where names are unique, SetEnabled and DisabledSet implement Switches: "the choice
\* is persisted first and applied only if that succeeds, so what the operator sees is
\* what survives a restart" (SetEnabled), through crashes and failed writes.
ImplementsSwitches == Promise!Spec

\* An answered change is the one a restart would find, and no other change is lost by
\* it: memory and file differ only on names whose change is under way.  SetEnabled says
\* so: "what the operator sees is what survives a restart".  It is claimed where names are
\* unique; where two stores have an account of one name it does not hold.
SettledIsSaved ==
    \A e \in Entries :
        disabled[e] # (NameOf[e] \in file) =>
            \E o \in Operators : op[o] # NoOp /\ op[o].name = NameOf[e]

\* Every request is answered, with two operators contending for the mutexes.
EveryRequestAnswered == \A o \in Operators : op[o] # NoOp ~> op[o] = NoOp
=============================================================================
