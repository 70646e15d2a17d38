------------------------------- MODULE Switches -------------------------------
(***************************************************************************)
(* What an operator who switches accounts on and off is promised: a change *)
(* takes effect at one instant, at which it also becomes durable; the      *)
(* operator hears of it only once the running process enforces it; a change*)
(* that is refused leaves no trace; and a restart changes nothing that was *)
(* settled.  AccountState implements this.                                 *)
(***************************************************************************)
CONSTANTS Names, Operators

VARIABLES
    off,       \* the names switched off, as a restart would find them
    enforced,  \* the names the running process keeps out of rotation
    asked      \* per operator: the change under way

vars == <<off, enforced, asked>>

Switch(phase, name, turnOff) == [phase |-> phase, name |-> name, turnOff |-> turnOff]
NoSwitch == [phase |-> "idle"]

Init ==
    /\ off \in SUBSET Names
    /\ enforced = off
    /\ asked = [o \in Operators |-> NoSwitch]

With(set, name, in) == IF in THEN set \cup {name} ELSE set \ {name}
Advance(o, phase) == asked' = [asked EXCEPT ![o].phase = phase]

Ask(o) ==
    /\ asked[o] = NoSwitch
    /\ \E name \in Names, turnOff \in BOOLEAN :
         asked' = [asked EXCEPT ![o] = Switch("asked", name, turnOff)]
    /\ UNCHANGED <<off, enforced>>

\* Changes of one name are committed one after the other's enforcement.
Commit(o) ==
    /\ asked[o].phase = "asked"
    /\ \A p \in Operators : asked[p].phase = "committed" => asked[p].name # asked[o].name
    /\ off' = With(off, asked[o].name, asked[o].turnOff)
    /\ Advance(o, "committed")
    /\ UNCHANGED enforced

Enforce(o) ==
    /\ asked[o].phase = "committed"
    /\ enforced' = With(enforced, asked[o].name, asked[o].turnOff)
    /\ Advance(o, "done")
    /\ UNCHANGED off

Refuse(o) ==
    /\ asked[o].phase = "asked"
    /\ Advance(o, "refused")
    /\ UNCHANGED <<off, enforced>>

Answer(o) ==
    /\ asked[o].phase \in {"done", "refused"}
    /\ asked' = [asked EXCEPT ![o] = NoSwitch]
    /\ UNCHANGED <<off, enforced>>

Restart ==
    /\ enforced' = off
    /\ asked' = [o \in Operators |-> NoSwitch]
    /\ UNCHANGED off

Next ==
    \/ \E o \in Operators : Ask(o) \/ Commit(o) \/ Enforce(o) \/ Refuse(o) \/ Answer(o)
    \/ Restart

Spec == Init /\ [][Next]_vars
=============================================================================
