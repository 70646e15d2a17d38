------------------------------- MODULE ModelBlock -------------------------------
(***************************************************************************)
(* The masks of modelblock.List (internal/modelblock): which model names   *)
(* the operator has blocked.  A name is a sequence of pieces, "-" being    *)
(* one of its own; a mask is the sequence of the names between its stars.  *)
(***************************************************************************)
EXTENDS Integers, SequencesExt

Rest(s, n) == SubSeq(s, n + 1, Len(s))

\* Where part occurs in s: how many pieces come before it.
Occurrences(part, s) ==
    {n \in 0..(Len(s) - Len(part)) : SubSeq(s, n + 1, n + Len(part)) = part}

(***************************************************************************)
(* glob: the first part must begin the name and the last one end what is   *)
(* left; each part between them is taken where it first occurs.  left[i]   *)
(* holds what is left after part i, or nothing once a part is missing.     *)
(***************************************************************************)
Glob(parts, name) ==
    LET taken(part, s) ==
            LET at == Occurrences(part, s)
            IN  IF at = {} THEN {} ELSE {Rest(s, Min(at) + Len(part))}
        left[i \in 1..(Len(parts) - 1)] ==
            IF i = 1 THEN IF IsPrefix(parts[1], name) THEN {Rest(name, Len(parts[1]))} ELSE {}
            ELSE UNION {taken(parts[i], s) : s \in left[i - 1]}
    IN  \E s \in left[Len(parts) - 1] : IsSuffix(parts[Len(parts)], s)

\* Match: without a star, the name itself or a variant of it that continues with "-".
Match(mask, name) ==
    /\ name # <<>> /\ mask # << <<>> >>
    /\ IF Len(mask) = 1
       THEN name = mask[1] \/ IsPrefix(Append(mask[1], "-"), name)
       ELSE Glob(mask, name)

\* List.Blocked, for the names a request is known by.
BlockedBy(masks, names) == \E mask \in masks, name \in names : Match(mask, name)

-----------------------------------------------------------------------------
\* What a mask with stars means: its parts occur in the name in their order, the first
\* at its beginning, the last at its end, without overlap.
Covers(parts, name) ==
    \E at \in [DOMAIN parts -> 0..Len(name)] :
        /\ at[1] = 0
        /\ at[Len(parts)] + Len(parts[Len(parts)]) = Len(name)
        /\ \A i \in DOMAIN parts : at[i] \in Occurrences(parts[i], name)
        /\ \A i \in 1..(Len(parts) - 1) : at[i] + Len(parts[i]) <= at[i + 1]
=============================================================================
