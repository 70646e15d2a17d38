---------------------------- MODULE MCKeyGovernance ----------------------------
(* One name, which two keys bear in turn, and two requests at a time. *)
EXTENDS KeyGovernance, TLC

CONSTANTS k, r1, r2

MCNames == {k}
MCRequests == {r1, r2}
Lim(cost, requests, tokens) ==
  [maxCost |-> cost, maxRequests |-> requests, maxTokens |-> tokens]
MCDefault == Lim(1, 2, 1)
MCLimitChoices == {MCDefault, Lim(0, 0, 0)}
MCSpends == {[cost |-> 0, tokens |-> 0], [cost |-> 1, tokens |-> 1]}

RequestSymmetry == Permutations(MCRequests)
================================================================================
