--------------------------- MODULE OpenAIRoute_proofs ---------------------------
(***************************************************************************)
(* That the chat handler keeps its provider's books: slots, gauges and     *)
(* credentials, for every number of requests, hosts, credentials and       *)
(* targets, and every list of caps.                                        *)
(***************************************************************************)
EXTENDS OpenAIRoute, FiniteSetTheorems, SequenceTheorems, TLAPS

(* A request at a place of Chat holds what belongs there: a host and a credential once it
   has them, and a refusal only until the rotation has taken it. *)
ChatOK(c) ==
    /\ c \in ChatCall
    /\ c.at = "pick" => c.attempt < N
    /\ c.at \in {"queued", "sent", "answered"} => c.host \in 1..hosts
    /\ c.at \in {"queued", "sent", "answered", "rotate"} => c.cred \in Creds
    /\ c.refused => c.at = "rotate" /\ c.cred \in refusals

ChatInv == chat \in [Requests -> ChatCall] /\ \A r \in Requests : ChatOK(chat[r])

(* Where the handler is says whether it may have a response in hand. *)
StageOK(stage, place) ==
    /\ stage \in {"target", "done"} => place = "idle"
    /\ stage \in {"checked", "relay"} => place \in {"idle", "answered"}

RouteInv ==
    /\ route \in [Requests -> Route]
    /\ \A r \in Requests : route[r].tried <= Len(route[r].targets)
    /\ \A r \in Requests : StageOK(route[r].at, chat[r].at)

(* The gauges and the slots count requests, of which there are finitely many in Chat. *)
AtHost(c) == c.at \in {"sent", "answered"}
AtHostOf(c, h) == AtHost(c) /\ c.host = h
InQueue(c) == c.at = "queued"

Holders == {r \in Requests : AtHost(chat[r])}
HoldersOf(h) == {r \in Requests : AtHostOf(chat[r], h)}
Queued == {r \in Requests : InQueue(chat[r])}

CountInv ==
    /\ slots \in [1..MaxHosts -> Int]
    /\ \A h \in 1..MaxHosts :
         /\ ~Gated(h) => slots[h] = 0
         /\ IsFiniteSet(HoldersOf(h))
         /\ Gated(h) => slots[h] = Cardinality(HoldersOf(h)) /\ slots[h] <= Cap[h]
    /\ IsFiniteSet(Holders) /\ inflight = Cardinality(Holders)
    /\ IsFiniteSet(Queued) /\ depth = Cardinality(Queued)

RestInv ==
    /\ StoreTypeOK
    /\ hosts \in 1..MaxHosts
    /\ penalizeTransport \in BOOLEAN
    /\ cancelled \in [Requests -> BOOLEAN]
    /\ refusals \subseteq Creds

RouteIInv == RestInv /\ ChatInv /\ RouteInv /\ CountInv

-----------------------------------------------------------------------------
(***************************************************************************)
(* Counting.                                                               *)
(***************************************************************************)
One(b) == IF b THEN 1 ELSE 0

(* Two sets that differ in x at most have cardinalities that differ by x. *)
LEMMA Recount ==
  ASSUME NEW S, NEW T, NEW x, IsFiniteSet(S), S \ {x} = T \ {x}
  PROVE  /\ IsFiniteSet(T)
         /\ Cardinality(T) = Cardinality(S) - One(x \in S) + One(x \in T)
<1> DEFINE U == S \ {x}
<1>1. /\ IsFiniteSet(U)
      /\ Cardinality(U) = Cardinality(S) - One(x \in S)
      /\ Cardinality(S) \in Nat
  BY FS_RemoveElement, FS_CardinalityType DEF One
<1>2. CASE x \in T
  <2>1. T = U \cup {x} /\ x \notin U
    BY <1>2
  <2>2. IsFiniteSet(T) /\ Cardinality(T) = Cardinality(U) + 1
    BY <1>1, <2>1, FS_AddElement
  <2> QED
    BY <1>1, <1>2, <2>2 DEF One
<1>3. CASE x \notin T
  <2>1. T = U
    BY <1>3
  <2> HIDE DEF U
  <2> QED
    BY <1>1, <1>3, <2>1 DEF One
<1> QED
  BY <1>2, <1>3

(* What a step of r does to the gauges when it does what its move of chat[r] calls for. *)
Follows(r, next) ==
    /\ slots' \in [1..MaxHosts -> Int]
    /\ depth' = depth - One(InQueue(chat[r])) + One(InQueue(next))
    /\ inflight' = inflight - One(AtHost(chat[r])) + One(AtHost(next))
    /\ \A h \in 1..MaxHosts :
         /\ ~Gated(h) => slots'[h] = 0
         /\ Gated(h) => /\ slots'[h] = slots[h] - One(AtHostOf(chat[r], h)) + One(AtHostOf(next, h))
                        /\ slots'[h] <= Cap[h]

(* Gauges that follow every move keep counting. *)
LEMMA CountKept ==
  ASSUME ChatInv, CountInv, NEW r \in Requests, NEW next, Become(r, next), Follows(r, next)
  PROVE  CountInv'
<1>1. chat'[r] = next /\ \A q \in Requests \ {r} : chat'[q] = chat[q]
  BY DEF ChatInv, Become
<1>2. IsFiniteSet(Queued') /\ depth' = Cardinality(Queued')
  <2>1. Queued \ {r} = Queued' \ {r}
    BY <1>1 DEF Queued, InQueue
  <2>2. (r \in Queued) = InQueue(chat[r]) /\ (r \in Queued') = InQueue(next)
    BY <1>1 DEF Queued, InQueue
  <2>3. IsFiniteSet(Queued) /\ depth = Cardinality(Queued)
    BY DEF CountInv
  <2>4. IsFiniteSet(Queued') /\ Cardinality(Queued') = depth - One(r \in Queued) + One(r \in Queued')
    BY <2>1, <2>3, Recount
  <2> QED
    BY <2>2, <2>4 DEF Follows
<1>3. IsFiniteSet(Holders') /\ inflight' = Cardinality(Holders')
  <2>1. Holders \ {r} = Holders' \ {r}
    BY <1>1 DEF Holders, AtHost
  <2>2. (r \in Holders) = AtHost(chat[r]) /\ (r \in Holders') = AtHost(next)
    BY <1>1 DEF Holders, AtHost
  <2>3. IsFiniteSet(Holders) /\ inflight = Cardinality(Holders)
    BY DEF CountInv
  <2>4. IsFiniteSet(Holders') /\ Cardinality(Holders') = inflight - One(r \in Holders) + One(r \in Holders')
    BY <2>1, <2>3, Recount
  <2> QED
    BY <2>2, <2>4 DEF Follows
<1>4. ASSUME NEW h \in 1..MaxHosts
      PROVE  /\ IsFiniteSet(HoldersOf(h)')
             /\ Gated(h) => slots'[h] = Cardinality(HoldersOf(h)')
  <2>1. HoldersOf(h) \ {r} = HoldersOf(h)' \ {r}
    BY <1>1 DEF HoldersOf, AtHostOf, AtHost
  <2>2. (r \in HoldersOf(h)) = AtHostOf(chat[r], h) /\ (r \in HoldersOf(h)') = AtHostOf(next, h)
    BY <1>1 DEF HoldersOf, AtHostOf, AtHost
  <2>3. IsFiniteSet(HoldersOf(h)) /\ (Gated(h) => slots[h] = Cardinality(HoldersOf(h)))
    BY <1>4 DEF CountInv
  <2>4. /\ IsFiniteSet(HoldersOf(h)')
        /\ Cardinality(HoldersOf(h)')
             = Cardinality(HoldersOf(h)) - One(r \in HoldersOf(h)) + One(r \in HoldersOf(h)')
    BY <2>1, <2>3, Recount
  <2> QED
    BY <1>4, <2>2, <2>3, <2>4 DEF Follows
<1> QED
  BY <1>2, <1>3, <1>4 DEF CountInv, Follows, HoldersOf, Gated

(* A move between places that count alike follows without touching a gauge. *)
LEMMA NothingCounted ==
  ASSUME CountInv, NEW r \in Requests, NEW next, UNCHANGED gateVars,
         InQueue(chat[r]) <=> InQueue(next),
         AtHost(chat[r]) <=> AtHost(next),
         AtHost(next) => next.host = chat[r].host
  PROVE  Follows(r, next)
<1>1. One(InQueue(chat[r])) = One(InQueue(next)) /\ One(InQueue(next)) \in {0, 1}
  BY DEF One
<1>2. One(AtHost(chat[r])) = One(AtHost(next)) /\ One(AtHost(next)) \in {0, 1}
  BY DEF One
<1>3. \A h \in 1..MaxHosts :
        One(AtHostOf(chat[r], h)) = One(AtHostOf(next, h)) /\ One(AtHostOf(next, h)) \in {0, 1}
  BY DEF One, AtHostOf
<1>4. slots' = slots /\ depth' = depth /\ inflight' = inflight
  BY DEF gateVars
<1>5. depth \in Int /\ inflight \in Int
  BY FS_CardinalityType DEF CountInv
<1> QED
  BY <1>1, <1>2, <1>3, <1>4, <1>5 DEF Follows, CountInv

(* A request that leaves its host, to the queue of another or altogether, gives back
   its slot and no other. *)
LEMMA SlotGivenBack ==
  ASSUME CountInv, NEW r \in Requests, NEW next,
         AtHost(chat[r]), chat[r].host \in 1..MaxHosts, ~AtHost(next),
         Release(chat[r].host), depth' = depth + One(InQueue(next))
  PROVE  Follows(r, next)
<1> DEFINE at == chat[r].host
<1>1. ~InQueue(chat[r])
  BY DEF AtHost, InQueue
<1>2. One(InQueue(chat[r])) = 0 /\ One(InQueue(next)) \in {0, 1}
  BY <1>1 DEF One
<1>3. One(AtHost(chat[r])) = 1 /\ One(AtHost(next)) = 0
  BY DEF One
<1>4. depth \in Int /\ inflight \in Int
  BY FS_CardinalityType DEF CountInv
<1>5. slots \in [1..MaxHosts -> Int]
  BY DEF CountInv
<1>6. inflight' = inflight - 1 /\ slots' = [slots EXCEPT ![at] = IF Gated(at) THEN @ - 1 ELSE @]
  BY DEF Release
<1>7. slots' \in [1..MaxHosts -> Int]
  BY <1>5, <1>6
<1>8. ASSUME NEW h \in 1..MaxHosts
      PROVE  /\ ~Gated(h) => slots'[h] = 0
             /\ Gated(h) => /\ slots'[h] = slots[h] - One(AtHostOf(chat[r], h)) + One(AtHostOf(next, h))
                            /\ slots'[h] <= Cap[h]
  <2>1. One(AtHostOf(next, h)) = 0
    BY DEF One, AtHostOf
  <2>2. One(AtHostOf(chat[r], h)) = IF h = at THEN 1 ELSE 0
    BY DEF One, AtHostOf
  <2>3. slots[h] \in Int /\ Cap[h] \in Nat
    BY <1>5, <1>8, HostAssumption
  <2>4. (~Gated(h) => slots[h] = 0) /\ (Gated(h) => slots[h] <= Cap[h])
    BY <1>8 DEF CountInv
  <2>5. CASE h = at
    <3>1. slots'[h] = IF Gated(h) THEN slots[h] - 1 ELSE slots[h]
      BY <1>5, <1>6, <1>8, <2>5
    <3> QED
      BY <2>1, <2>2, <2>3, <2>4, <2>5, <3>1
  <2>6. CASE h # at
    <3>1. slots'[h] = slots[h]
      BY <1>5, <1>6, <1>8, <2>6
    <3> QED
      BY <2>1, <2>2, <2>3, <2>4, <2>6, <3>1
  <2> QED
    BY <2>5, <2>6
<1>9. depth' = depth - One(InQueue(chat[r])) + One(InQueue(next))
  BY <1>2, <1>4
<1>10. inflight' = inflight - One(AtHost(chat[r])) + One(AtHost(next))
  <2> DEFINE gone == One(AtHost(chat[r]))
             come == One(AtHost(next))
  <2>1. gone = 1 /\ come = 0
    BY <1>3
  <2> HIDE DEF gone, come, at
  <2>2. inflight' = inflight - gone + come
    BY <1>4, <1>6, <2>1
  <2> QED
    BY <2>2 DEF gone, come
<1> QED
  BY <1>7, <1>8, <1>9, <1>10 DEF Follows

-----------------------------------------------------------------------------
(***************************************************************************)
(* A step of the handler or of its call of Chat moves chat[r] to next and  *)
(* the handler to stage.                                                   *)
(***************************************************************************)
Moved(r, stage) ==
    \E step \in Route :
        /\ route' = [route EXCEPT ![r] = step]
        /\ step.at = stage
        /\ step.tried <= Len(step.targets)

(* What is fit for a place of Chat stays so while hosts are configured and refusals
   only accumulate. *)
LEMMA StaysFit ==
  ASSUME NEW c, ChatOK(c), hosts' = hosts, refusals \subseteq refusals'
  PROVE  ChatOK(c)'
BY DEF ChatOK

LEMMA ChatKept ==
  ASSUME ChatInv, NEW r \in Requests, NEW next, Become(r, next), ChatOK(next)',
         hosts' = hosts, refusals \subseteq refusals'
  PROVE  ChatInv'
<1>1. chat \in [Requests -> ChatCall] /\ next \in ChatCall
  BY DEF ChatInv, ChatOK
<1>2. chat' \in [Requests -> ChatCall]
  BY <1>1 DEF Become
<1>3. ASSUME NEW q \in Requests
      PROVE  ChatOK(chat[q])'
  <2>1. CASE q = r
    <3>1. chat'[q] = next
      BY <1>1, <2>1 DEF Become
    <3> QED
      BY <3>1 DEF ChatOK
  <2>2. CASE q # r
    <3>1. chat'[q] = chat[q] /\ ChatOK(chat[q])
      BY <1>1, <2>2 DEF Become, ChatInv
    <3>2. PICK c \in ChatCall : c = chat[q]
      BY <1>1
    <3>3. ChatOK(c)'
      BY <3>1, <3>2, StaysFit
    <3> QED
      BY <3>1, <3>2, <3>3 DEF ChatOK
  <2> QED
    BY <2>1, <2>2
<1> QED
  BY <1>2, <1>3 DEF ChatInv

LEMMA RouteKept ==
  ASSUME ChatInv, RouteInv, NEW r \in Requests, NEW next, NEW stage,
         Become(r, next), Moved(r, stage), StageOK(stage, next.at)
  PROVE  RouteInv'
<1>1. PICK step \in Route : /\ route' = [route EXCEPT ![r] = step]
                            /\ step.at = stage
                            /\ step.tried <= Len(step.targets)
  BY DEF Moved
<1>2. route \in [Requests -> Route] /\ chat \in [Requests -> ChatCall]
  BY DEF RouteInv, ChatInv
<1>3. route' \in [Requests -> Route]
  BY <1>1, <1>2
<1>4. ASSUME NEW q \in Requests
      PROVE  route'[q].tried <= Len(route'[q].targets) /\ StageOK(route'[q].at, chat'[q].at)
  <2>1. CASE q = r
    <3>1. route'[q] = step /\ chat'[q] = next
      BY <1>1, <1>2, <2>1 DEF Become
    <3> QED
      BY <1>1, <3>1
  <2>2. CASE q # r
    <3>1. route'[q] = route[q] /\ chat'[q] = chat[q]
      BY <1>1, <1>2, <2>2 DEF Become
    <3> QED
      BY <3>1 DEF RouteInv
  <2> QED
    BY <2>1, <2>2
<1> QED
  BY <1>3, <1>4 DEF RouteInv, StageOK

(* A step whose move is fit, whose gauges follow and whose stage suits its place keeps
   the whole invariant. *)
LEMMA StepKept ==
  ASSUME RouteIInv, NEW r \in Requests, NEW next, NEW stage,
         Become(r, next), Moved(r, stage), Follows(r, next), ChatOK(next)',
         StageOK(stage, next.at), hosts' = hosts, refusals \subseteq refusals', RestInv'
  PROVE  RouteIInv'
BY ChatKept, RouteKept, CountKept DEF RouteIInv

(* A chain's length is one that was considered. *)
LEMMA ChainLength ==
  ASSUME NEW chain \in Chains
  PROVE  Len(chain) \in 1..MaxTargets /\ DOMAIN chain = 1..Len(chain)
<1>1. PICK n \in 1..MaxTargets : chain \in [1..n -> TargetKinds]
  BY DEF Chains
<1>2. n \in Nat
  BY RouteAssumption
<1>3. chain \in Seq(TargetKinds)
  BY <1>1, <1>2
<1>4. Len(chain) \in Nat /\ DOMAIN chain = 1..Len(chain) /\ DOMAIN chain = 1..n
  BY <1>1, <1>3
<1>5. Len(chain) = n
  <2> DEFINE m == Len(chain)
  <2>1. m \in Nat /\ 1..m = 1..n /\ n >= 1
    BY <1>1, <1>4
  <2> HIDE DEF m
  <2>2. n \in 1..m
    BY <1>2, <2>1
  <2>3. m >= 1
    BY <1>2, <2>1, <2>2
  <2>4. m \in 1..n
    BY <2>1, <2>3
  <2> QED
    BY <1>2, <2>1, <2>2, <2>4 DEF m
<1> QED
  BY <1>4, <1>5

(* What the handler does with its own record. *)
LEMMA Stepped ==
  ASSUME RouteInv, NEW r \in Requests, NEW stage \in Stages, NEW resp \in Statuses,
         Step(r, stage, resp)
  PROVE  Moved(r, stage)
<1>1. PICK q \in Route : q = route[r] /\ q.tried <= Len(q.targets)
  BY DEF RouteInv
<1> DEFINE step == [q EXCEPT !.at = stage, !.resp = resp]
<1>2. step \in Route /\ step.at = stage /\ step.tried = q.tried /\ step.targets = q.targets
  BY <1>1 DEF Route
<1>3. route' = [route EXCEPT ![r] = step]
  BY <1>1 DEF Step, RouteInv
<1> HIDE DEF step
<1> QED
  BY <1>1, <1>2, <1>3 DEF Moved

LEMMA AnswerMoves ==
  ASSUME RouteInv, NEW r \in Requests, NEW answer \in Answers, Answer(r, answer)
  PROVE  Moved(r, "done")
<1>1. PICK q \in Route : q = route[r] /\ q.tried <= Len(q.targets)
  BY DEF RouteInv
<1> DEFINE step == [q EXCEPT !.at = "done", !.resp = "none", !.answer = answer]
<1>2. step \in Route /\ step.at = "done" /\ step.tried = q.tried /\ step.targets = q.targets
  BY <1>1 DEF Route, Stages, Statuses
<1>3. route' = [route EXCEPT ![r] = step]
  BY <1>1 DEF Answer, RouteInv
<1> HIDE DEF step
<1> QED
  BY <1>1, <1>2, <1>3 DEF Moved

LEMMA NextTargetMoves ==
  ASSUME RouteInv, NEW r \in Requests, NextTarget(r), ~Last(r)
  PROVE  Moved(r, "target")
<1>1. PICK q \in Route : q = route[r] /\ q.tried <= Len(q.targets)
  BY DEF RouteInv
<1>2. q.tried \in 1..MaxTargets /\ q.targets \in Chains
  BY DEF Route
<1>3. Len(q.targets) \in 1..MaxTargets
  BY <1>2, ChainLength
<1>4. q.tried + 1 <= Len(q.targets) /\ q.tried + 1 \in 1..MaxTargets
  BY <1>1, <1>2, <1>3, RouteAssumption DEF Last
<1> DEFINE step == [q EXCEPT !.at = "target", !.tried = q.tried + 1, !.injected = FALSE]
<1>5. step \in Route /\ step.at = "target" /\ step.tried = q.tried + 1 /\ step.targets = q.targets
  BY <1>1, <1>4 DEF Route, Stages
<1>6. route' = [route EXCEPT ![r] = step]
  BY <1>1 DEF NextTarget, RouteInv
<1> HIDE DEF step
<1> QED
  BY <1>4, <1>5, <1>6 DEF Moved

LEMMA FallBackMoves ==
  ASSUME RouteInv, NEW r \in Requests, FallBack(r)
  PROVE  Moved(r, "target") \/ Moved(r, "done")
BY NextTargetMoves, AnswerMoves DEF FallBack, Answers

LEMMA FirstChatMoves ==
  ASSUME RouteInv, NEW r \in Requests, NEW injected \in BOOLEAN,
         route' = [route EXCEPT ![r].at = "first", ![r].injected = injected]
  PROVE  Moved(r, "first")
<1>1. PICK q \in Route : q = route[r] /\ q.tried <= Len(q.targets)
  BY DEF RouteInv
<1> DEFINE step == [q EXCEPT !.at = "first", !.injected = injected]
<1>2. step \in Route /\ step.at = "first" /\ step.tried = q.tried /\ step.targets = q.targets
  BY <1>1 DEF Route, Stages
<1>3. route' = [route EXCEPT ![r] = step]
  BY <1>1 DEF RouteInv
<1> HIDE DEF step
<1> QED
  BY <1>1, <1>2, <1>3 DEF Moved

LEMMA StaysPut ==
  ASSUME RouteInv, NEW r \in Requests, UNCHANGED route
  PROVE  Moved(r, route[r].at)
<1>1. route[r] \in Route /\ route[r].tried <= Len(route[r].targets)
  BY DEF RouteInv
<1>2. route' = [route EXCEPT ![r] = route[r]]
  BY DEF RouteInv
<1> QED
  BY <1>1, <1>2 DEF Moved

-----------------------------------------------------------------------------
(***************************************************************************)
(* The calls of Chat the code makes.                                       *)
(***************************************************************************)
LEMMA FreshCalls ==
  ASSUME RestInv
  PROVE  /\ ChatOK(NoChat) /\ NoChat.at = "idle"
         /\ ChatOK(ChatFailed) /\ ChatFailed.at = "failed"
         /\ ChatOK(CallChat(Creds)) /\ CallChat(Creds).at = "pick"
<1>1. 0 \in 0..N /\ 0 \in 0..MaxHosts /\ 0 < N
  BY StoreAssumption, HostAssumption
<1>2. NoChat \in ChatCall
  BY <1>1 DEF NoChat, ChatCall, Calls, Statuses
<1>3. ChatFailed \in ChatCall /\ CallChat(Creds) \in ChatCall
  BY <1>1, <1>2 DEF ChatFailed, CallChat, NoChat, ChatCall, Calls, Statuses
<1>4. NoChat.at = "idle" /\ ~NoChat.refused
  BY DEF NoChat
<1>5. ChatFailed.at = "failed" /\ ~ChatFailed.refused
  BY DEF NoChat, ChatFailed
<1>6. CallChat(Creds).at = "pick" /\ ~CallChat(Creds).refused /\ CallChat(Creds).attempt = 0
  BY DEF NoChat, CallChat
<1> HIDE DEF NoChat, ChatFailed, CallChat
<1> QED
  BY <1>1, <1>2, <1>3, <1>4, <1>5, <1>6 DEF ChatOK

(* A place of Chat other than the first two has what the next needs. *)
LEMMA ChatFields ==
  ASSUME RouteIInv, NEW r \in Requests
  PROVE  /\ chat[r] \in ChatCall /\ ChatOK(chat[r])
         /\ chat[r].match \subseteq Creds /\ chat[r].attempt \in 0..N
         /\ chat[r].host \in 0..MaxHosts /\ chat[r].cred \in Creds \cup {NoCred}
         /\ hosts \in 1..MaxHosts
BY DEF RouteIInv, RestInv, ChatInv, ChatCall

(* The request built for the next host has a host to go to. *)
LEMMA QueueFits ==
  ASSUME RestInv, NEW c \in ChatCall, c.cred \in Creds, c.host \in 0..(hosts - 1), ~c.refused
  PROVE  ChatOK(Queue(c)) /\ Queue(c).at = "queued"
<1>1. c.host + 1 \in 1..hosts /\ c.host + 1 \in 0..MaxHosts
  BY HostAssumption DEF RestInv
<1>2. Queue(c) = [c EXCEPT !.at = "queued", !.host = c.host + 1]
  BY DEF Queue
<1>3. Queue(c) \in ChatCall
  BY <1>1, <1>2 DEF ChatCall, Calls
<1>4. /\ Queue(c).at = "queued" /\ Queue(c).host = c.host + 1
      /\ Queue(c).cred = c.cred /\ Queue(c).refused = c.refused
  BY <1>2 DEF ChatCall
<1> HIDE DEF Queue
<1> QED
  BY <1>1, <1>3, <1>4 DEF ChatOK

(* The rotation goes on with an attempt it has left, or fails. *)
LEMMA NextCredFits ==
  ASSUME RestInv, NEW c \in ChatCall
  PROVE  ChatOK(NextCred(c)) /\ NextCred(c).at \in {"pick", "failed"}
<1>1. CASE c.attempt < N
  <2> DEFINE d == [NoChat EXCEPT !.at = "pick", !.match = c.match, !.attempt = c.attempt]
  <2>1. NextCred(c) = d
    BY <1>1 DEF NextCred
  <2>2. c.match \in SUBSET Creds /\ c.attempt \in 0..N
    BY DEF ChatCall
  <2>3. 0 \in 0..MaxHosts
    BY HostAssumption
  <2>4. d \in ChatCall
    BY <2>2, <2>3 DEF NoChat, ChatCall, Calls, Statuses
  <2>5. d.at = "pick" /\ d.attempt = c.attempt /\ ~d.refused
    BY DEF NoChat
  <2> HIDE DEF d
  <2> QED
    BY <1>1, <2>1, <2>4, <2>5 DEF ChatOK
<1>2. CASE ~(c.attempt < N)
  BY <1>2, FreshCalls DEF NextCred
<1> QED
  BY <1>1, <1>2

-----------------------------------------------------------------------------
(***************************************************************************)
(* The store.                                                              *)
(***************************************************************************)
LEMMA BackoffTyped ==
  ASSUME NEW streak \in Nat
  PROVE  Backoff(streak) \in Nat
BY StoreAssumption DEF Backoff

(* The critical sections of Store.mu keep its variables in their types. *)
LEMMA StoreSteps ==
  ASSUME StoreTypeOK, UNCHANGED now, NEW c \in Creds,
         \/ UNCHANGED rotationVars
         \/ \E match \in SUBSET Creds : NextOf(match, c)
         \/ PenalizeDetail(c)
         \/ MarkSuccess(c)
  PROVE  StoreTypeOK'
<1> USE DEF StoreTypeOK
<1>1. CASE UNCHANGED rotationVars
  BY <1>1 DEF rotationVars
<1>2. ASSUME NEW match \in SUBSET Creds, NextOf(match, c)
      PROVE  StoreTypeOK'
  <2>1. PICK k \in Creds : idx' = IF fillFirst THEN idx ELSE Wrap(idx + k)
    BY <1>2 DEF NextOf
  <2>2. Wrap(idx + k) \in Creds
    BY StoreAssumption DEF Wrap, Creds
  <2>3. idx' \in Creds
    BY <2>1, <2>2
  <2> QED
    BY <1>2, <2>3 DEF NextOf
<1>3. CASE PenalizeDetail(c)
  <2>1. CASE CountFailure(c)
    <3>1. failStreak[c] + 1 \in Nat
      OBVIOUS
    <3>2. now + Backoff(failStreak[c] + 1) \in Int
      BY <3>1, BackoffTyped
    <3> QED
      BY <2>1, <3>1, <3>2 DEF CountFailure
  <2>2. CASE UNCHANGED rotationVars
    BY <2>2 DEF rotationVars
  <2> QED
    BY <1>3, <2>1, <2>2 DEF PenalizeDetail
<1>4. CASE MarkSuccess(c)
  BY <1>4 DEF MarkSuccess
<1> QED
  BY <1>1, <1>2, <1>3, <1>4

(* A step that leaves the store, the options and the contexts alone. *)
LEMMA RestKept ==
  ASSUME RestInv, UNCHANGED <<storeVars, options, cancelled>>, refusals' \subseteq Creds
  PROVE  RestInv'
BY DEF RestInv, StoreTypeOK, storeVars, rotationVars, options

(* A step that takes or reports a credential. *)
LEMMA RestKeptByStore ==
  ASSUME RestInv, UNCHANGED <<now, options, cancelled, refusals>>, StoreTypeOK'
  PROVE  RestInv'
BY DEF RestInv, options

-----------------------------------------------------------------------------
(***************************************************************************)
(* The steps of Chat.                                                      *)
(***************************************************************************)
(* While Chat runs, the handler is waiting for it. *)
LEMMA HandlerWaits ==
  ASSUME RouteIInv, NEW r \in Requests, UNCHANGED route,
         chat[r].at \notin {"idle", "answered"}, NEW place
  PROVE  Moved(r, route[r].at) /\ StageOK(route[r].at, place)
<1>1. Moved(r, route[r].at)
  BY StaysPut DEF RouteIInv
<1>2. StageOK(route[r].at, chat[r].at)
  BY DEF RouteIInv, RouteInv
<1> QED
  BY <1>1, <1>2 DEF StageOK

LEMMA PickCredKeeps ==
  ASSUME RouteIInv, NEW r \in Requests, PickCred(r), UNCHANGED route
  PROVE  RouteIInv'
<1> DEFINE c == chat[r]
<1>1. /\ c \in ChatCall /\ c.at = "pick" /\ c.attempt < N /\ ~c.refused
      /\ c.attempt \in 0..N /\ hosts \in 1..MaxHosts /\ c.match \in SUBSET Creds
  BY ChatFields DEF PickCred, InChat, ChatOK
<1>2. PICK cred \in Creds :
        NextOf(c.match, cred)
        /\ Become(r, Queue([c EXCEPT !.cred = cred, !.attempt = @ + 1, !.host = 0]))
  BY DEF PickCred
<1> DEFINE d == [c EXCEPT !.cred = cred, !.attempt = @ + 1, !.host = 0]
<1>3. c.attempt + 1 \in 0..N /\ 0 \in 0..MaxHosts
  BY <1>1, StoreAssumption, HostAssumption
<1>4. d \in ChatCall /\ d.cred = cred /\ d.host = 0 /\ d.refused = c.refused
  BY <1>1, <1>3 DEF ChatCall
<1>5. 0 \in 0..(hosts - 1)
  BY <1>1, HostAssumption
<1>6. PICK next \in ChatCall : next = Queue(d)
  <2> HIDE DEF d
  <2>1. ChatOK(Queue(d))
    BY <1>1, <1>4, <1>5, QueueFits DEF RouteIInv
  <2> QED
    BY <2>1 DEF ChatOK
<1>7. ChatOK(next) /\ next.at = "queued" /\ Become(r, next)
  <2>1. Become(r, Queue(d))
    BY <1>2
  <2> HIDE DEF d
  <2>2. ChatOK(Queue(d)) /\ Queue(d).at = "queued"
    BY <1>1, <1>4, <1>5, QueueFits DEF RouteIInv
  <2> QED
    BY <2>1, <2>2, <1>6
<1>8. hosts' = hosts /\ refusals' = refusals /\ slots' = slots /\ inflight' = inflight
      /\ depth' = depth + 1 /\ UNCHANGED <<now, options, cancelled, refusals>>
  BY DEF PickCred, options
<1>9. ChatOK(next)'
  BY <1>7, <1>8, StaysFit
<1>10. Follows(r, next)
  <2>1. One(InQueue(c)) = 0 /\ One(InQueue(next)) = 1 /\ One(AtHost(c)) = 0 /\ One(AtHost(next)) = 0
    BY <1>1, <1>7 DEF One, InQueue, AtHost
  <2>2. \A h \in 1..MaxHosts : One(AtHostOf(c, h)) = 0 /\ One(AtHostOf(next, h)) = 0
    BY <1>1, <1>7 DEF One, AtHostOf, AtHost
  <2>3. depth \in Int /\ inflight \in Int
    BY FS_CardinalityType DEF RouteIInv, CountInv
  <2> HIDE DEF c
  <2> QED
    BY <1>8, <2>1, <2>2, <2>3 DEF Follows, RouteIInv, CountInv, c
<1>11. RestInv'
  <2>1. StoreTypeOK'
    BY <1>1, <1>2, <1>8, StoreSteps DEF RouteIInv, RestInv
  <2> QED
    BY <1>8, <2>1, RestKeptByStore DEF RouteIInv
<1>12. Moved(r, route[r].at) /\ StageOK(route[r].at, next.at)
  BY <1>1, HandlerWaits
<1> QED
  BY <1>7, <1>8, <1>9, <1>10, <1>11, <1>12, StepKept

LEMMA NoCredLeftKeeps ==
  ASSUME RouteIInv, NEW r \in Requests, NoCredLeft(r), UNCHANGED route
  PROVE  RouteIInv'
<1>1. chat[r].at = "pick" /\ Become(r, ChatFailed)
  BY DEF NoCredLeft, InChat
<1>2. PICK next \in ChatCall : next = ChatFailed /\ ChatOK(next) /\ next.at = "failed"
  BY FreshCalls DEF RouteIInv, ChatOK
<1>3. UNCHANGED <<storeVars, options, gateVars, cancelled, refusals>>
  BY DEF NoCredLeft, NextOfNone, storeVars
<1>4. hosts' = hosts /\ refusals \subseteq refusals' /\ ChatOK(next)'
  BY <1>2, <1>3, StaysFit DEF options
<1>5. Follows(r, next)
  BY <1>1, <1>2, <1>3, NothingCounted DEF RouteIInv, InQueue, AtHost
<1>6. RestInv'
  BY <1>3, RestKept DEF RouteIInv, RestInv
<1>7. Moved(r, route[r].at) /\ StageOK(route[r].at, next.at)
  BY <1>1, HandlerWaits
<1> QED
  BY <1>1, <1>2, <1>4, <1>5, <1>6, <1>7, StepKept

LEMMA AcquireKeeps ==
  ASSUME RouteIInv, NEW r \in Requests, Acquire(r), UNCHANGED route
  PROVE  RouteIInv'
<1> DEFINE c == chat[r]
           h == chat[r].host
<1>1. /\ c \in ChatCall /\ c.at = "queued" /\ c.host \in 1..hosts /\ c.cred \in Creds /\ ~c.refused
      /\ hosts \in 1..MaxHosts
  BY ChatFields DEF Acquire, InChat, ChatOK
<1>2. h \in 1..MaxHosts
  BY <1>1, HostAssumption
<1>3. PICK next \in ChatCall : next = [c EXCEPT !.at = "sent"]
  BY <1>1 DEF ChatCall, Calls
<1>4. next.at = "sent" /\ next.host = c.host /\ next.cred = c.cred /\ next.refused = c.refused
  BY <1>1, <1>3 DEF ChatCall
<1>5. Become(r, next) /\ UNCHANGED <<storeVars, options, cancelled, refusals>>
  BY <1>3 DEF Acquire
<1>6. hosts' = hosts /\ refusals \subseteq refusals' /\ ChatOK(next)'
  BY <1>1, <1>4, <1>5 DEF ChatOK, options
<1>7. /\ slots' = [slots EXCEPT ![h] = IF Gated(h) THEN @ + 1 ELSE @]
      /\ depth' = depth - 1 /\ inflight' = inflight + 1
      /\ Gated(h) => slots[h] < Cap[h]
  BY DEF Acquire
<1>8. slots \in [1..MaxHosts -> Int] /\ depth \in Int /\ inflight \in Int
  BY FS_CardinalityType DEF RouteIInv, CountInv
<1>9. One(InQueue(c)) = 1 /\ One(InQueue(next)) = 0 /\ One(AtHost(c)) = 0 /\ One(AtHost(next)) = 1
  BY <1>1, <1>4 DEF One, InQueue, AtHost
<1>10. ASSUME NEW i \in 1..MaxHosts
       PROVE  /\ ~Gated(i) => slots'[i] = 0
              /\ Gated(i) => /\ slots'[i] = slots[i] - One(AtHostOf(c, i)) + One(AtHostOf(next, i))
                             /\ slots'[i] <= Cap[i]
  <2>1. One(AtHostOf(c, i)) = 0 /\ One(AtHostOf(next, i)) = IF i = h THEN 1 ELSE 0
    BY <1>1, <1>4 DEF One, AtHostOf, AtHost
  <2>2. slots[i] \in Int /\ Cap[i] \in Nat
    BY <1>8, HostAssumption
  <2>3. (~Gated(i) => slots[i] = 0) /\ (Gated(i) => slots[i] <= Cap[i])
    BY DEF RouteIInv, CountInv
  <2>4. CASE i = h
    <3>1. slots'[i] = IF Gated(i) THEN slots[i] + 1 ELSE slots[i]
      BY <1>7, <1>8, <2>4
    <3>2. Gated(i) => slots[i] < Cap[i]
      BY <1>7, <2>4
    <3> HIDE DEF c
    <3> QED
      BY <2>1, <2>2, <2>3, <2>4, <3>1, <3>2
  <2>5. CASE i # h
    <3>1. slots'[i] = slots[i]
      BY <1>7, <1>8, <2>5
    <3> HIDE DEF c
    <3> QED
      BY <2>1, <2>2, <2>3, <2>5, <3>1
  <2> QED
    BY <2>4, <2>5
<1>11. Follows(r, next)
  <2>1. slots' \in [1..MaxHosts -> Int]
    <3> HIDE DEF h
    <3>1. slots[h] + 1 \in Int
      BY <1>2, <1>8
    <3> QED
      BY <1>7, <1>8, <3>1
  <2>2. depth' = depth - One(InQueue(c)) + One(InQueue(next))
    BY <1>7, <1>8, <1>9
  <2>3. inflight' = inflight - One(AtHost(c)) + One(AtHost(next))
    <3> DEFINE gone == One(AtHost(c))
               come == One(AtHost(next))
    <3>1. gone = 0 /\ come = 1
      BY <1>9
    <3> HIDE DEF gone, come, h
    <3>2. inflight' = inflight - gone + come
      BY <1>7, <1>8, <3>1
    <3> QED
      BY <3>2 DEF gone, come
  <2> QED
    BY <1>10, <2>1, <2>2, <2>3 DEF Follows
<1>12. RestInv'
  BY <1>5, RestKept DEF RouteIInv, RestInv
<1>13. Moved(r, route[r].at) /\ StageOK(route[r].at, next.at)
  BY <1>1, HandlerWaits
<1> QED
  BY <1>5, <1>6, <1>11, <1>12, <1>13, StepKept

LEMMA LeaveQueueKeeps ==
  ASSUME RouteIInv, NEW r \in Requests, LeaveQueue(r), UNCHANGED route
  PROVE  RouteIInv'
<1>1. chat[r].at = "queued" /\ Become(r, ChatFailed) /\ depth' = depth - 1
      /\ slots' = slots /\ inflight' = inflight
      /\ UNCHANGED <<storeVars, options, cancelled, refusals>>
  BY DEF LeaveQueue, InChat
<1>2. PICK next \in ChatCall : next = ChatFailed /\ ChatOK(next) /\ next.at = "failed"
  BY FreshCalls DEF RouteIInv, ChatOK
<1>3. hosts' = hosts /\ refusals \subseteq refusals' /\ ChatOK(next)'
  BY <1>1, <1>2, StaysFit DEF options
<1>4. Follows(r, next)
  <2>1. /\ One(InQueue(chat[r])) = 1 /\ One(InQueue(next)) = 0
        /\ One(AtHost(chat[r])) = 0 /\ One(AtHost(next)) = 0
    BY <1>1, <1>2 DEF One, InQueue, AtHost
  <2>2. \A h \in 1..MaxHosts : One(AtHostOf(chat[r], h)) = 0 /\ One(AtHostOf(next, h)) = 0
    BY <1>1, <1>2 DEF One, AtHostOf, AtHost
  <2>3. depth \in Int /\ inflight \in Int
    BY FS_CardinalityType DEF RouteIInv, CountInv
  <2> QED
    BY <1>1, <2>1, <2>2, <2>3 DEF Follows, RouteIInv, CountInv
<1>5. RestInv'
  BY <1>1, RestKept DEF RouteIInv, RestInv
<1>6. Moved(r, route[r].at) /\ StageOK(route[r].at, next.at)
  BY <1>1, HandlerWaits
<1> QED
  BY <1>1, <1>2, <1>3, <1>4, <1>5, <1>6, StepKept

(* A request whose attempt on a host is over. *)
LEMMA AttemptOver ==
  ASSUME RouteIInv, NEW r \in Requests, UNCHANGED route, chat[r].at = "sent",
         NEW next, Become(r, next), ChatOK(next)', ~AtHost(next),
         Release(chat[r].host), depth' = depth + One(InQueue(next)),
         UNCHANGED <<storeVars, options, cancelled>>,
         refusals \subseteq refusals', refusals' \subseteq Creds
  PROVE  RouteIInv'
<1>1. chat[r].host \in 1..MaxHosts
  <2>1. chat[r].host \in 1..hosts /\ hosts \in 1..MaxHosts
    BY ChatFields DEF ChatOK
  <2> QED
    BY <2>1, HostAssumption
<1>2. Follows(r, next)
  BY <1>1, SlotGivenBack DEF RouteIInv, AtHost
<1>3. RestInv'
  BY RestKept DEF RouteIInv
<1>4. Moved(r, route[r].at) /\ StageOK(route[r].at, next.at)
  BY HandlerWaits
<1>5. hosts' = hosts
  BY DEF options
<1> QED
  BY <1>2, <1>3, <1>4, <1>5, StepKept

LEMMA NextHostKeeps ==
  ASSUME RouteIInv, NEW r \in Requests, UNCHANGED route, InChat(r, "sent"), NextHost(r),
         UNCHANGED <<storeVars, options, cancelled, refusals>>
  PROVE  RouteIInv'
<1> DEFINE c == chat[r]
<1>1. /\ c \in ChatCall /\ c.at = "sent" /\ c.host \in 1..hosts /\ c.cred \in Creds /\ ~c.refused
      /\ hosts \in 1..MaxHosts
  BY ChatFields DEF InChat, ChatOK
<1>2. refusals \subseteq refusals' /\ refusals' \subseteq Creds /\ hosts' = hosts
  BY DEF RouteIInv, RestInv, options
<1>3. Release(c.host) /\ depth \in Int
  BY FS_CardinalityType DEF NextHost, RouteIInv, CountInv
<1>4. CASE c.host < hosts
  <2>1. c.host \in 0..(hosts - 1)
    BY <1>1, <1>4, HostAssumption
  <2>2. PICK next \in ChatCall : next = Queue(c) /\ ChatOK(next) /\ next.at = "queued"
    <3>1. ChatOK(Queue(c)) /\ Queue(c).at = "queued"
      BY <1>1, <2>1, QueueFits DEF RouteIInv
    <3> QED
      BY <3>1 DEF ChatOK
  <2>3. Become(r, next) /\ depth' = depth + 1
    BY <1>4, <2>2 DEF NextHost
  <2>4. ~AtHost(next) /\ One(InQueue(next)) = 1
    BY <2>2 DEF AtHost, InQueue, One
  <2>5. ChatOK(next)'
    BY <1>2, <2>2, StaysFit
  <2> QED
    BY <1>1, <1>2, <1>3, <2>3, <2>4, <2>5, AttemptOver
<1>5. CASE ~(c.host < hosts)
  <2>1. 0 \in 0..MaxHosts
    BY HostAssumption
  <2>2. PICK next \in ChatCall : next = [c EXCEPT !.at = "rotate", !.host = 0]
    BY <1>1, <2>1 DEF ChatCall, Calls
  <2>3. next.at = "rotate" /\ next.cred = c.cred /\ next.refused = c.refused
    BY <1>1, <2>2 DEF ChatCall
  <2>4. Become(r, next) /\ depth' = depth
    BY <1>5, <2>2 DEF NextHost
  <2>5. ~AtHost(next) /\ One(InQueue(next)) = 0
    BY <2>3 DEF AtHost, InQueue, One
  <2>6. ChatOK(next)'
    BY <1>1, <2>3 DEF ChatOK
  <2>7. depth' = depth + One(InQueue(next))
    BY <1>3, <2>4, <2>5
  <2> QED
    BY <1>1, <1>2, <1>3, <2>4, <2>5, <2>6, <2>7, AttemptOver
<1> QED
  BY <1>4, <1>5

LEMMA TransportErrorKeeps ==
  ASSUME RouteIInv, NEW r \in Requests, TransportError(r), UNCHANGED route
  PROVE  RouteIInv'
<1>1. InChat(r, "sent") /\ UNCHANGED <<storeVars, options, cancelled, refusals>>
  BY DEF TransportError
<1>2. CASE cancelled[r]
  <2>1. Release(chat[r].host) /\ Become(r, ChatFailed) /\ depth' = depth
    BY <1>2 DEF TransportError
  <2>2. PICK next \in ChatCall : next = ChatFailed /\ ChatOK(next) /\ next.at = "failed"
    BY FreshCalls DEF RouteIInv, ChatOK
  <2>3. ~AtHost(next) /\ One(InQueue(next)) = 0
    BY <2>2 DEF AtHost, InQueue, One
  <2>4. depth' = depth + One(InQueue(next))
    BY <2>1, <2>3, FS_CardinalityType DEF RouteIInv, CountInv
  <2>5. refusals \subseteq refusals' /\ refusals' \subseteq Creds /\ hosts' = hosts
    BY <1>1 DEF RouteIInv, RestInv, options
  <2>6. ChatOK(next)'
    BY <2>2, <2>5, StaysFit
  <2> QED
    BY <1>1, <2>1, <2>2, <2>3, <2>4, <2>5, <2>6, AttemptOver DEF InChat
<1>3. CASE ~cancelled[r]
  BY <1>1, <1>3, NextHostKeeps DEF TransportError
<1> QED
  BY <1>2, <1>3

LEMMA CredRefusedKeeps ==
  ASSUME RouteIInv, NEW r \in Requests, CredRefused(r), UNCHANGED route
  PROVE  RouteIInv'
<1> DEFINE c == chat[r]
<1>1. c \in ChatCall /\ c.at = "sent" /\ c.cred \in Creds
  BY ChatFields DEF CredRefused, InChat, ChatOK
<1>2. 0 \in 0..MaxHosts
  BY HostAssumption
<1>3. PICK next \in ChatCall : next = [c EXCEPT !.at = "rotate", !.host = 0, !.refused = TRUE]
  BY <1>1, <1>2 DEF ChatCall, Calls
<1>4. next.at = "rotate" /\ next.cred = c.cred
  BY <1>1, <1>3 DEF ChatCall
<1>5. /\ Become(r, next) /\ Release(chat[r].host) /\ refusals' = refusals \cup {c.cred}
      /\ depth' = depth /\ UNCHANGED <<storeVars, options, cancelled>>
  BY <1>3 DEF CredRefused
<1>6. ChatOK(next)'
  BY <1>1, <1>4, <1>5 DEF ChatOK
<1>7. ~AtHost(next) /\ One(InQueue(next)) = 0
  BY <1>4 DEF AtHost, InQueue, One
<1>8. depth' = depth + One(InQueue(next))
  BY <1>5, <1>7, FS_CardinalityType DEF RouteIInv, CountInv
<1>9. refusals \subseteq refusals' /\ refusals' \subseteq Creds
  BY <1>1, <1>5 DEF RouteIInv, RestInv
<1> QED
  BY <1>1, <1>5, <1>6, <1>7, <1>8, <1>9, AttemptOver

LEMMA AnsweredKeeps ==
  ASSUME RouteIInv, NEW r \in Requests, Answered(r), UNCHANGED route
  PROVE  RouteIInv'
<1> DEFINE c == chat[r]
<1>1. c \in ChatCall /\ c.at = "sent" /\ c.host \in 1..hosts /\ c.cred \in Creds /\ ~c.refused
  BY ChatFields DEF Answered, InChat, ChatOK
<1>2. PICK status \in Statuses : Become(r, [c EXCEPT !.at = "answered", !.status = status])
  BY DEF Answered, Statuses
<1>3. PICK next \in ChatCall : next = [c EXCEPT !.at = "answered", !.status = status]
  BY <1>1 DEF ChatCall, Calls
<1>4. next.at = "answered" /\ next.host = c.host /\ next.cred = c.cred /\ next.refused = c.refused
  BY <1>1, <1>3 DEF ChatCall
<1>5. MarkSuccess(c.cred) /\ UNCHANGED <<now, options, gateVars, cancelled, refusals>>
  BY DEF Answered
<1>6. Become(r, next) /\ hosts' = hosts /\ refusals \subseteq refusals' /\ ChatOK(next)'
  BY <1>1, <1>2, <1>3, <1>4, <1>5 DEF ChatOK, options
<1>7. Follows(r, next)
  BY <1>1, <1>4, <1>5, NothingCounted DEF RouteIInv, InQueue, AtHost
<1>8. RestInv'
  <2>1. StoreTypeOK'
    BY <1>1, <1>5, StoreSteps DEF RouteIInv, RestInv
  <2> QED
    BY <1>5, <2>1, RestKeptByStore DEF RouteIInv
<1>9. Moved(r, route[r].at) /\ StageOK(route[r].at, next.at)
  BY <1>1, HandlerWaits
<1> QED
  BY <1>6, <1>7, <1>8, <1>9, StepKept

LEMMA RotateKeeps ==
  ASSUME RouteIInv, NEW r \in Requests, Rotate(r), UNCHANGED route
  PROVE  RouteIInv'
<1> DEFINE c == chat[r]
<1>1. c \in ChatCall /\ c.at = "rotate" /\ c.cred \in Creds
  BY ChatFields DEF Rotate, InChat, ChatOK
<1>2. PICK next \in ChatCall :
        Become(r, next) /\ ChatOK(next) /\ next.at \in {"pick", "failed"}
  BY <1>1, FreshCalls, NextCredFits DEF Rotate, RouteIInv, ChatOK
<1>3. UNCHANGED <<now, options, gateVars, cancelled, refusals>>
  BY DEF Rotate
<1>4. hosts' = hosts /\ refusals \subseteq refusals' /\ ChatOK(next)'
  BY <1>2, <1>3, StaysFit DEF options
<1>5. Follows(r, next)
  BY <1>1, <1>2, <1>3, NothingCounted DEF RouteIInv, InQueue, AtHost
<1>6. RestInv'
  <2>1. UNCHANGED rotationVars \/ PenalizeDetail(c.cred)
    BY DEF Rotate
  <2>2. StoreTypeOK'
    BY <1>1, <1>3, <2>1, StoreSteps DEF RouteIInv, RestInv
  <2> QED
    BY <1>3, <2>2, RestKeptByStore DEF RouteIInv
<1>7. Moved(r, route[r].at) /\ StageOK(route[r].at, next.at)
  BY <1>1, HandlerWaits
<1> QED
  BY <1>2, <1>4, <1>5, <1>6, <1>7, StepKept

LEMMA ChatStepKeeps ==
  ASSUME RouteIInv, NEW r \in Requests, ChatStep(r), UNCHANGED route
  PROVE  RouteIInv'
<1>1. CASE HostDown(r)
  BY <1>1, NextHostKeeps DEF HostDown
<1> QED
  BY <1>1, PickCredKeeps, NoCredLeftKeeps, AcquireKeeps, LeaveQueueKeeps, TransportErrorKeeps,
     CredRefusedKeeps, AnsweredKeeps, RotateKeeps DEF ChatStep

-----------------------------------------------------------------------------
(***************************************************************************)
(* The steps of the handler.  None of them takes or reports a credential.  *)
(***************************************************************************)
(* A step of the handler that leaves Chat alone. *)
LEMMA HandlerAlone ==
  ASSUME RouteIInv, NEW r \in Requests, UNCHANGED providerVars,
         NEW stage, Moved(r, stage), StageOK(stage, chat[r].at)
  PROVE  RouteIInv'
<1>1. UNCHANGED <<storeVars, options, gateVars, chat, cancelled, refusals>>
  BY DEF providerVars
<1>2. PICK next \in ChatCall : next = chat[r] /\ ChatOK(next)
  BY ChatFields
<1>3. Become(r, next)
  BY <1>1, <1>2 DEF Become, RouteIInv, ChatInv
<1>4. hosts' = hosts /\ refusals \subseteq refusals' /\ ChatOK(next)'
  BY <1>1, <1>2, StaysFit DEF options
<1>5. Follows(r, next)
  BY <1>1, <1>2, NothingCounted DEF RouteIInv
<1>6. RestInv'
  BY <1>1, RestKept DEF RouteIInv, RestInv
<1> QED
  BY <1>2, <1>3, <1>4, <1>5, <1>6, StepKept

(* A step of the handler that calls Chat, or leaves it, with no response in hand. *)
LEMMA HandlerCalls ==
  ASSUME RouteIInv, NEW r \in Requests, UNCHANGED <<Aside, gateVars>>,
         NEW next, next \in {NoChat, CallChat(Creds)}, Become(r, next),
         chat[r].at \in {"idle", "failed"},
         NEW stage, Moved(r, stage), StageOK(stage, next.at)
  PROVE  RouteIInv'
<1>1. UNCHANGED <<storeVars, options, gateVars, cancelled, refusals>>
  BY DEF Aside
<1>2. ChatOK(next) /\ next.at \in {"idle", "pick"}
  BY FreshCalls DEF RouteIInv
<1>3. hosts' = hosts /\ refusals \subseteq refusals' /\ ChatOK(next)'
  BY <1>1, <1>2, StaysFit DEF options
<1>4. Follows(r, next)
  BY <1>1, <1>2, NothingCounted DEF RouteIInv, InQueue, AtHost
<1>5. RestInv'
  BY <1>1, RestKept DEF RouteIInv, RestInv
<1> QED
  BY <1>2, <1>3, <1>4, <1>5, StepKept

(* A step of the handler that closes the body of the response in hand, if there is one:
   the slot it holds is given back, once. *)
LEMMA HandlerCloses ==
  ASSUME RouteIInv, NEW r \in Requests, UNCHANGED Aside,
         NEW next, next \in {NoChat, CallChat(Creds)}, CloseBody(r, next),
         chat[r].at \in {"idle", "failed", "answered"},
         NEW stage, Moved(r, stage), StageOK(stage, next.at)
  PROVE  RouteIInv'
<1>1. UNCHANGED <<storeVars, options, cancelled, refusals>> /\ depth' = depth /\ Become(r, next)
  BY DEF Aside, CloseBody
<1>2. ChatOK(next) /\ next.at \in {"idle", "pick"}
  BY FreshCalls DEF RouteIInv
<1>3. hosts' = hosts /\ refusals \subseteq refusals' /\ ChatOK(next)'
  BY <1>1, <1>2, StaysFit DEF options
<1>4. Follows(r, next)
  <2>1. CASE chat[r].at = "answered"
    <3>1. chat[r].host \in 1..hosts /\ hosts \in 1..MaxHosts
      BY <2>1, ChatFields DEF ChatOK
    <3>2. chat[r].host \in 1..MaxHosts
      BY <3>1, HostAssumption
    <3>3. Release(chat[r].host)
      BY <2>1 DEF CloseBody, InChat
    <3>4. AtHost(chat[r]) /\ ~AtHost(next) /\ One(InQueue(next)) = 0
      BY <1>2, <2>1 DEF AtHost, InQueue, One
    <3>5. depth' = depth + One(InQueue(next))
      BY <1>1, <3>4, FS_CardinalityType DEF RouteIInv, CountInv
    <3> QED
      BY <3>2, <3>3, <3>4, <3>5, SlotGivenBack DEF RouteIInv
  <2>2. CASE chat[r].at # "answered"
    <3>1. UNCHANGED gateVars
      BY <1>1, <2>2 DEF CloseBody, InChat, gateVars
    <3> QED
      BY <1>2, <2>2, <3>1, NothingCounted DEF RouteIInv, InQueue, AtHost
  <2> QED
    BY <2>1, <2>2
<1>5. RestInv'
  BY <1>1, RestKept DEF RouteIInv, RestInv
<1> QED
  BY <1>1, <1>2, <1>3, <1>4, <1>5, StepKept

LEMMA HandlerStepKeeps ==
  ASSUME RouteIInv, NEW r \in Requests, HandlerStep(r)
  PROVE  RouteIInv'
<1> USE DEF OnStage, Chatted
<1>1. RouteInv /\ StageOK(route[r].at, chat[r].at) /\ chat[r] \in ChatCall
  BY ChatFields DEF RouteIInv, RouteInv
<1>2. chat[r].status \in Statuses /\ route[r].resp \in Statuses
  BY <1>1 DEF ChatCall, RouteInv, Route
<1>3. CallChat(Creds).at = "pick" /\ NoChat.at = "idle"
  BY FreshCalls DEF RouteIInv
<1>4. /\ {"first", "plain", "checked", "swap", "relay"} \subseteq Stages
      /\ {"ok", "rejected", "down"} \subseteq Statuses
      /\ {"error", "served", "down"} \cup Statuses \subseteq Answers
  BY DEF Stages, Statuses, Answers
<1>5. CASE TryGated(r)
  <2>1. PICK injected \in BOOLEAN :
          route' = [route EXCEPT ![r].at = "first", ![r].injected = injected]
    BY <1>1, <1>5 DEF TryGated, RouteInv, Route
  <2>2. Moved(r, "first") /\ StageOK("first", CallChat(Creds).at)
    BY <1>1, <2>1, FirstChatMoves DEF StageOK
  <2>3. chat[r].at = "idle" /\ Become(r, CallChat(Creds)) /\ UNCHANGED <<Aside, gateVars>>
    BY <1>1, <1>5 DEF TryGated, StageOK
  <2> QED
    BY <2>2, <2>3, HandlerCalls
<1>6. CASE TryUnrouted(r) \/ TryUntranslatable(r) \/ TryOther(r)
  <2>1. route[r].at = "target" /\ UNCHANGED providerVars /\ chat[r].at = "idle"
    BY <1>1, <1>6 DEF TryUnrouted, TryUntranslatable, TryOther, StageOK
  <2>2. Moved(r, "target") \/ Moved(r, "done")
    BY <1>1, <1>4, <1>6, FallBackMoves, AnswerMoves DEF TryUnrouted, TryUntranslatable, TryOther
  <2>3. StageOK("target", chat[r].at) /\ StageOK("done", chat[r].at)
    BY <2>1 DEF StageOK
  <2> QED
    BY <2>1, <2>2, <2>3, HandlerAlone
<1>7. CASE ChatError(r)
  <2>1. Moved(r, "target") \/ Moved(r, "done")
    BY <1>1, <1>7, FallBackMoves DEF ChatError
  <2>2. StageOK("target", NoChat.at) /\ StageOK("done", NoChat.at)
    BY <1>3 DEF StageOK
  <2> QED
    BY <1>7, <2>1, <2>2, HandlerCalls DEF ChatError
<1>8. CASE ServerError(r)
  <2>1. Moved(r, "target") /\ StageOK("target", NoChat.at)
    BY <1>1, <1>3, <1>8, NextTargetMoves DEF ServerError, StageOK
  <2> QED
    BY <1>8, <2>1, HandlerCloses DEF ServerError
<1>9. CASE FirstStands(r)
  <2>1. Moved(r, "checked") /\ StageOK("checked", chat[r].at) /\ UNCHANGED providerVars
    BY <1>1, <1>2, <1>4, <1>9, Stepped DEF FirstStands, StageOK
  <2> QED
    BY <2>1, HandlerAlone
<1>10. CASE RetryPlain(r)
  <2>1. CASE Step(r, "plain", "rejected") /\ CloseBody(r, CallChat(Creds))
    <3>1. Moved(r, "plain") /\ StageOK("plain", CallChat(Creds).at)
      BY <1>1, <1>4, <2>1, Stepped DEF StageOK
    <3> QED
      BY <1>10, <2>1, <3>1, HandlerCloses DEF RetryPlain
  <2>2. CASE Step(r, "checked", "rejected") /\ CloseBody(r, NoChat)
    <3>1. Moved(r, "checked") /\ StageOK("checked", NoChat.at)
      BY <1>1, <1>3, <1>4, <2>2, Stepped DEF StageOK
    <3> QED
      BY <1>10, <2>2, <3>1, HandlerCloses DEF RetryPlain
  <2> QED
    BY <1>10, <2>1, <2>2 DEF RetryPlain
<1>11. CASE PlainReturned(r)
  <2>1. CASE chat[r].at = "answered" /\ Step(r, "checked", chat[r].status) /\ UNCHANGED chat
    <3>1. Moved(r, "checked") /\ StageOK("checked", chat[r].at)
      BY <1>1, <1>2, <1>4, <2>1, Stepped DEF StageOK
    <3>2. UNCHANGED providerVars
      BY <1>11, <2>1 DEF PlainReturned, Aside, providerVars, gateVars
    <3> QED
      BY <3>1, <3>2, HandlerAlone
  <2>2. CASE chat[r].at = "failed" /\ Step(r, "checked", "rejected") /\ Become(r, NoChat)
    <3>1. Moved(r, "checked") /\ StageOK("checked", NoChat.at)
      BY <1>1, <1>3, <1>4, <2>2, Stepped DEF StageOK
    <3> QED
      BY <1>11, <2>2, <3>1, HandlerCalls DEF PlainReturned
  <2> QED
    BY <1>11, <2>1, <2>2 DEF PlainReturned
<1>12. CASE SwapParam(r)
  <2>1. chat[r].at \in {"idle", "answered"} /\ UNCHANGED Aside
    BY <1>1, <1>12 DEF SwapParam, StageOK
  <2>2. CASE Step(r, "swap", "rejected") /\ CloseBody(r, CallChat(Creds))
    <3>1. Moved(r, "swap") /\ StageOK("swap", CallChat(Creds).at)
      BY <1>1, <1>4, <2>2, Stepped DEF StageOK
    <3> QED
      BY <2>1, <2>2, <3>1, HandlerCloses
  <2>3. CASE Step(r, "relay", "rejected") /\ CloseBody(r, NoChat)
    <3>1. Moved(r, "relay") /\ StageOK("relay", NoChat.at)
      BY <1>1, <1>3, <1>4, <2>3, Stepped DEF StageOK
    <3> QED
      BY <2>1, <2>3, <3>1, HandlerCloses
  <2> QED
    BY <1>12, <2>2, <2>3 DEF SwapParam
<1>13. CASE NothingToSwap(r)
  <2>1. Moved(r, "relay") /\ StageOK("relay", chat[r].at)
    BY <1>1, <1>2, <1>4, <1>13, Stepped DEF NothingToSwap, StageOK
  <2> QED
    BY <1>13, <2>1, HandlerAlone DEF NothingToSwap
<1>14. CASE SwapUseless(r)
  <2>1. Moved(r, "relay") /\ StageOK("relay", NoChat.at)
    BY <1>1, <1>3, <1>4, <1>14, Stepped DEF SwapUseless, StageOK
  <2> QED
    BY <1>14, <2>1, HandlerCloses DEF SwapUseless
<1>15. CASE SwapWorked(r)
  <2>1. Moved(r, "relay") /\ StageOK("relay", chat[r].at)
    BY <1>1, <1>4, <1>15, Stepped DEF SwapWorked, StageOK
  <2> QED
    BY <1>15, <2>1, HandlerAlone DEF SwapWorked
<1>16. CASE Relay(r)
  <2>1. Moved(r, "done") /\ StageOK("done", NoChat.at) /\ chat[r].at \in {"idle", "answered"}
    BY <1>1, <1>2, <1>3, <1>4, <1>16, AnswerMoves DEF Relay, StageOK
  <2> QED
    BY <1>16, <2>1, HandlerCloses DEF Relay
<1> QED
  BY <1>5, <1>6, <1>7, <1>8, <1>9, <1>10, <1>11, <1>12, <1>13, <1>14, <1>15, <1>16
  DEF HandlerStep

(* Nothing of the books moves when a client leaves, time passes or nothing happens. *)
LEMMA BystanderKeeps ==
  ASSUME RouteIInv, UNCHANGED <<options, gateVars, chat, refusals, route>>, RestInv'
  PROVE  RouteIInv'
BY DEF RouteIInv, ChatInv, RouteInv, CountInv, ChatOK, StageOK, Holders, HoldersOf, Queued,
       AtHost, AtHostOf, InQueue, Gated, options, gateVars

LEMMA RouteIInvInit == Init => RouteIInv
<1> SUFFICES ASSUME Init PROVE RouteIInv
  OBVIOUS
<1>1. RestInv
  BY StoreAssumption DEF Init, HostInit, StoreInit, RestInv, StoreTypeOK, Creds
<1>2. chat = [r \in Requests |-> NoChat]
  BY DEF Init, HostInit
<1>3. ChatOK(NoChat) /\ NoChat.at = "idle" /\ NoChat \in ChatCall
  BY <1>1, FreshCalls DEF ChatOK
<1>4. ChatInv
  BY <1>2, <1>3 DEF ChatInv
<1>5. RouteInv
  <2>1. PICK chains \in [Requests -> Chains], raw \in [Requests -> BOOLEAN] :
          route = [r \in Requests |-> [at |-> "target", targets |-> chains[r], tried |-> 1,
                     raw |-> raw[r], injected |-> FALSE, resp |-> "none", answer |-> "none"]]
    BY DEF Init
  <2>2. ASSUME NEW r \in Requests
        PROVE  /\ route[r] \in Route
               /\ route[r].tried <= Len(route[r].targets)
               /\ StageOK(route[r].at, chat[r].at)
    <3>1. chains[r] \in Chains /\ Len(chains[r]) \in 1..MaxTargets
      BY ChainLength
    <3>2. route[r].targets = chains[r] /\ route[r].tried = 1 /\ route[r].at = "target"
      BY <2>1
    <3>3. 1 \in 1..MaxTargets /\ 1 <= Len(chains[r])
      BY <3>1, RouteAssumption
    <3>4. route[r] \in Route
      BY <2>1, <3>1, <3>3 DEF Route, Stages, Statuses, Answers
    <3> QED
      BY <1>2, <1>3, <3>2, <3>3, <3>4 DEF StageOK
  <2>3. route = [r \in Requests |-> route[r]]
    BY <2>1
  <2> QED
    BY <2>2, <2>3 DEF RouteInv
<1>6. CountInv
  <2>1. Holders = {} /\ Queued = {} /\ \A h \in 1..MaxHosts : HoldersOf(h) = {}
    BY <1>2, <1>3 DEF Holders, HoldersOf, Queued, AtHost, AtHostOf, InQueue
  <2>2. IsFiniteSet({}) /\ Cardinality({}) = 0
    BY FS_EmptySet
  <2>3. \A h \in 1..MaxHosts : 0 <= Cap[h]
    BY HostAssumption
  <2>4. slots = [h \in 1..MaxHosts |-> 0] /\ depth = 0 /\ inflight = 0
    BY DEF Init, HostInit
  <2>5. IsFiniteSet(Holders) /\ inflight = Cardinality(Holders)
    BY <2>1, <2>2, <2>4
  <2>6. IsFiniteSet(Queued) /\ depth = Cardinality(Queued)
    BY <2>1, <2>2, <2>4
  <2>7. ASSUME NEW h \in 1..MaxHosts
        PROVE  IsFiniteSet(HoldersOf(h)) /\ slots[h] = Cardinality(HoldersOf(h)) /\ slots[h] = 0
    BY <2>1, <2>2, <2>4
  <2> QED
    BY <2>3, <2>4, <2>5, <2>6, <2>7 DEF CountInv
<1> QED
  BY <1>1, <1>4, <1>5, <1>6 DEF RouteIInv

LEMMA RouteIInvStep == RouteIInv /\ [Next]_routeVars => RouteIInv'
<1> SUFFICES ASSUME RouteIInv, [Next]_routeVars PROVE RouteIInv'
  OBVIOUS
<1>1. ASSUME NEW r \in Requests, RequestStep(r)
      PROVE  RouteIInv'
  BY <1>1, HandlerStepKeeps, ChatStepKeeps DEF RequestStep
<1>2. ASSUME NEW r \in Requests, Cancel(r)
      PROVE  RouteIInv'
  <2>1. RestInv'
    BY <1>2 DEF Cancel, RouteIInv, RestInv, StoreTypeOK, storeVars, rotationVars, options
  <2> QED
    BY <1>2, <2>1, BystanderKeeps DEF Cancel
<1>3. CASE TimePasses
  <2>1. RestInv'
    BY <1>3 DEF TimePasses, Tick, RouteIInv, RestInv, StoreTypeOK, rotationVars, options
  <2> QED
    BY <1>3, <2>1, BystanderKeeps DEF TimePasses
<1>4. CASE UNCHANGED routeVars
  <2>1. UNCHANGED <<storeVars, options, gateVars, chat, cancelled, refusals, route>>
    BY <1>4 DEF routeVars, providerVars
  <2>2. RestInv'
    BY <2>1, RestKept DEF RouteIInv, RestInv
  <2> QED
    BY <2>1, <2>2, BystanderKeeps
<1> QED
  BY <1>1, <1>2, <1>3, <1>4 DEF Next

(* Everything the handler, its provider and the store keep is of its type throughout;
   that no gauge goes below zero is part of it. *)
THEOREM RouteTypeCorrect == Spec => []RouteTypeOK
<1>1. RouteIInv => RouteTypeOK
  <2> SUFFICES ASSUME RouteIInv PROVE RouteTypeOK
    OBVIOUS
  <2>1. depth \in Nat /\ inflight \in Nat
    BY FS_CardinalityType DEF RouteIInv, CountInv
  <2>2. slots \in [1..MaxHosts -> Nat]
    <3>1. ASSUME NEW h \in 1..MaxHosts
          PROVE  slots[h] \in Nat
      <4>1. CASE Gated(h)
        <5>1. IsFiniteSet(HoldersOf(h)) /\ slots[h] = Cardinality(HoldersOf(h))
          BY <4>1 DEF RouteIInv, CountInv
        <5> QED
          BY <5>1, FS_CardinalityType
      <4>2. CASE ~Gated(h)
        BY <4>2 DEF RouteIInv, CountInv
      <4> QED
        BY <4>1, <4>2
    <3> QED
      BY <3>1 DEF RouteIInv, CountInv
  <2> QED
    BY <2>1, <2>2 DEF RouteIInv, RestInv, ChatInv, RouteInv, RouteTypeOK, HostTypeOK
<1> QED
  BY <1>1, RouteIInvInit, RouteIInvStep, PTL DEF Spec

(* Slots are exactly those of the requests at a host and both gauges agree, whatever
   the number of requests and hosts and the caps: none leaks, none is given back twice,
   and no host serves more than its cap. *)
THEOREM SlotsAreAccountedFor == Spec => []SlotsAccountedFor
<1>1. RouteIInv => SlotsAccountedFor
  <2> SUFFICES ASSUME RouteIInv PROVE SlotsAccountedFor
    OBVIOUS
  <2>1. ASSUME NEW r \in Requests, AtHost(chat[r])
        PROVE  ~OnStage(r, "done")
    BY <2>1 DEF RouteIInv, RouteInv, StageOK, OnStage, AtHost
  <2>2. \A h \in 1..MaxHosts : {r \in Requests : Holding(r, h)} = HoldersOf(h)
    BY <2>1 DEF Holding, HoldersOf, AtHostOf, AtHost
  <2>3. ASSUME NEW r \in Requests, AtHost(chat[r])
        PROVE  chat[r].host \in 1..MaxHosts
    <3>1. chat[r].host \in 1..hosts /\ hosts \in 1..MaxHosts
      BY <2>3, ChatFields DEF ChatOK, AtHost
    <3> QED
      BY <3>1, HostAssumption
  <2>4. {r \in Requests : \E h \in 1..MaxHosts : Holding(r, h)} = Holders
    BY <2>1, <2>3 DEF Holding, Holders, AtHost
  <2>5. {r \in Requests : InChat(r, "queued")} = Queued
    BY DEF InChat, Queued, InQueue
  <2> QED
    BY <2>2, <2>4, <2>5 DEF SlotsAccountedFor, RouteIInv, CountInv
<1> QED
  BY <1>1, RouteIInvInit, RouteIInvStep, PTL DEF Spec

-----------------------------------------------------------------------------
(* However many hosts fail, a credential of a keyless provider is out of the rotation
   only if upstream once refused it, for every number of requests and credentials. *)
THEOREM OverloadSidelinesNobody == Spec => []OverloadNeverSidelines
<1>1. Init => OverloadNeverSidelines
  BY DEF Init, HostInit, StoreInit, OverloadNeverSidelines
<1>2. RouteIInv /\ OverloadNeverSidelines /\ [Next]_routeVars => OverloadNeverSidelines'
  <2> SUFFICES ASSUME RouteIInv, OverloadNeverSidelines, [Next]_routeVars
               PROVE  OverloadNeverSidelines'
    OBVIOUS
  <2>1. CASE cooldownUntil' = cooldownUntil /\ penalizeTransport' = penalizeTransport
             /\ refusals \subseteq refusals'
    BY <2>1 DEF OverloadNeverSidelines
  <2>2. ASSUME NEW r \in Requests, Answered(r)
        PROVE  OverloadNeverSidelines'
    <3>1. cooldownUntil' = [cooldownUntil EXCEPT ![chat[r].cred] = 0]
      BY <2>2 DEF Answered, MarkSuccess
    <3>2. penalizeTransport' = penalizeTransport /\ refusals' = refusals
      BY <2>2 DEF Answered, options
    <3> QED
      BY <3>1, <3>2 DEF OverloadNeverSidelines, RouteIInv, RestInv, StoreTypeOK
  <2>3. ASSUME NEW r \in Requests, Rotate(r)
        PROVE  OverloadNeverSidelines'
    <3>1. UNCHANGED <<options, refusals>>
      BY <2>3 DEF Rotate
    <3>2. CASE UNCHANGED rotationVars
      BY <2>1, <3>1, <3>2 DEF options, rotationVars
    <3>3. CASE chat[r].refused /\ PenalizeDetail(chat[r].cred)
      <4>1. chat[r].cred \in refusals
        BY <3>3, ChatFields DEF ChatOK
      <4>2. cooldownUntil' = cooldownUntil
            \/ \E t : cooldownUntil' = [cooldownUntil EXCEPT ![chat[r].cred] = t]
        BY <3>3 DEF PenalizeDetail, CountFailure, rotationVars
      <4> QED
        BY <3>1, <4>1, <4>2 DEF OverloadNeverSidelines, options, RouteIInv, RestInv, StoreTypeOK
    <3>4. CASE penalizeTransport
      BY <3>1, <3>4 DEF OverloadNeverSidelines, options
    <3> QED
      BY <2>3, <3>2, <3>3, <3>4 DEF Rotate
  <2>4. ASSUME NEW r \in Requests, ChatStep(r)
        PROVE  OverloadNeverSidelines'
    <3>1. CASE PickCred(r) \/ NoCredLeft(r)
      BY <2>1, <3>1 DEF PickCred, NoCredLeft, NextOf, NextOfNone, options, rotationVars
    <3>2. CASE Acquire(r) \/ LeaveQueue(r) \/ TransportError(r) \/ HostDown(r) \/ CredRefused(r)
      BY <2>1, <3>2 DEF Acquire, LeaveQueue, TransportError, HostDown, CredRefused,
                        options, storeVars, rotationVars
    <3> QED
      BY <2>2, <2>3, <2>4, <3>1, <3>2 DEF ChatStep
  <2>5. ASSUME NEW r \in Requests, HandlerStep(r)
        PROVE  OverloadNeverSidelines'
    <3>1. UNCHANGED Aside
      BY <2>5 DEF HandlerStep, TryGated, TryUnrouted, TryUntranslatable, TryOther, ChatError,
                  ServerError, FirstStands, RetryPlain, PlainReturned, SwapParam, NothingToSwap,
                  SwapUseless, SwapWorked, Relay, providerVars, Aside
    <3> QED
      BY <2>1, <3>1 DEF Aside, options, storeVars, rotationVars
  <2>6. ASSUME NEW r \in Requests, Cancel(r)
        PROVE  OverloadNeverSidelines'
    BY <2>1, <2>6 DEF Cancel, options, storeVars, rotationVars
  <2>7. CASE TimePasses
    BY <2>1, <2>7 DEF TimePasses, Tick, options, rotationVars
  <2>8. CASE UNCHANGED routeVars
    BY <2>1, <2>8 DEF routeVars, providerVars, options, storeVars, rotationVars
  <2> QED
    BY <2>4, <2>5, <2>6, <2>7, <2>8 DEF Next, RequestStep
<1> QED
  BY <1>1, <1>2, RouteIInvInit, RouteIInvStep, PTL DEF Spec
=================================================================================
