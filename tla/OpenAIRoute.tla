------------------------------ MODULE OpenAIRoute ------------------------------
(***************************************************************************)
(* handleOpenAI and tryOpenAITarget (internal/server/server.go): a chat    *)
(* completion goes to its model, then to the fallback models, until one    *)
(* answers or the failure is the client's; a 400 or 422 may be retried     *)
(* without the usage option cerber added, then with the other spelling of  *)
(* the output-length parameter.  It composes HostGate, the provider most   *)
(* targets route to: a response the handler still reads holds a host slot. *)
(***************************************************************************)
EXTENDS HostGate, Sequences, FiniteSets

CONSTANT MaxTargets   \* the longest fallback chain considered

ASSUME RouteAssumption == MaxTargets \in Nat \ {0}

VARIABLE route   \* per request: its progress through the handler

routeVars == <<providerVars, route>>

(***************************************************************************)
(* Where a target leads: "gated" to the provider of HostGate; "other" to   *)
(* one whose answers are taken as they come (anthropic, comfyui);          *)
(* "unrouted" nowhere; "untranslatable" to a provider that would have to   *)
(* translate a compat=raw request.                                         *)
(***************************************************************************)
TargetKinds == {"gated", "other", "unrouted", "untranslatable"}
Chains == UNION {[1..n -> TargetKinds] : n \in 1..MaxTargets}
Kinds(chain) == {chain[i] : i \in DOMAIN chain}

(***************************************************************************)
(* target     about to try targets[tried]                                  *)
(* first      in Chat for the target                                       *)
(* plain      in Chat again, without the usage option cerber added         *)
(* checked    retryWithoutStreamUsage is done with the response            *)
(* swap       in Chat again, with the other output-length parameter        *)
(* relay      the response goes to the client                              *)
(***************************************************************************)
Stages == {"target", "first", "plain", "checked", "swap", "relay", "done"}
Answers == Statuses \cup {"error", "served"}   \* cerber's own error; another provider's answer

Route == [at : Stages, targets : Chains, tried : 1..MaxTargets,
          raw : BOOLEAN,        \* compat=raw: nothing added, nothing retried
          injected : BOOLEAN,   \* cerber added include_usage (stripUsage)
          resp : Statuses,      \* the response in hand, as buffered or as it came
          answer : Answers]     \* what the client got

RouteTypeOK ==
    /\ HostTypeOK
    /\ route \in [Requests -> Route]

Init ==
    /\ HostInit
    \* Only a raw request can be one that is not to be translated.
    /\ \E chains \in [Requests -> Chains], raw \in [Requests -> BOOLEAN] :
         /\ \A r \in Requests : "untranslatable" \in Kinds(chains[r]) => raw[r]
         /\ route = [r \in Requests |-> [at |-> "target", targets |-> chains[r], tried |-> 1,
                          raw |-> raw[r], injected |-> FALSE, resp |-> "none", answer |-> "none"]]

-----------------------------------------------------------------------------
OnStage(r, stage) == route[r].at = stage
Last(r) == route[r].tried = Len(route[r].targets)
Target(r) == route[r].targets[route[r].tried]
Chatted(r, place) == chat[r].at = place
Step(r, stage, resp) == route' = [route EXCEPT ![r].at = stage, ![r].resp = resp]
Aside == <<storeVars, options, cancelled, refusals>>

NextTarget(r) ==
    route' = [route EXCEPT ![r].at = "target", ![r].tried = @ + 1, ![r].injected = FALSE]

\* The outcome is recorded and written to the client.
Answer(r, answer) ==
    route' = [route EXCEPT ![r].at = "done", ![r].resp = "none", ![r].answer = answer]

\* A failure worth another target, or cerber's error once there is none.
FallBack(r) == IF Last(r) THEN Answer(r, "error") ELSE NextTarget(r)

TryGated(r) ==
    /\ OnStage(r, "target") /\ Target(r) = "gated"
    /\ Become(r, CallChat(Creds))
    /\ \E injected \in {FALSE} \cup {~route[r].raw} :
         route' = [route EXCEPT ![r].at = "first", ![r].injected = injected]
    /\ UNCHANGED <<Aside, gateVars>>

TryUnrouted(r) ==
    /\ OnStage(r, "target") /\ Target(r) = "unrouted"
    /\ FallBack(r)
    /\ UNCHANGED providerVars

\* Terminal by design, whatever targets are left.
TryUntranslatable(r) ==
    /\ OnStage(r, "target") /\ Target(r) = "untranslatable"
    /\ Answer(r, "error")
    /\ UNCHANGED providerVars

\* Another provider: no credential, a transport error or a 5xx falls back; what it
\* answers, or a request it cannot translate (BadRequestError), is final.
TryOther(r) ==
    /\ OnStage(r, "target") /\ Target(r) = "other"
    /\ FallBack(r) \/ Answer(r, "served") \/ Answer(r, "error") \/ (Last(r) /\ Answer(r, "down"))
    /\ UNCHANGED providerVars

ChatError(r) ==
    /\ OnStage(r, "first") /\ Chatted(r, "failed")
    /\ FallBack(r)
    /\ Become(r, NoChat)
    /\ UNCHANGED <<Aside, gateVars>>

\* A 5xx with targets left: close the body and try the next.
ServerError(r) ==
    /\ OnStage(r, "first") /\ Chatted(r, "answered")
    /\ chat[r].status = "down" /\ ~Last(r)
    /\ NextTarget(r)
    /\ CloseBody(r, NoChat)
    /\ UNCHANGED Aside

\* retryWithoutStreamUsage looks into a rejection of a request cerber added to: the
\* body is buffered and closed, and the client's own request is sent if that was why.
Suspect(r) == route[r].injected /\ chat[r].status = "rejected"

RetryPlain(r) ==
    /\ OnStage(r, "first") /\ Chatted(r, "answered") /\ Suspect(r)
    /\ \/ Step(r, "plain", "rejected") /\ CloseBody(r, CallChat(Creds))
       \/ Step(r, "checked", "rejected") /\ CloseBody(r, NoChat)
    /\ UNCHANGED Aside

FirstStands(r) ==
    /\ OnStage(r, "first") /\ Chatted(r, "answered")
    /\ ~Suspect(r)
    /\ chat[r].status = "down" => Last(r)
    /\ Step(r, "checked", chat[r].status)
    /\ UNCHANGED providerVars

\* The retry's response replaces the rejection; without one the rejection stands.
PlainReturned(r) ==
    /\ OnStage(r, "plain")
    /\ \/ Chatted(r, "answered") /\ Step(r, "checked", chat[r].status) /\ UNCHANGED chat
       \/ Chatted(r, "failed") /\ Step(r, "checked", "rejected") /\ Become(r, NoChat)
    /\ UNCHANGED <<Aside, gateVars>>

\* Mutant: the rejected response is closed only after its replacement arrived.
SwapHoldingBody(r) ==
    /\ OnStage(r, "checked") /\ route[r].resp = "rejected" /\ ~route[r].raw
    /\ Step(r, "swap", "rejected")
    /\ Become(r, CallChat(Creds))
    /\ UNCHANGED <<Aside, gateVars>>

\* retryTokenParam: the rejection is buffered and closed, and the request is sent again
\* if the output-length parameter was why.
SwapParam(r) ==
    /\ OnStage(r, "checked") /\ route[r].resp = "rejected" /\ ~route[r].raw
    /\ \/ Step(r, "swap", "rejected") /\ CloseBody(r, CallChat(Creds))
       \/ Step(r, "relay", "rejected") /\ CloseBody(r, NoChat)
    /\ UNCHANGED Aside

NothingToSwap(r) ==
    /\ OnStage(r, "checked")
    /\ route[r].resp = "rejected" => route[r].raw
    /\ Step(r, "relay", route[r].resp)
    /\ UNCHANGED providerVars

\* The retry failed or was refused too: it is closed, the original is replayed.
SwapUseless(r) ==
    /\ OnStage(r, "swap")
    /\ \/ Chatted(r, "failed")
       \/ Chatted(r, "answered") /\ chat[r].status # "ok"
    /\ Step(r, "relay", "rejected")
    /\ CloseBody(r, NoChat)
    /\ UNCHANGED Aside

SwapWorked(r) ==
    /\ OnStage(r, "swap") /\ Chatted(r, "answered") /\ chat[r].status = "ok"
    /\ Step(r, "relay", "ok")
    /\ UNCHANGED providerVars

\* relayChatter: stream or buffer, record, write; the deferred Close comes last.
Relay(r) ==
    /\ OnStage(r, "relay")
    /\ Answer(r, route[r].resp)
    /\ CloseBody(r, NoChat)
    /\ UNCHANGED Aside

HandlerStep(r) ==
    \/ TryGated(r) \/ TryUnrouted(r) \/ TryUntranslatable(r) \/ TryOther(r)
    \/ ChatError(r) \/ ServerError(r) \/ FirstStands(r)
    \/ RetryPlain(r) \/ PlainReturned(r)
    \/ SwapParam(r) \/ NothingToSwap(r) \/ SwapUseless(r) \/ SwapWorked(r)
    \/ Relay(r)

\* The client goes away.  Only waiting for a slot, sending and rotating look at it.
Cancel(r) ==
    /\ chat[r].at \in {"queued", "sent", "rotate"}
    /\ ~cancelled[r]
    /\ cancelled' = [cancelled EXCEPT ![r] = TRUE]
    /\ UNCHANGED <<storeVars, options, gateVars, chat, refusals, route>>

TimePasses == Tick /\ UNCHANGED <<options, gateVars, chat, cancelled, refusals, route>>

RequestStep(r) ==
    \/ HandlerStep(r)
    \/ ChatStep(r) /\ UNCHANGED route

Done == \A r \in Requests : OnStage(r, "done")

Next ==
    \/ \E r \in Requests : RequestStep(r) \/ Cancel(r)
    \/ TimePasses
    \/ Done /\ UNCHANGED routeVars

\* Every goroutine runs and every host answers, errs or times out.  A request sends a
\* bounded number of times, so a slot it waits for is free for good in the end, and
\* weak fairness is enough.  Nobody owes a cancellation or a tick.
Fairness == \A r \in Requests : WF_routeVars(RequestStep(r))

Spec == Init /\ [][Next]_routeVars
FairSpec == Spec /\ Fairness

-----------------------------------------------------------------------------
\* A request at a host, until its handler is over.
Holding(r, h) ==
    chat[r].at \in {"sent", "answered"} /\ chat[r].host = h /\ ~OnStage(r, "done")

\* Slots are exactly those of the requests at a host, a body being relayed included,
\* and both gauges agree, through failovers, retries and clients that leave: none
\* leaks, none is given back twice, and no host serves more than its cap.
SlotsAccountedFor ==
    /\ \A h \in 1..MaxHosts : Gated(h) =>
         slots[h] = Cardinality({r \in Requests : Holding(r, h)}) /\ slots[h] <= Cap[h]
    /\ inflight = Cardinality({r \in Requests : \E h \in 1..MaxHosts : Holding(r, h)})
    /\ depth = Cardinality({r \in Requests : InChat(r, "queued")})

\* RotateOpts.PenalizeTransport = false: however many hosts fail, a credential of a
\* keyless provider is out of the rotation only if upstream once refused it.
OverloadNeverSidelines ==
    ~penalizeTransport => \A c \in Creds : cooldownUntil[c] > 0 => c \in refusals

\* Every request gets its answer: no request waits for a slot it holds itself, and no
\* two wait for each other's, whatever hosts and other targets do.
EveryRequestEnds == \A r \in Requests : <>OnStage(r, "done")
=============================================================================
