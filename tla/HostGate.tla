------------------------------- MODULE HostGate -------------------------------
(***************************************************************************)
(* openai.Provider (internal/provider/openai/openai.go): Chat, and the other*)
(* forwarding calls, which rotate over the provider's credentials with     *)
(* provider.RotateFilteredOpts and, for each, over its hosts with sendHosts.*)
(* A host with a cap has a semaphore: a slot is taken before the request is*)
(* sent and given back when the attempt fails or, if it does not, when the *)
(* handler closes the response body.                                       *)
(***************************************************************************)
EXTENDS CredentialStore

CONSTANTS
    Requests,    \* client requests, each in at most one Chat at a time
    MaxHosts,    \* the longest list of hosts considered
    Cap          \* per host: its slots; 0 is unlimited

NoCred == 0

ASSUME HostAssumption ==
    /\ MaxHosts \in Nat \ {0}
    /\ Cap \in [1..MaxHosts -> Nat]

VARIABLES
    hosts,              \* number of hosts configured; never changes
    penalizeTransport,  \* RotateOpts.PenalizeTransport; never changes
    slots,              \* per host: slots taken from its semaphore
    depth, inflight,    \* the gauges of QueueMetrics
    chat,               \* per request: its call of Chat
    cancelled,          \* per request: its context is done
    refusals            \* history: credentials upstream ever refused

gateVars == <<slots, depth, inflight>>
options == <<hosts, penalizeTransport>>
providerVars == <<storeVars, options, gateVars, chat, cancelled, refusals>>

(***************************************************************************)
(* pick       about to call NextOf                                         *)
(* queued     request built, waiting for a slot of host                    *)
(* sent       holding a slot, waiting for the host's answer                *)
(* rotate     sendHosts failed, or the credential was refused              *)
(* answered   Chat returned a response, whose body holds the slot          *)
(* failed     Chat returned an error                                       *)
(***************************************************************************)
Calls == {"idle", "pick", "queued", "sent", "rotate", "answered", "failed"}
Statuses == {"none", "ok", "rejected", "down"}   \* 400 or 422 is "rejected", 5xx is "down"

NoChat == [at |-> "idle", match |-> {}, cred |-> NoCred, attempt |-> 0, host |-> 0,
           status |-> "none", refused |-> FALSE]
ChatCall == [at : Calls, match : SUBSET Creds, cred : Creds \cup {NoCred}, attempt : 0..N,
             host : 0..MaxHosts, status : Statuses, refused : BOOLEAN]

HostTypeOK ==
    /\ StoreTypeOK
    /\ hosts \in 1..MaxHosts
    /\ penalizeTransport \in BOOLEAN
    /\ slots \in [1..MaxHosts -> Nat]
    /\ depth \in Nat
    /\ inflight \in Nat
    /\ chat \in [Requests -> ChatCall]
    /\ cancelled \in [Requests -> BOOLEAN]
    /\ refusals \subseteq Creds

HostInit ==
    /\ StoreInit
    /\ hosts \in 1..MaxHosts
    /\ penalizeTransport \in BOOLEAN
    /\ slots = [h \in 1..MaxHosts |-> 0]
    /\ depth = 0
    /\ inflight = 0
    /\ chat = [r \in Requests |-> NoChat]
    /\ cancelled = [r \in Requests |-> FALSE]
    /\ refusals = {}

-----------------------------------------------------------------------------
InChat(r, place) == chat[r].at = place
Become(r, next) == chat' = [chat EXCEPT ![r] = next]
Gated(h) == Cap[h] > 0

\* release, run once: on failure by sendHosts, otherwise by gatedBody.Close.
Release(h) ==
    /\ slots' = [slots EXCEPT ![h] = IF Gated(h) THEN @ - 1 ELSE @]
    /\ inflight' = inflight - 1

\* The request is built for a host and joins its queue.
Queue(c) == [c EXCEPT !.at = "queued", !.host = @ + 1]

CallChat(match) == [NoChat EXCEPT !.at = "pick", !.match = match]
ChatFailed == [NoChat EXCEPT !.at = "failed"]

PickCred(r) ==
    /\ InChat(r, "pick")
    /\ \E c \in Creds :
         /\ NextOf(chat[r].match, c)
         /\ Become(r, Queue([chat[r] EXCEPT !.cred = c, !.attempt = @ + 1, !.host = 0]))
    /\ depth' = depth + 1
    /\ UNCHANGED <<now, options, slots, inflight, cancelled, refusals>>

NoCredLeft(r) ==
    /\ InChat(r, "pick")
    /\ NextOfNone(chat[r].match)
    /\ Become(r, ChatFailed)
    /\ UNCHANGED <<now, options, gateVars, cancelled, refusals>>

Acquire(r) ==
    LET h == chat[r].host IN
    /\ InChat(r, "queued")
    /\ Gated(h) => slots[h] < Cap[h]
    /\ slots' = [slots EXCEPT ![h] = IF Gated(h) THEN @ + 1 ELSE @]
    /\ depth' = depth - 1
    /\ inflight' = inflight + 1
    /\ Become(r, [chat[r] EXCEPT !.at = "sent"])
    /\ UNCHANGED <<storeVars, options, cancelled, refusals>>

\* Mutant: leaving the queue gives back a slot that was not taken.
LeaveQueueReleasing(r) ==
    /\ InChat(r, "queued")
    /\ Gated(chat[r].host)
    /\ cancelled[r]
    /\ Release(chat[r].host)
    /\ depth' = depth - 1
    /\ Become(r, ChatFailed)
    /\ UNCHANGED <<storeVars, options, cancelled, refusals>>

\* The context ends while the request waits for a slot; Chat returns its error.
LeaveQueue(r) ==
    /\ InChat(r, "queued")
    /\ Gated(chat[r].host)
    /\ cancelled[r]
    /\ depth' = depth - 1
    /\ Become(r, ChatFailed)
    /\ UNCHANGED <<storeVars, options, slots, inflight, cancelled, refusals>>

\* Mutant: failover forgets the slot of the host that failed.
NextHostKeepingSlot(r) ==
    /\ UNCHANGED <<slots, inflight>>
    /\ IF chat[r].host < hosts
       THEN Become(r, Queue(chat[r])) /\ depth' = depth + 1
       ELSE Become(r, [chat[r] EXCEPT !.at = "rotate", !.host = 0]) /\ UNCHANGED depth

\* The attempt on this host failed: give its slot back and join the queue of the next,
\* or hand the error to the rotation.
NextHost(r) ==
    /\ Release(chat[r].host)
    /\ IF chat[r].host < hosts
       THEN Become(r, Queue(chat[r])) /\ depth' = depth + 1
       ELSE Become(r, [chat[r] EXCEPT !.at = "rotate", !.host = 0]) /\ UNCHANGED depth

\* Do returns an error: the client went away, or the host is unreachable.
TransportError(r) ==
    /\ InChat(r, "sent")
    /\ IF cancelled[r]
       THEN Release(chat[r].host) /\ Become(r, ChatFailed) /\ UNCHANGED depth
       ELSE NextHost(r)
    /\ UNCHANGED <<storeVars, options, cancelled, refusals>>

\* A 5xx fails over when there is more than one host.
HostDown(r) ==
    /\ InChat(r, "sent")
    /\ hosts > 1
    /\ NextHost(r)
    /\ UNCHANGED <<storeVars, options, cancelled, refusals>>

\* 401, 403 or 429: the body is closed, the credential is at fault.
CredRefused(r) ==
    /\ InChat(r, "sent")
    /\ Release(chat[r].host)
    /\ Become(r, [chat[r] EXCEPT !.at = "rotate", !.host = 0, !.refused = TRUE])
    /\ refusals' = refusals \cup {chat[r].cred}
    /\ UNCHANGED <<storeVars, options, depth, cancelled>>

\* Any other status: the credential is good, and the response goes to the handler.
Answered(r) ==
    /\ InChat(r, "sent")
    /\ MarkSuccess(chat[r].cred)
    /\ \E status \in {"ok", "rejected"} \cup (IF hosts = 1 THEN {"down"} ELSE {}) :
         Become(r, [chat[r] EXCEPT !.at = "answered", !.status = status])
    /\ UNCHANGED <<now, options, gateVars, cancelled, refusals>>

\* continue: the next credential, or out of the loop with the last error.
NextCred(c) ==
    IF c.attempt < N
    THEN [NoChat EXCEPT !.at = "pick", !.match = c.match, !.attempt = c.attempt]
    ELSE ChatFailed

\* Mutant: a transport error always sidelines.
RotateRegardless(r) ==
    /\ InChat(r, "rotate")
    /\ PenalizeDetail(chat[r].cred)
    /\ Become(r, NextCred(chat[r]))
    /\ UNCHANGED <<now, options, gateVars, cancelled, refusals>>

\* The rotation takes the failure: a client that went away is nobody's fault; a refused
\* credential is sidelined, and so is one whose hosts failed unless the provider is
\* keyless.
Rotate(r) ==
    LET transport == ~chat[r].refused
    IN  /\ InChat(r, "rotate")
        /\ \/ transport /\ cancelled[r] /\ Become(r, ChatFailed) /\ UNCHANGED rotationVars
           \/ transport /\ ~cancelled[r] /\ ~penalizeTransport
              /\ Become(r, NextCred(chat[r])) /\ UNCHANGED rotationVars
           \/ (transport => penalizeTransport /\ ~cancelled[r])
              /\ PenalizeDetail(chat[r].cred) /\ Become(r, NextCred(chat[r]))
        /\ UNCHANGED <<now, options, gateVars, cancelled, refusals>>

\* The handler closes the response body (gatedBody.Close), once however often it asks;
\* next is its next call of Chat, or none.
CloseBody(r, next) ==
    /\ IF InChat(r, "answered") THEN Release(chat[r].host) ELSE UNCHANGED <<slots, inflight>>
    /\ Become(r, next)
    /\ UNCHANGED depth

ChatStep(r) ==
    \/ PickCred(r) \/ NoCredLeft(r) \/ Acquire(r) \/ LeaveQueue(r)
    \/ TransportError(r) \/ HostDown(r) \/ CredRefused(r) \/ Answered(r) \/ Rotate(r)
=============================================================================
