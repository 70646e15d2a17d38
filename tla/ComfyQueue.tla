------------------------------- MODULE ComfyQueue -------------------------------
(***************************************************************************)
(* internal/provider/comfyui: a chat completion becomes a one-node prompt  *)
(* in the queue of a ComfyUI that other clients use too.  Chat submits it, *)
(* polls the history until it has an entry, and removes what it leaves     *)
(* behind; a stream is answered at once and filled by a goroutine.  The    *)
(* client may leave and MaxWait may pass at any point, every call may fail,*)
(* and ComfyUI, which is modelled from what its answers mean to the        *)
(* provider, takes its time, forgets and never has to answer.              *)
(***************************************************************************)
EXTENDS Integers, Sequences, SequencesExt

CONSTANTS
    Requests,      \* chats; the prompt of a chat has its name
    Foreign,       \* prompts of other clients
    Queries,       \* what chats ask, see Query
    Nobody,        \* nothing is running
    MaxRestarts    \* bound: restarts of ComfyUI

VARIABLES
    queue, running, history,  \* ComfyUI
    restarts,
    post,      \* per chat: how far its POST /prompt has come
    chat,      \* per chat: where Chat and wait are
    gone,      \* chats whose client has left: the context is cancelled
    expired,   \* chats whose MaxWait has passed
    lost       \* chats whose last best-effort call did not arrive

comfy == <<queue, running, history, restarts>>
comfyVars == <<comfy, post, chat, gone, expired, lost>>

Prompts == Requests \cup Foreign

-----------------------------------------------------------------------------
(***************************************************************************)
(* What buildInputs, validateMessages and stopJSON look at.  A message is  *)
(* a role and the kind of its content.                                     *)
(***************************************************************************)
Roles == {"system", "developer", "user", "assistant", "tool"}
Contents == {"text", "none", "textParts", "imagePart", "other"}
Query == [prefixed : BOOLEAN, tools : BOOLEAN, n : 0..2, stop : {"none", "one", "many", "other"},
          messages : Seq(Roles \X Contents), stream : BOOLEAN]

ASSUME ComfyAssumption ==
    /\ Requests \cap Foreign = {} /\ Nobody \notin Requests \cup Foreign
    /\ Queries \subseteq Query
    /\ MaxRestarts \in Nat

TextOnly(message) == message[1] # "tool" /\ message[2] \in {"text", "none", "textParts"}
Accepts(q) ==
    /\ q.prefixed /\ ~q.tools /\ q.n <= 1 /\ q.stop # "other"
    /\ q.messages # <<>> /\ \A i \in DOMAIN q.messages : TextOnly(q.messages[i])

(***************************************************************************)
(* What poll makes of a history entry: "absent" (there is none, or it has  *)
(* no output yet) means to go on, "text" is the answer, "error" a run that *)
(* failed or completed without a text; "failed" is a call that did.        *)
(***************************************************************************)
Entries == {"absent", "text", "error"}
Seen == Entries \cup {"failed"}
IsError(seen) == seen \in {"error", "failed"}

Places == {"idle", "submitting", "polling", "polled", "waiting", "ended"}
Endings == {"none", "refused", "failed", "answered", "abandoned"}
NoChat == [at |-> "idle", stream |-> FALSE, seen |-> "absent", end |-> "none"]

ComfyTypeOK ==
    /\ \A i, j \in DOMAIN queue : queue[i] \in Prompts /\ (queue[i] = queue[j] => i = j)
    /\ running \in Prompts \cup {Nobody} /\ ~Contains(queue, running)
    /\ history \in [Prompts -> Entries]
    /\ post \in [Requests -> {"none", "sent", "queued", "refused"}]
    /\ chat \in [Requests -> [at : Places, stream : BOOLEAN, seen : Seen, end : Endings]]
    /\ gone \subseteq Requests /\ expired \subseteq Requests /\ lost \subseteq Requests
    /\ restarts \in 0..MaxRestarts

Init ==
    /\ queue = <<>> /\ running = Nobody /\ history = [p \in Prompts |-> "absent"]
    /\ restarts = 0
    /\ post = [r \in Requests |-> "none"]
    /\ chat = [r \in Requests |-> NoChat]
    /\ gone = {} /\ expired = {} /\ lost = {}

-----------------------------------------------------------------------------
At(r, place) == chat[r].at = place
Goto(r, place) == chat' = [chat EXCEPT ![r].at = place, ![r].seen = "absent"]
\* What the chat was waiting for is forgotten with it; a POST under way is not.
End(r, how) ==
    /\ chat' = [chat EXCEPT ![r] = [NoChat EXCEPT !.at = "ended", !.end = how]]
    /\ post' = IF post[r] = "sent" THEN post ELSE [post EXCEPT ![r] = "none"]
    /\ gone' = gone \ {r} /\ expired' = expired \ {r}
\* Mutant: the context wait was given, without its deadline.
OuterDone(r) == r \in gone

Done(r) == r \in gone \cup expired   \* ctx.Err() # nil, in wait

\* postBestEffort: the call arrives, or it does not and nobody is told.
Without(r) ==
    IF Contains(queue, r) THEN RemoveAt(queue, CHOOSE i \in DOMAIN queue : queue[i] = r)
    ELSE queue

\* Mutant: what is running is interrupted, too.
InterruptingDequeue(r) ==
    \/ queue' = Without(r) /\ running' = Nobody /\ UNCHANGED <<history, restarts, lost>>
    \/ lost' = lost \cup {r} /\ UNCHANGED comfy

Dequeue(r) ==
    \/ queue' = Without(r) /\ UNCHANGED <<running, history, restarts, lost>>
    \/ lost' = lost \cup {r} /\ UNCHANGED comfy

Forget(r) ==
    \/ history' = [history EXCEPT ![r] = "absent"] /\ UNCHANGED <<queue, running, restarts, lost>>
    \/ lost' = lost \cup {r} /\ UNCHANGED comfy

-----------------------------------------------------------------------------
\* Chat.
Submit(r) ==
    /\ At(r, "idle")
    /\ \E q \in Queries :
         /\ chat' = [chat EXCEPT ![r] =
                IF Accepts(q) THEN [NoChat EXCEPT !.at = "submitting", !.stream = q.stream]
                ELSE [NoChat EXCEPT !.at = "ended", !.end = "refused"]]
         /\ post' = IF Accepts(q) THEN [post EXCEPT ![r] = "sent"] ELSE post
    /\ UNCHANGED <<comfy, gone, expired, lost>>

Submitted(r) ==
    /\ At(r, "submitting") /\ r \notin gone /\ post[r] = "queued"
    /\ Goto(r, "polling")
    /\ post' = [post EXCEPT ![r] = "none"]
    /\ UNCHANGED <<comfy, gone, expired, lost>>

\* A validation error of ComfyUI: a 400, not an error.
Rejected(r) ==
    /\ At(r, "submitting") /\ post[r] = "refused"
    /\ End(r, "refused")
    /\ UNCHANGED <<comfy, lost>>

\* The connection breaks, the client leaves, or the answer has no prompt_id.
SubmitFails(r) ==
    /\ At(r, "submitting")
    /\ End(r, "failed")
    /\ UNCHANGED <<comfy, lost>>

(***************************************************************************)
(* wait, one round: poll; an error ends it unless the context has ended;   *)
(* an answer ends it even then; a keep-alive is due now and then and fails *)
(* when nobody reads any more; then ctx.Done or the next tick, at random   *)
(* when both are ready.                                                    *)
(***************************************************************************)
Poll(r) ==
    /\ At(r, "polling")
    /\ \E seen \in {"failed"} \cup (IF Done(r) THEN {} ELSE {history[r]}) :
         chat' = [chat EXCEPT ![r].at = "polled", ![r].seen = seen]
    /\ UNCHANGED <<comfy, post, gone, expired, lost>>

PollError(r) ==
    /\ At(r, "polled") /\ IsError(chat[r].seen) /\ ~Done(r)
    /\ End(r, "failed")
    /\ UNCHANGED <<comfy, lost>>

Answered(r) ==
    /\ At(r, "polled") /\ chat[r].seen = "text"
    /\ Forget(r)
    /\ End(r, "answered")

Unfinished(r) ==
    \/ chat[r].seen = "absent"
    \/ IsError(chat[r].seen) /\ Done(r)

\* Mutant: a poll that finds nothing submits the prompt again.
ResubmittingNotYet(r) ==
    /\ At(r, "polled") /\ Unfinished(r)
    /\ Goto(r, "waiting")
    /\ post' = IF chat[r].seen = "absent" THEN [post EXCEPT ![r] = "sent"] ELSE post
    /\ UNCHANGED <<comfy, gone, expired, lost>>

NotYet(r) ==
    /\ At(r, "polled") /\ Unfinished(r)
    /\ Goto(r, "waiting")
    /\ UNCHANGED <<comfy, post, gone, expired, lost>>

KeepAliveFails(r) ==
    /\ At(r, "polled") /\ Unfinished(r)
    /\ chat[r].stream /\ r \in gone
    /\ Dequeue(r)
    /\ End(r, "abandoned")

\* Mutant: the prompt is left to ComfyUI when MaxWait has passed.
ImpatientLeave(r) ==
    /\ At(r, "waiting") /\ Done(r)
    /\ IF r \in gone THEN Dequeue(r) ELSE UNCHANGED <<comfy, lost>>
    /\ End(r, "abandoned")

Leave(r) ==
    /\ At(r, "waiting") /\ Done(r)
    /\ Dequeue(r)
    /\ End(r, "abandoned")

NextTick(r) ==
    /\ At(r, "waiting")
    /\ Goto(r, "polling")
    /\ UNCHANGED <<comfy, post, gone, expired, lost>>

ClientLeaves(r) ==
    /\ ~At(r, "idle") /\ ~At(r, "ended") /\ r \notin gone
    /\ gone' = gone \cup {r}
    /\ UNCHANGED <<comfy, post, chat, expired, lost>>

\* The deadline is wait's: the submission has only the client's patience.
MaxWaitPasses(r) ==
    /\ chat[r].at \in {"polling", "polled", "waiting"} /\ r \notin expired
    /\ expired' = expired \cup {r}
    /\ UNCHANGED <<comfy, post, chat, gone, lost>>

-----------------------------------------------------------------------------
\* ComfyUI: one prompt at a time, in the order they came.  A POST that was on its way
\* when its sender gave up may still arrive.
Quiet == UNCHANGED <<chat, gone, expired, lost>>

TakePost(r) ==
    /\ post[r] = "sent"
    /\ \/ post' = [post EXCEPT ![r] = "queued"] /\ queue' = Append(queue, r)
       \/ post' = [post EXCEPT ![r] = "refused"] /\ UNCHANGED queue
    /\ UNCHANGED <<running, history, restarts>> /\ Quiet

ForeignPrompt(f) ==
    /\ history[f] = "absent" /\ running # f /\ ~Contains(queue, f)
    /\ queue' = Append(queue, f)
    /\ UNCHANGED <<running, history, restarts, post>> /\ Quiet

StartNext ==
    /\ running = Nobody /\ queue # <<>>
    /\ running' = Head(queue) /\ queue' = Tail(queue)
    /\ UNCHANGED <<history, restarts, post>> /\ Quiet

Finish ==
    /\ running # Nobody
    /\ \E entry \in IF running \in Foreign THEN {"text"} ELSE {"text", "error"} :
         history' = [history EXCEPT ![running] = entry]
    /\ running' = Nobody
    /\ UNCHANGED <<queue, restarts, post>> /\ Quiet

ComfyRestarts ==
    /\ restarts < MaxRestarts /\ restarts' = restarts + 1
    /\ queue' = <<>> /\ running' = Nobody /\ history' = [p \in Prompts |-> "absent"]
    /\ UNCHANGED post /\ Quiet

-----------------------------------------------------------------------------
ChatStep(r) ==
    \/ Submitted(r) \/ Rejected(r) \/ SubmitFails(r)
    \/ Poll(r) \/ PollError(r) \/ Answered(r) \/ NotYet(r) \/ KeepAliveFails(r)
    \/ Leave(r) \/ NextTick(r)

ComfyStep ==
    \/ \E r \in Requests : TakePost(r)
    \/ \E f \in Foreign : ForeignPrompt(f)
    \/ StartNext \/ Finish \/ ComfyRestarts

Next ==
    \/ \E r \in Requests : Submit(r) \/ ChatStep(r) \/ ClientLeaves(r) \/ MaxWaitPasses(r)
    \/ ComfyStep

(***************************************************************************)
(* A goroutine that can go on does, time passes, and a call ends (the      *)
(* transport's own limits, upstreamRoundTripper in main.go): a select with *)
(* two ready cases takes either one often enough (SF on Leave).  No        *)
(* fairness is asked of ComfyUI: it may hang, and of no client.            *)
(***************************************************************************)
Fairness ==
    \A r \in Requests : WF_comfyVars(ChatStep(r)) /\ WF_comfyVars(MaxWaitPasses(r)) /\ SF_comfyVars(Leave(r))

Spec == Init /\ [][Next]_comfyVars /\ Fairness

-----------------------------------------------------------------------------
(***************************************************************************)
(* What a chat that got into the queue leaves there.  One that was         *)
(* abandoned is not waiting in the queue any more (it may be running: the  *)
(* provider never interrupts), one that was answered has no entry in the   *)
(* history, and one that was refused was never queued, whatever ComfyUI    *)
(* did between a poll and the call that tidies up, unless that very call   *)
(* was lost (wait, dequeue, forget).                                       *)
(***************************************************************************)
Pending(r) == Contains(queue, r)
NothingLeftBehind ==
    \A r \in Requests \ lost :
        /\ chat[r].end = "abandoned" => ~Pending(r)
        /\ chat[r].end = "answered" => ~Pending(r) /\ running # r /\ history[r] = "absent"
        /\ chat[r].end = "refused" => ~Pending(r) /\ running # r

(***************************************************************************)
(* A prompt that is queued or running comes to its own end: a chat that is *)
(* cancelled or times out takes at most its own out of the queue, never    *)
(* another client's or another chat's, and stops nothing that has started  *)
(* (wait: "ComfyUI can only interrupt whatever is running, which may be    *)
(* someone else's job"; docs/providers/comfyui.md:74-76).                  *)
(***************************************************************************)
Underway(p) == Contains(queue, p) \/ running = p
Vanishes(p) == Underway(p) /\ ~Underway(p)' /\ history'[p] = "absent" /\ restarts' = restarts
OthersUndisturbed ==
    [][\A p \in Prompts : Vanishes(p) =>
        p \in Requests /\ chat[p].end = "none" /\ chat'[p].end = "abandoned" /\ running # p]_comfyVars

(***************************************************************************)
(* Every chat ends, though ComfyUI may never run its prompt, may lose it   *)
(* in a restart, and may fail every call (wait: MaxWait).                  *)
(***************************************************************************)
EveryChatEnds == \A r \in Requests : At(r, "submitting") ~> At(r, "ended")
=============================================================================
