------------------------- MODULE ForeignUpstreams_proofs -------------------------
(***************************************************************************)
(* What is proved of the upstreams that do not speak the client's dialect. *)
(* First ComfyUI: a chat cleans up after itself in the shared queue and    *)
(* disturbs nobody else's prompt, for every set of chats and of foreign    *)
(* prompts.  Then the translated conversation: a client is told the same   *)
(* whether it streams or not, and an upstream reads what was said, for     *)
(* every number of turns, length of an answer and set of tools.            *)
(***************************************************************************)
EXTENDS ComfyQueue, Dialogue, FiniteSetTheorems, SequenceTheorems, WellFoundedInduction, TLAPS

(* A queue in which every prompt has one place. *)
Distinct(s) == s \in Seq(Prompts) /\ \A i, j \in DOMAIN s : s[i] = s[j] => i = j

(* A prompt that joins is in the queue with those that were. *)
LEMMA AppendHas ==
  ASSUME NEW s \in Seq(Prompts), NEW x \in Prompts, Distinct(s), ~Contains(s, x)
  PROVE  Distinct(Append(s, x)) /\ \A p : Contains(Append(s, x), p) <=> Contains(s, p) \/ p = x
BY DEF Distinct, Contains

(* The one that starts is not waiting any more. *)
LEMMA TailHas ==
  ASSUME NEW s \in Seq(Prompts), Distinct(s), s # <<>>
  PROVE  /\ Head(s) \in Prompts /\ Contains(s, Head(s)) /\ Distinct(Tail(s))
         /\ \A p : Contains(Tail(s), p) <=> Contains(s, p) /\ p # Head(s)
BY DEF Distinct, Contains

(* Removing one entry removes its prompt, and no other. *)
LEMMA RemoveAtHas ==
  ASSUME NEW s \in Seq(Prompts), Distinct(s), NEW i \in DOMAIN s
  PROVE  /\ Distinct(RemoveAt(s, i))
         /\ \A p : Contains(RemoveAt(s, i), p) <=> Contains(s, p) /\ p # s[i]
<1> DEFINE t == RemoveAt(s, i)
           pos(k) == IF k < i THEN k ELSE k + 1
<1>1. Len(s) \in Nat /\ i \in 1..Len(s)
  OBVIOUS
<1>2. /\ t \in Seq(Prompts) /\ Len(t) = Len(s) - 1
      /\ \A k \in 1..Len(t) : t[k] = s[pos(k)]
  <2> DEFINE a == SubSeq(s, 1, i - 1)
             b == SubSeq(s, i + 1, Len(s))
  <2>1. a \in Seq(Prompts) /\ Len(a) = i - 1 /\ \A k \in 1..(i - 1) : a[k] = s[k]
    BY <1>1
  <2>2. b \in Seq(Prompts) /\ Len(b) = Len(s) - i /\ \A k \in 1..(Len(s) - i) : b[k] = s[i + k]
    BY <1>1
  <2>3. t = a \o b
    BY DEF RemoveAt
  <2> HIDE DEF a, b, t
  <2>4. t \in Seq(Prompts) /\ Len(t) = Len(s) - 1
    BY <1>1, <2>1, <2>2, <2>3
  <2>5. ASSUME NEW k \in 1..(Len(s) - 1)
        PROVE  t[k] = s[pos(k)]
    <3>1. CASE k < i
      <4>1. k \in 1..(i - 1) /\ pos(k) = k
        BY <1>1, <3>1
      <4>2. t[k] = a[k]
        BY <2>1, <2>2, <2>3, <4>1
      <4> QED
        BY <2>1, <4>1, <4>2
    <3>2. CASE ~(k < i)
      <4>1. k + 1 - i \in 1..(Len(s) - i) /\ pos(k) = k + 1 /\ i + (k + 1 - i) = k + 1
        BY <1>1, <3>2
      <4>2. t[k] = b[k + 1 - i]
        <5>1. k - Len(a) = k + 1 - i /\ k \in 1..(Len(a) + Len(b)) /\ ~(k <= Len(a))
          <6>1. Len(a) = i - 1 /\ Len(b) = Len(s) - i
            BY <2>1, <2>2
          <6>2. PICK m \in Nat, n \in Nat : m = Len(s) /\ n = i
            BY <1>1
          <6>3. k \in Int /\ 1 <= k /\ k <= m - 1 /\ n <= k /\ n <= m /\ 1 <= n
            BY <1>1, <3>2, <6>2
          <6>4. k - (n - 1) = k + 1 - n /\ k \in 1..((n - 1) + (m - n)) /\ ~(k <= n - 1)
            BY <6>2, <6>3
          <6> QED
            BY <6>1, <6>2, <6>4
        <5>2. (a \o b)[k] = IF k <= Len(a) THEN a[k] ELSE b[k - Len(a)]
          BY <2>1, <2>2, <5>1, ConcatProperties
        <5> QED
          BY <2>3, <5>1, <5>2
      <4> HIDE DEF pos
      <4> QED
        BY <2>2, <4>1, <4>2
    <3> QED
      BY <3>1, <3>2
  <2> QED
    BY <2>4, <2>5
<1> HIDE DEF t
<1>3. \A k \in 1..Len(t) : pos(k) \in 1..Len(s) /\ pos(k) # i
  BY <1>1, <1>2
<1>4. \A j, k \in 1..Len(s) : s[j] = s[k] => j = k
  BY <1>1 DEF Distinct
<1>5. \A j, k \in 1..Len(t) : pos(j) = pos(k) => j = k
  BY <1>1, <1>2
<1>6. Distinct(t)
  <2> SUFFICES ASSUME NEW j \in 1..Len(t), NEW k \in 1..Len(t), t[j] = t[k]
               PROVE  j = k
    BY <1>2 DEF Distinct
  <2>1. s[pos(j)] = s[pos(k)]
    BY <1>2
  <2>2. pos(j) = pos(k)
    <3> HIDE DEF pos
    <3> QED
      BY <1>3, <1>4, <2>1
  <2> QED
    BY <1>5, <2>2
<1>7. ASSUME NEW p, Contains(t, p)
      PROVE  Contains(s, p) /\ p # s[i]
  <2>1. PICK k \in 1..Len(t) : t[k] = p
    BY <1>7 DEF Contains
  <2>2. s[pos(k)] = p /\ pos(k) \in 1..Len(s) /\ pos(k) # i
    BY <1>2, <1>3, <2>1
  <2> HIDE DEF pos
  <2> QED
    BY <1>1, <1>4, <2>2 DEF Contains
<1>8. ASSUME NEW p, Contains(s, p), p # s[i]
      PROVE  Contains(t, p)
  <2>1. PICK k \in 1..Len(s) : s[k] = p
    BY <1>8 DEF Contains
  <2>2. CASE k < i
    <3>1. k \in 1..Len(t) /\ t[k] = p
      BY <1>1, <1>2, <2>1, <2>2
    <3> QED
      BY <3>1 DEF Contains
  <2>3. CASE k > i
    <3>1. k - 1 \in 1..Len(t) /\ t[k - 1] = p
      BY <1>1, <1>2, <2>1, <2>3
    <3> QED
      BY <3>1 DEF Contains
  <2> QED
    BY <1>1, <1>8, <2>1, <2>2, <2>3
<1> QED
  BY <1>6, <1>7, <1>8 DEF t

(* Taking a prompt out of the queue takes nothing else out. *)
LEMMA WithoutHas ==
  ASSUME Distinct(queue), NEW r
  PROVE  /\ Distinct(Without(r))
         /\ \A p : Contains(Without(r), p) <=> Contains(queue, p) /\ p # r
<1>1. CASE Contains(queue, r)
  <2>1. PICK i \in DOMAIN queue : i = (CHOOSE j \in DOMAIN queue : queue[j] = r) /\ queue[i] = r
    BY <1>1 DEF Contains, Distinct
  <2>2. Without(r) = RemoveAt(queue, i)
    BY <1>1, <2>1 DEF Without
  <2>3. queue \in Seq(Prompts)
    BY DEF Distinct
  <2> QED
    BY <2>1, <2>2, <2>3, RemoveAtHas
<1>2. CASE ~Contains(queue, r)
  BY <1>2 DEF Without
<1> QED
  BY <1>1, <1>2

-----------------------------------------------------------------------------
ChatRecord == [at : Places, stream : BOOLEAN, seen : Seen, end : Endings]
Posts == {"none", "sent", "queued", "refused"}

(* A prompt is in one place at most, queued or running. *)
QueueInv ==
    /\ Distinct(queue)
    /\ running \in Prompts \cup {Nobody} /\ ~Contains(queue, running)
    /\ history \in [Prompts -> Entries]

TypeInv ==
    /\ post \in [Requests -> Posts]
    /\ chat \in [Requests -> ChatRecord]
    /\ gone \subseteq Requests /\ expired \subseteq Requests /\ lost \subseteq Requests
    /\ restarts \in 0..MaxRestarts

Clear(r) == ~Pending(r) /\ running # r /\ history[r] = "absent"

TidyOrLost(r) ==
    r \notin lost =>
        /\ chat[r].end = "abandoned" => ~Pending(r)
        /\ chat[r].end = "answered" => Clear(r)
        /\ chat[r].end = "refused" => ~Pending(r) /\ running # r

(* What a chat leaves behind follows from what it knows: a POST that is still on its way,
   or was refused, has put nothing into ComfyUI, and a prompt whose end was seen is in
   none of its queues, for it is never submitted again. *)
ChatInv(r) ==
    /\ chat[r].at = "idle" => post[r] = "none" /\ Clear(r)
    /\ chat[r].at # "ended" => chat[r].end = "none"
    /\ chat[r].at \in {"polling", "polled", "waiting"} => post[r] = "none"
    /\ chat[r].end \in {"abandoned", "answered", "refused"} => post[r] = "none"
    /\ post[r] \in {"sent", "refused"} => Clear(r)
    /\ chat[r].at = "polled" /\ chat[r].seen = "text" => ~Pending(r) /\ running # r
    /\ history[r] # "absent" => ~Pending(r) /\ running # r
    /\ TidyOrLost(r)

ComfyIInv == QueueInv /\ TypeInv /\ \A r \in Requests : ChatInv(r)

-----------------------------------------------------------------------------
(***************************************************************************)
(* What one step does to the record of a chat.                             *)
(***************************************************************************)
LEMMA ChatTyped ==
  ASSUME TypeInv, NEW r \in Requests
  PROVE  /\ chat[r] \in ChatRecord /\ chat[r].at \in Places /\ chat[r].stream \in BOOLEAN
         /\ chat[r].seen \in Seen /\ chat[r].end \in Endings /\ post[r] \in Posts
BY DEF TypeInv, ChatRecord

(* A chat that goes on, whatever it has seen. *)
LEMMA GoesOn ==
  ASSUME TypeInv, NEW r \in Requests, NEW place \in Places, NEW seen \in Seen,
         chat' = [chat EXCEPT ![r].at = place, ![r].seen = seen]
  PROVE  /\ chat' \in [Requests -> ChatRecord]
         /\ chat'[r].at = place /\ chat'[r].seen = seen /\ chat'[r].end = chat[r].end
         /\ \A q \in Requests \ {r} : chat'[q] = chat[q]
<1>1. PICK c \in ChatRecord : c = chat[r]
  BY ChatTyped
<1> DEFINE d == [c EXCEPT !.at = place, !.seen = seen]
<1>2. d \in ChatRecord /\ d.at = place /\ d.seen = seen /\ d.end = c.end
  BY DEF ChatRecord
<1>3. chat' = [chat EXCEPT ![r] = d]
  BY <1>1 DEF TypeInv
<1> HIDE DEF d
<1> QED
  BY <1>1, <1>2, <1>3 DEF TypeInv

(* A chat that becomes something else. *)
LEMMA Turns ==
  ASSUME TypeInv, NEW r \in Requests, NEW d \in ChatRecord, chat' = [chat EXCEPT ![r] = d]
  PROVE  /\ chat' \in [Requests -> ChatRecord] /\ chat'[r] = d
         /\ \A q \in Requests \ {r} : chat'[q] = chat[q]
BY DEF TypeInv

LEMMA EndingsTyped ==
  /\ \A how \in Endings : /\ [NoChat EXCEPT !.at = "ended", !.end = how] \in ChatRecord
                          /\ [NoChat EXCEPT !.at = "ended", !.end = how].at = "ended"
                          /\ [NoChat EXCEPT !.at = "ended", !.end = how].end = how
  /\ \A stream \in BOOLEAN :
        /\ [NoChat EXCEPT !.at = "submitting", !.stream = stream] \in ChatRecord
        /\ [NoChat EXCEPT !.at = "submitting", !.stream = stream].at = "submitting"
        /\ [NoChat EXCEPT !.at = "submitting", !.stream = stream].end = "none"
BY DEF NoChat, ChatRecord, Places, Seen, Entries, Endings

(* A chat that ends forgets its POST, unless it is still on its way. *)
LEMMA Ends ==
  ASSUME TypeInv, NEW r \in Requests, NEW how \in Endings, End(r, how)
  PROVE  /\ chat' \in [Requests -> ChatRecord]
         /\ chat'[r].at = "ended" /\ chat'[r].end = how
         /\ post' \in [Requests -> Posts]
         /\ post'[r] = IF post[r] = "sent" THEN "sent" ELSE "none"
         /\ \A q \in Requests \ {r} : chat'[q] = chat[q] /\ post'[q] = post[q]
         /\ gone' \subseteq Requests /\ expired' \subseteq Requests
<1> DEFINE d == [NoChat EXCEPT !.at = "ended", !.end = how]
<1>1. d \in ChatRecord /\ d.at = "ended" /\ d.end = how
  BY EndingsTyped
<1>2. chat' = [chat EXCEPT ![r] = d]
  BY DEF End
<1> HIDE DEF d
<1>3. chat' \in [Requests -> ChatRecord] /\ chat'[r] = d /\ \A q \in Requests \ {r} : chat'[q] = chat[q]
  BY <1>1, <1>2, Turns
<1>4. /\ post' \in [Requests -> Posts]
      /\ post'[r] = IF post[r] = "sent" THEN "sent" ELSE "none"
      /\ \A q \in Requests \ {r} : post'[q] = post[q]
  BY DEF End, TypeInv, Posts
<1>5. gone' \subseteq Requests /\ expired' \subseteq Requests
  BY DEF End, TypeInv
<1> QED
  BY <1>1, <1>3, <1>4, <1>5

(* What a chat leaves behind is not changed by a step that concerns other prompts. *)
LEMMA OthersKeep ==
  ASSUME NEW q \in Requests, ChatInv(q), chat'[q] = chat[q], post'[q] = post[q],
         history'[q] = history[q], running' = q <=> running = q,
         Contains(queue', q) <=> Contains(queue, q), q \in lost' <=> q \in lost
  PROVE  ChatInv(q)'
BY DEF ChatInv, TidyOrLost, Clear, Pending

(* A step of chat r that leaves ComfyUI alone keeps the invariant of the others. *)
LEMMA AloneKeeps ==
  ASSUME ComfyIInv, NEW r \in Requests, UNCHANGED <<comfy, lost>>,
         chat' \in [Requests -> ChatRecord], post' \in [Requests -> Posts],
         gone' \subseteq Requests, expired' \subseteq Requests,
         \A q \in Requests \ {r} : chat'[q] = chat[q] /\ post'[q] = post[q],
         ChatInv(r)'
  PROVE  ComfyIInv'
<1>1. queue' = queue /\ running' = running /\ history' = history /\ restarts' = restarts /\ lost' = lost
  BY DEF comfy
<1>2. ASSUME NEW q \in Requests
      PROVE  ChatInv(q)'
  <2>1. CASE q = r
    BY <2>1
  <2>2. CASE q # r
    <3>1. ChatInv(q) /\ chat'[q] = chat[q] /\ post'[q] = post[q]
      BY <2>2 DEF ComfyIInv
    <3> QED
      BY <1>1, <3>1, OthersKeep
  <2> QED
    BY <2>1, <2>2
<1>3. QueueInv'
  BY <1>1 DEF ComfyIInv, QueueInv, Distinct, Contains
<1>4. TypeInv'
  BY <1>1 DEF ComfyIInv, TypeInv
<1> QED
  BY <1>2, <1>3, <1>4 DEF ComfyIInv

-----------------------------------------------------------------------------
(***************************************************************************)
(* The steps of a chat.                                                    *)
(***************************************************************************)
LEMMA SubmitKeeps ==
  ASSUME ComfyIInv, NEW r \in Requests, Submit(r)
  PROVE  ComfyIInv'
<1> USE DEF At
<1>1. TypeInv /\ ChatInv(r) /\ chat[r].at = "idle"
  BY DEF ComfyIInv, Submit
<1>2. UNCHANGED <<comfy, lost>> /\ gone' = gone /\ expired' = expired
  BY DEF Submit
<1>3. post[r] = "none" /\ Clear(r)
  BY <1>1 DEF ChatInv
<1>4. Clear(r)'
  BY <1>2, <1>3 DEF Clear, Pending, comfy
<1>5. PICK q \in Queries :
         /\ chat' = [chat EXCEPT ![r] =
                IF Accepts(q) THEN [NoChat EXCEPT !.at = "submitting", !.stream = q.stream]
                ELSE [NoChat EXCEPT !.at = "ended", !.end = "refused"]]
         /\ post' = IF Accepts(q) THEN [post EXCEPT ![r] = "sent"] ELSE post
  BY DEF Submit
<1>6. CASE Accepts(q)
  <2> DEFINE d == [NoChat EXCEPT !.at = "submitting", !.stream = q.stream]
  <2>1. q.stream \in BOOLEAN
    BY ComfyAssumption DEF Query
  <2>2. d \in ChatRecord /\ d.at = "submitting" /\ d.end = "none"
    BY <2>1, EndingsTyped
  <2>3. chat' = [chat EXCEPT ![r] = d] /\ post' = [post EXCEPT ![r] = "sent"]
    BY <1>5, <1>6
  <2> HIDE DEF d
  <2>4. chat' \in [Requests -> ChatRecord] /\ chat'[r] = d /\ \A p \in Requests \ {r} : chat'[p] = chat[p]
    BY <1>1, <2>2, <2>3, Turns
  <2>5. /\ post' \in [Requests -> Posts] /\ post'[r] = "sent"
        /\ \A p \in Requests \ {r} : post'[p] = post[p]
    BY <1>1, <2>3 DEF TypeInv, Posts
  <2>6. ChatInv(r)'
    BY <1>4, <2>2, <2>4, <2>5 DEF ChatInv, TidyOrLost, Clear
  <2> QED
    BY <1>1, <1>2, <2>4, <2>5, <2>6, AloneKeeps DEF TypeInv
<1>7. CASE ~Accepts(q)
  <2> DEFINE d == [NoChat EXCEPT !.at = "ended", !.end = "refused"]
  <2>1. d \in ChatRecord /\ d.at = "ended" /\ d.end = "refused"
    BY EndingsTyped DEF Endings
  <2>2. chat' = [chat EXCEPT ![r] = d] /\ post' = post
    BY <1>5, <1>7
  <2> HIDE DEF d
  <2>3. chat' \in [Requests -> ChatRecord] /\ chat'[r] = d /\ \A p \in Requests \ {r} : chat'[p] = chat[p]
    BY <1>1, <2>1, <2>2, Turns
  <2>4. ChatInv(r)'
    BY <1>3, <1>4, <2>1, <2>2, <2>3 DEF ChatInv, TidyOrLost, Clear
  <2> QED
    BY <1>1, <1>2, <2>2, <2>3, <2>4, AloneKeeps DEF TypeInv
<1> QED
  BY <1>6, <1>7

(* A chat goes on: to poll, to what the poll found, or to wait for the next one. *)
LEMMA OnwardKeeps ==
  ASSUME ComfyIInv, NEW r \in Requests,
         Submitted(r) \/ Poll(r) \/ NotYet(r) \/ NextTick(r)
  PROVE  ComfyIInv'
<1> USE DEF At, Goto
<1>1. TypeInv /\ ChatInv(r) /\ chat[r].at \in {"submitting", "polling", "polled", "waiting"}
  BY DEF ComfyIInv, Submitted, Poll, NotYet, NextTick
<1>2. UNCHANGED <<comfy, lost>> /\ gone' = gone /\ expired' = expired
  BY DEF Submitted, Poll, NotYet, NextTick
<1>3. PICK place \in {"polling", "polled", "waiting"}, seen \in Seen :
        /\ chat' = [chat EXCEPT ![r].at = place, ![r].seen = seen]
        /\ place = "polled" /\ seen = "text" => history[r] = "text"
  BY DEF Submitted, Poll, NotYet, NextTick, Seen, Entries, ComfyIInv, QueueInv, Prompts
<1>4. place \in Places
  BY DEF Places
<1>5. /\ chat' \in [Requests -> ChatRecord]
      /\ chat'[r].at = place /\ chat'[r].seen = seen /\ chat'[r].end = chat[r].end
      /\ \A q \in Requests \ {r} : chat'[q] = chat[q]
  BY <1>1, <1>3, <1>4, GoesOn
<1>6. /\ post' \in [Requests -> Posts] /\ post'[r] = "none"
      /\ \A q \in Requests \ {r} : post'[q] = post[q]
  <2>1. CASE Submitted(r)
    BY <1>1, <2>1 DEF Submitted, TypeInv, Posts
  <2>2. CASE ~Submitted(r)
    <3>1. post' = post /\ chat[r].at \in {"polling", "polled", "waiting"}
      BY <2>2 DEF Poll, NotYet, NextTick
    <3> QED
      BY <1>1, <3>1 DEF ChatInv, TypeInv
  <2> QED
    BY <2>1, <2>2
<1>7. chat[r].end = "none"
  BY <1>1 DEF ChatInv
<1>8. Pending(r)' <=> Pending(r)
  BY <1>2 DEF Pending, comfy
<1>9. running' = running /\ history' = history
  BY <1>2 DEF comfy
<1>10. ChatInv(r)'
  BY <1>1, <1>3, <1>5, <1>6, <1>7, <1>8, <1>9 DEF ChatInv, TidyOrLost
<1> QED
  BY <1>1, <1>2, <1>5, <1>6, <1>10, AloneKeeps DEF TypeInv

(* A chat ends without having touched ComfyUI: its POST was refused, failed, or came to
   nothing while the answer was awaited. *)
LEMMA EarlyEndKeeps ==
  ASSUME ComfyIInv, NEW r \in Requests, Rejected(r) \/ SubmitFails(r) \/ PollError(r)
  PROVE  ComfyIInv'
<1> USE DEF At
<1>1. TypeInv /\ ChatInv(r)
  BY DEF ComfyIInv
<1>2. UNCHANGED <<comfy, lost>>
  BY DEF Rejected, SubmitFails, PollError
<1>3. PICK how \in {"refused", "failed"} :
        End(r, how) /\ (how = "refused" => post[r] = "refused")
  BY DEF Rejected, SubmitFails, PollError
<1>4. how \in Endings
  BY DEF Endings
<1>5. /\ chat' \in [Requests -> ChatRecord]
      /\ chat'[r].at = "ended" /\ chat'[r].end = how
      /\ post' \in [Requests -> Posts]
      /\ post'[r] = IF post[r] = "sent" THEN "sent" ELSE "none"
      /\ \A q \in Requests \ {r} : chat'[q] = chat[q] /\ post'[q] = post[q]
      /\ gone' \subseteq Requests /\ expired' \subseteq Requests
  BY <1>1, <1>3, <1>4, Ends
<1>6. (Pending(r)' <=> Pending(r)) /\ running' = running /\ history' = history
  BY <1>2 DEF Pending, comfy
<1>7. ChatInv(r)'
  BY <1>1, <1>3, <1>5, <1>6 DEF ChatInv, TidyOrLost, Clear
<1> QED
  BY <1>2, <1>5, <1>7, AloneKeeps

(* A call that tidies up after r: it reached ComfyUI, or it is lost. *)
LEMMA TidyKeeps ==
  ASSUME ComfyIInv, NEW r \in Requests, NEW how \in Endings, End(r, how),
         Distinct(queue'), \A p : Contains(queue', p) => Contains(queue, p),
         \A q \in Requests \ {r} : Contains(queue', q) <=> Contains(queue, q),
         history' \in [Prompts -> Entries],
         \A q \in Requests \ {r} : history'[q] = history[q],
         running' = running, restarts' = restarts,
         lost' \subseteq lost \cup {r}, lost \subseteq lost',
         ChatInv(r)'
  PROVE  ComfyIInv'
<1>1. TypeInv
  BY DEF ComfyIInv
<1>2. /\ chat' \in [Requests -> ChatRecord] /\ post' \in [Requests -> Posts]
      /\ \A q \in Requests \ {r} : chat'[q] = chat[q] /\ post'[q] = post[q]
      /\ gone' \subseteq Requests /\ expired' \subseteq Requests
  BY <1>1, Ends
<1>3. ASSUME NEW q \in Requests
      PROVE  ChatInv(q)'
  <2>1. CASE q = r
    BY <2>1
  <2>2. CASE q # r
    <3>1. ChatInv(q) /\ chat'[q] = chat[q] /\ post'[q] = post[q] /\ history'[q] = history[q]
          /\ (Contains(queue', q) <=> Contains(queue, q)) /\ (q \in lost' <=> q \in lost)
      BY <1>2, <2>2 DEF ComfyIInv
    <3> QED
      BY <3>1, OthersKeep
  <2> QED
    BY <2>1, <2>2
<1>4. QueueInv'
  BY DEF ComfyIInv, QueueInv
<1>5. TypeInv'
  BY <1>2 DEF ComfyIInv, TypeInv
<1> QED
  BY <1>3, <1>4, <1>5 DEF ComfyIInv

(* The answer is fetched and its entry forgotten. *)
LEMMA AnsweredKeeps ==
  ASSUME ComfyIInv, NEW r \in Requests, Answered(r)
  PROVE  ComfyIInv'
<1> USE DEF At
<1>1. /\ TypeInv /\ QueueInv /\ ChatInv(r)
      /\ chat[r].at = "polled" /\ chat[r].seen = "text" /\ End(r, "answered")
  BY DEF ComfyIInv, Answered
<1>2. "answered" \in Endings /\ r \in Prompts
  BY DEF Endings, Prompts
<1>3. /\ chat'[r].at = "ended" /\ chat'[r].end = "answered" /\ post'[r] = "none"
  BY <1>1, <1>2, Ends DEF ChatInv
<1>4. /\ queue' = queue /\ running' = running /\ restarts' = restarts
      /\ \/ history' = [history EXCEPT ![r] = "absent"] /\ lost' = lost
         \/ history' = history /\ lost' = lost \cup {r}
  BY DEF Answered, Forget, comfy
<1>5. ~Contains(queue', r) /\ running' # r
  BY <1>1, <1>4 DEF ChatInv, Pending
<1>6. /\ history' \in [Prompts -> Entries]
      /\ \A q \in Requests \ {r} : history'[q] = history[q]
      /\ r \notin lost' => history'[r] = "absent"
  <2>1. history \in [Prompts -> Entries] /\ Requests \subseteq Prompts /\ "absent" \in Entries
    BY <1>1 DEF QueueInv, Entries, Prompts
  <2>2. CASE history' = [history EXCEPT ![r] = "absent"]
    BY <1>2, <2>1, <2>2
  <2>3. CASE history' = history /\ lost' = lost \cup {r}
    BY <2>1, <2>3
  <2> QED
    BY <1>4, <2>2, <2>3
<1>7. ChatInv(r)'
  BY <1>3, <1>5, <1>6 DEF ChatInv, TidyOrLost, Clear, Pending
<1> QED
  BY <1>1, <1>2, <1>4, <1>6, <1>7, TidyKeeps DEF QueueInv

(* A chat that gives up takes its prompt out of the queue, if it is still there. *)
LEMMA AbandonKeeps ==
  ASSUME ComfyIInv, NEW r \in Requests, KeepAliveFails(r) \/ Leave(r)
  PROVE  ComfyIInv'
<1> USE DEF At
<1>1. /\ TypeInv /\ QueueInv /\ ChatInv(r)
      /\ chat[r].at \in {"polled", "waiting"} /\ Dequeue(r) /\ End(r, "abandoned")
  BY DEF ComfyIInv, KeepAliveFails, Leave
<1>2. "abandoned" \in Endings
  BY DEF Endings
<1>3. /\ chat'[r].at = "ended" /\ chat'[r].end = "abandoned" /\ post'[r] = "none"
  BY <1>1, <1>2, Ends DEF ChatInv
<1>4. running' = running /\ restarts' = restarts /\ history' = history
  BY <1>1 DEF Dequeue, comfy
<1>5. /\ Distinct(queue')
      /\ \A p : Contains(queue', p) => Contains(queue, p)
      /\ \A p : p # r => (Contains(queue', p) <=> Contains(queue, p))
      /\ lost' \subseteq lost \cup {r} /\ lost \subseteq lost'
      /\ r \notin lost' => ~Contains(queue', r)
  <2>1. CASE queue' = Without(r) /\ lost' = lost
    BY <1>1, <2>1, WithoutHas DEF QueueInv
  <2>2. CASE queue' = queue /\ lost' = lost \cup {r}
    BY <1>1, <2>2 DEF QueueInv
  <2> QED
    BY <1>1, <2>1, <2>2 DEF Dequeue, comfy
<1>6. ChatInv(r)'
  BY <1>1, <1>3, <1>4, <1>5 DEF ChatInv, TidyOrLost, Pending
<1> QED
  BY <1>1, <1>2, <1>4, <1>5, <1>6, TidyKeeps DEF QueueInv

(* The client leaves, or the chat's time is up. *)
LEMMA ImpatienceKeeps ==
  ASSUME ComfyIInv, NEW r \in Requests, ClientLeaves(r) \/ MaxWaitPasses(r)
  PROVE  ComfyIInv'
<1>1. UNCHANGED <<queue, running, history, restarts, post, chat, lost>>
  BY DEF ClientLeaves, MaxWaitPasses, comfy
<1>2. gone' \subseteq Requests /\ expired' \subseteq Requests
  BY DEF ClientLeaves, MaxWaitPasses, ComfyIInv, TypeInv
<1>3. QueueInv' /\ TypeInv'
  BY <1>1, <1>2 DEF ComfyIInv, QueueInv, TypeInv, Distinct, Contains
<1>4. \A q \in Requests : ChatInv(q)'
  BY <1>1 DEF ComfyIInv, ChatInv, TidyOrLost, Clear, Pending, Contains
<1> QED
  BY <1>3, <1>4 DEF ComfyIInv

-----------------------------------------------------------------------------
(***************************************************************************)
(* The steps of ComfyUI.                                                   *)
(***************************************************************************)
LEMMA TakePostKeeps ==
  ASSUME ComfyIInv, NEW r \in Requests, TakePost(r)
  PROVE  ComfyIInv'
<1>1. TypeInv /\ QueueInv /\ ChatInv(r) /\ post[r] = "sent" /\ r \in Prompts
  BY DEF ComfyIInv, TakePost, Prompts
<1>2. UNCHANGED <<running, history, restarts, chat, gone, expired, lost>>
  BY DEF TakePost, Quiet
<1>3. Clear(r)
  BY <1>1 DEF ChatInv
<1>4. PICK how \in {"queued", "refused"} :
        /\ post' = [post EXCEPT ![r] = how]
        /\ IF how = "queued" THEN queue' = Append(queue, r) ELSE queue' = queue
  BY DEF TakePost
<1>5. /\ post' \in [Requests -> Posts] /\ post'[r] = how
      /\ \A q \in Requests \ {r} : post'[q] = post[q]
  BY <1>1, <1>4 DEF TypeInv, Posts
<1>6. /\ Distinct(queue')
      /\ \A p : Contains(queue', p) <=> Contains(queue, p) \/ (p = r /\ how = "queued")
  <2>1. queue \in Seq(Prompts) /\ Distinct(queue) /\ ~Contains(queue, r)
    BY <1>1, <1>3 DEF QueueInv, Distinct, Clear, Pending
  <2>2. CASE how = "queued"
    <3>1. queue' = Append(queue, r)
      BY <1>4, <2>2
    <3> QED
      BY <1>1, <2>1, <2>2, <3>1, AppendHas
  <2>3. CASE how # "queued"
    BY <1>4, <2>1, <2>3
  <2> QED
    BY <2>2, <2>3
<1>7. QueueInv'
  <2>1. running' \in Prompts \cup {Nobody} /\ running' # r /\ ~Contains(queue, running')
    BY <1>1, <1>2, <1>3 DEF QueueInv, Clear
  <2>2. ~Contains(queue', running')
    BY <1>6, <2>1
  <2> QED
    BY <1>1, <1>2, <1>6, <2>1, <2>2 DEF QueueInv
<1>8. ASSUME NEW q \in Requests
      PROVE  ChatInv(q)'
  <2>1. CASE q = r
    BY <1>1, <1>2, <1>3, <1>5, <1>6, <2>1 DEF ChatInv, TidyOrLost, Clear, Pending
  <2>2. CASE q # r
    <3>1. ChatInv(q) /\ post'[q] = post[q] /\ (Contains(queue', q) <=> Contains(queue, q))
      BY <1>5, <1>6, <2>2 DEF ComfyIInv
    <3> QED
      BY <1>2, <3>1, OthersKeep
  <2> QED
    BY <2>1, <2>2
<1>9. TypeInv'
  BY <1>1, <1>2, <1>5 DEF TypeInv
<1> QED
  BY <1>7, <1>8, <1>9 DEF ComfyIInv

LEMMA ForeignPromptKeeps ==
  ASSUME ComfyIInv, NEW f \in Foreign, ForeignPrompt(f)
  PROVE  ComfyIInv'
<1>1. /\ TypeInv /\ QueueInv /\ f \in Prompts /\ f \notin Requests
      /\ running # f /\ ~Contains(queue, f) /\ queue' = Append(queue, f)
  BY ComfyAssumption DEF ComfyIInv, ForeignPrompt, Prompts
<1>2. UNCHANGED <<running, history, restarts, post, chat, gone, expired, lost>>
  BY DEF ForeignPrompt, Quiet
<1>3. /\ Distinct(queue')
      /\ \A p : Contains(queue', p) <=> Contains(queue, p) \/ p = f
  BY <1>1, AppendHas DEF QueueInv, Distinct
<1>4. QueueInv'
  BY <1>1, <1>2, <1>3 DEF QueueInv
<1>5. ASSUME NEW q \in Requests
      PROVE  ChatInv(q)'
  BY <1>1, <1>2, <1>3, OthersKeep DEF ComfyIInv
<1>6. TypeInv'
  BY <1>1, <1>2 DEF TypeInv
<1> QED
  BY <1>4, <1>5, <1>6 DEF ComfyIInv

LEMMA StartNextKeeps ==
  ASSUME ComfyIInv, StartNext
  PROVE  ComfyIInv'
<1> DEFINE h == Head(queue)
<1>1. TypeInv /\ QueueInv /\ running = Nobody /\ queue # <<>> /\ queue \in Seq(Prompts)
  BY DEF ComfyIInv, StartNext, QueueInv, Distinct
<1>2. running' = h /\ queue' = Tail(queue)
  BY DEF StartNext
<1>3. UNCHANGED <<history, restarts, post, chat, gone, expired, lost>>
  BY DEF StartNext, Quiet
<1>4. /\ h \in Prompts /\ Contains(queue, h) /\ Distinct(queue')
      /\ \A p : Contains(queue', p) <=> Contains(queue, p) /\ p # h
  BY <1>1, <1>2, TailHas DEF QueueInv
<1> HIDE DEF h
<1>5. QueueInv'
  BY <1>1, <1>2, <1>3, <1>4 DEF QueueInv
<1>6. ASSUME NEW q \in Requests
      PROVE  ChatInv(q)'
  <2>1. ChatInv(q) /\ q # Nobody
    BY ComfyAssumption DEF ComfyIInv
  <2>2. CASE q = h
    BY <1>1, <1>2, <1>3, <1>4, <2>1, <2>2 DEF ChatInv, TidyOrLost, Clear, Pending
  <2>3. CASE q # h
    BY <1>1, <1>2, <1>3, <1>4, <2>1, <2>3, OthersKeep
  <2> QED
    BY <2>2, <2>3
<1>7. TypeInv'
  BY <1>1, <1>3 DEF TypeInv
<1> QED
  BY <1>5, <1>6, <1>7 DEF ComfyIInv

LEMMA FinishKeeps ==
  ASSUME ComfyIInv, Finish
  PROVE  ComfyIInv'
<1>1. TypeInv /\ QueueInv /\ running # Nobody /\ running \in Prompts
  BY DEF ComfyIInv, Finish, QueueInv
<1>2. PICK entry \in Entries : history' = [history EXCEPT ![running] = entry]
  BY DEF Finish, Entries
<1>3. running' = Nobody /\ UNCHANGED <<queue, restarts, post, chat, gone, expired, lost>>
  BY DEF Finish, Quiet
<1>4. ~Contains(queue, running) /\ ~Contains(queue, Nobody)
  <2>1. \A p \in Prompts : p # Nobody
    BY ComfyAssumption DEF Prompts
  <2> QED
    BY <1>1, <2>1 DEF QueueInv, Distinct, Contains
<1>5. QueueInv'
  BY <1>1, <1>2, <1>3, <1>4 DEF QueueInv, Distinct, Contains
<1>6. ASSUME NEW q \in Requests
      PROVE  ChatInv(q)'
  <2>1. ChatInv(q) /\ q # Nobody /\ q \in Prompts
    BY ComfyAssumption DEF ComfyIInv, Prompts
  <2>2. CASE q = running
    BY <1>3, <1>4, <2>1, <2>2 DEF ChatInv, TidyOrLost, Clear, Pending
  <2>3. CASE q # running
    <3>1. history'[q] = history[q]
      BY <1>1, <1>2, <2>1, <2>3 DEF QueueInv
    <3> QED
      BY <1>3, <2>1, <2>3, <3>1, OthersKeep
  <2> QED
    BY <2>2, <2>3
<1>7. TypeInv'
  BY <1>1, <1>3 DEF TypeInv
<1> QED
  BY <1>5, <1>6, <1>7 DEF ComfyIInv

LEMMA ComfyRestartsKeeps ==
  ASSUME ComfyIInv, ComfyRestarts
  PROVE  ComfyIInv'
<1>1. TypeInv /\ QueueInv
  BY DEF ComfyIInv
<1>2. /\ queue' = <<>> /\ running' = Nobody /\ history' = [p \in Prompts |-> "absent"]
      /\ restarts' = restarts + 1 /\ restarts < MaxRestarts
      /\ UNCHANGED <<post, chat, gone, expired, lost>>
  BY DEF ComfyRestarts, Quiet
<1>3. Distinct(<<>>) /\ \A p : ~Contains(<<>>, p)
  BY DEF Distinct, Contains
<1>4. QueueInv'
  BY <1>2, <1>3 DEF QueueInv, Entries
<1>5. ASSUME NEW q \in Requests
      PROVE  ChatInv(q)'
  <2>1. ChatInv(q) /\ q # Nobody /\ q \in Prompts
    BY ComfyAssumption DEF ComfyIInv, Prompts
  <2>2. ~Contains(queue', q) /\ running' # q /\ history'[q] = "absent"
    BY <1>2, <1>3, <2>1
  <2> QED
    BY <1>2, <2>1, <2>2 DEF ChatInv, TidyOrLost, Clear, Pending
<1>6. TypeInv'
  BY <1>1, <1>2, ComfyAssumption DEF TypeInv
<1> QED
  BY <1>4, <1>5, <1>6 DEF ComfyIInv

LEMMA ComfyInit == Init => ComfyIInv
<1> SUFFICES ASSUME Init PROVE ComfyIInv
  OBVIOUS
<1>1. Distinct(<<>>) /\ \A p : ~Contains(<<>>, p)
  BY DEF Distinct, Contains
<1>2. QueueInv
  BY <1>1 DEF Init, QueueInv, Entries
<1>3. TypeInv
  BY ComfyAssumption DEF Init, TypeInv, Posts, ChatRecord, NoChat, Places, Seen, Entries, Endings
<1>4. ASSUME NEW q \in Requests
      PROVE  ChatInv(q)
  <2>1. chat[q].at = "idle" /\ chat[q].end = "none" /\ post[q] = "none"
    BY DEF Init, NoChat
  <2>2. q # Nobody /\ q \in Prompts
    BY ComfyAssumption DEF Prompts
  <2>3. Clear(q)
    BY <1>1, <2>2 DEF Init, Clear, Pending
  <2> QED
    BY <2>1, <2>3 DEF ChatInv, TidyOrLost, Clear
<1> QED
  BY <1>2, <1>3, <1>4 DEF ComfyIInv

LEMMA ComfyNext == ComfyIInv /\ [Next]_comfyVars => ComfyIInv'
<1> SUFFICES ASSUME ComfyIInv, [Next]_comfyVars PROVE ComfyIInv'
  OBVIOUS
<1>1. ASSUME NEW r \in Requests, ChatStep(r)
      PROVE  ComfyIInv'
  BY <1>1, OnwardKeeps, EarlyEndKeeps, AnsweredKeeps, AbandonKeeps DEF ChatStep
<1>2. CASE ComfyStep
  BY <1>2, TakePostKeeps, ForeignPromptKeeps, StartNextKeeps, FinishKeeps, ComfyRestartsKeeps
  DEF ComfyStep
<1>3. CASE UNCHANGED comfyVars
  <2>1. UNCHANGED <<queue, running, history, restarts, post, chat, gone, expired, lost>>
    BY <1>3 DEF comfyVars, comfy
  <2> QED
    BY <2>1 DEF ComfyIInv, QueueInv, TypeInv, ChatInv, TidyOrLost, Clear, Pending, Distinct, Contains
<1> QED
  BY <1>1, <1>2, <1>3, SubmitKeeps, ImpatienceKeeps DEF Next

(* Every variable keeps its type, and no prompt is ever in two places: neither twice in
   the queue nor queued while it runs. *)
THEOREM ComfyTypeCorrect == Spec => []ComfyTypeOK
<1>1. ComfyIInv => ComfyTypeOK
  <2> SUFFICES ASSUME ComfyIInv PROVE ComfyTypeOK
    OBVIOUS
  <2>1. \A i, j \in DOMAIN queue : queue[i] \in Prompts /\ (queue[i] = queue[j] => i = j)
    BY DEF ComfyIInv, QueueInv, Distinct
  <2> QED
    BY <2>1 DEF ComfyIInv, QueueInv, TypeInv, ChatRecord, Posts, ComfyTypeOK
<1> QED
  BY <1>1, ComfyInit, ComfyNext, PTL DEF Spec

(* A chat that was abandoned is not waiting in the queue, one that was answered has left
   no entry, one that was refused was never queued, unless the very call that tidies up
   was lost: for any number of chats and foreign prompts, and restarts of ComfyUI. *)
THEOREM NothingIsLeftBehind == Spec => []NothingLeftBehind
<1>1. ComfyIInv => NothingLeftBehind
  BY DEF ComfyIInv, ChatInv, TidyOrLost, Clear, NothingLeftBehind
<1> QED
  BY <1>1, ComfyInit, ComfyNext, PTL DEF Spec

-----------------------------------------------------------------------------
(***************************************************************************)
(* What a step may never do.                                               *)
(***************************************************************************)
Undisturbed ==
    \A p \in Prompts : Vanishes(p) =>
        p \in Requests /\ chat[p].end = "none" /\ chat'[p].end = "abandoned" /\ running # p

(* What is queued or running stays so until it has run, except for the prompt a chat
   takes out of the queue when it gives up. *)
THEOREM OthersAreUndisturbed == Spec => OthersUndisturbed
<1>1. ComfyIInv /\ [Next]_comfyVars => [Undisturbed]_comfyVars
  <2> SUFFICES ASSUME ComfyIInv, Next, NEW p \in Prompts, Vanishes(p)
               PROVE  p \in Requests /\ chat[p].end = "none" /\ chat'[p].end = "abandoned"
                      /\ running # p
    BY DEF Undisturbed
  <2>1. (Contains(queue, p) \/ running = p) /\ ~Contains(queue', p) /\ running' # p
        /\ history'[p] = "absent" /\ restarts' = restarts
    BY DEF Vanishes, Underway
  <2>2. ~(queue' = queue /\ running' = running)
    BY <2>1
  <2>3. ~(\E r \in Requests : Submit(r) \/ ClientLeaves(r) \/ MaxWaitPasses(r))
    BY <2>2 DEF Submit, ClientLeaves, MaxWaitPasses, comfy
  <2>4. ASSUME NEW r \in Requests, KeepAliveFails(r) \/ Leave(r)
        PROVE  p = r /\ chat[p].end = "none" /\ chat'[p].end = "abandoned" /\ running # p
    <3>1. Dequeue(r) /\ End(r, "abandoned") /\ chat[r].at # "ended"
      BY <2>4 DEF KeepAliveFails, Leave, At
    <3>2. queue' = Without(r) /\ running' = running
      BY <2>2, <3>1 DEF Dequeue, comfy
    <3>3. p = r
      BY <2>1, <3>2, WithoutHas DEF ComfyIInv, QueueInv
    <3>4. chat[r].end = "none"
      BY <3>1 DEF ComfyIInv, ChatInv
    <3>5. chat'[r].end = "abandoned"
      BY <3>1, Ends DEF ComfyIInv, Endings
    <3> QED
      BY <2>1, <3>2, <3>3, <3>4, <3>5
  <2>5. ASSUME NEW r \in Requests, ChatStep(r), ~(KeepAliveFails(r) \/ Leave(r))
        PROVE  FALSE
    BY <2>2, <2>5 DEF ChatStep, Submitted, Rejected, SubmitFails, Poll, PollError, Answered,
       Forget, NotYet, NextTick, comfy
  <2>6. ASSUME NEW r \in Requests, TakePost(r)
        PROVE  FALSE
    <3>1. running' = running /\ queue' = Append(queue, r)
      BY <2>2, <2>6 DEF TakePost
    <3>2. queue \in Seq(Prompts) /\ r \in Prompts /\ Distinct(queue) /\ ~Contains(queue, r)
      BY <2>6 DEF TakePost, ComfyIInv, QueueInv, ChatInv, Clear, Pending, Distinct, Prompts
    <3> QED
      BY <2>1, <3>1, <3>2, AppendHas
  <2>7. ASSUME NEW f \in Foreign, ForeignPrompt(f)
        PROVE  FALSE
    <3>1. running' = running /\ queue' = Append(queue, f) /\ ~Contains(queue, f)
      BY <2>7 DEF ForeignPrompt
    <3>2. queue \in Seq(Prompts) /\ f \in Prompts /\ Distinct(queue)
      BY DEF ComfyIInv, QueueInv, Distinct, Prompts
    <3> QED
      BY <2>1, <3>1, <3>2, AppendHas
  <2>8. ~StartNext
    <3> SUFFICES ASSUME StartNext PROVE FALSE
      OBVIOUS
    <3>1. running = Nobody /\ queue # <<>> /\ running' = Head(queue) /\ queue' = Tail(queue)
      BY DEF StartNext
    <3>2. p # Nobody /\ queue \in Seq(Prompts) /\ Distinct(queue)
      BY ComfyAssumption DEF Prompts, ComfyIInv, QueueInv, Distinct
    <3> QED
      BY <2>1, <3>1, <3>2, TailHas
  <2>9. ~Finish
    <3> SUFFICES ASSUME Finish PROVE FALSE
      OBVIOUS
    <3>1. PICK entry \in {"text", "error"} : history' = [history EXCEPT ![running] = entry]
      BY DEF Finish
    <3>2. queue' = queue
      BY DEF Finish
    <3>3. running = p
      BY <2>1, <3>2
    <3>4. history'[p] = entry
      BY <3>1, <3>3 DEF ComfyIInv, QueueInv
    <3> QED
      BY <2>1, <3>4
  <2>10. ~ComfyRestarts
    <3> SUFFICES ASSUME ComfyRestarts PROVE FALSE
      OBVIOUS
    <3>1. restarts' = restarts + 1 /\ restarts \in Int
      BY DEF ComfyRestarts, ComfyIInv, TypeInv
    <3> QED
      BY <2>1, <3>1
  <2> QED
    BY <2>3, <2>4, <2>5, <2>6, <2>7, <2>8, <2>9, <2>10 DEF Next, ComfyStep
<1> QED
  BY <1>1, ComfyInit, ComfyNext, PTL DEF Spec, OthersUndisturbed, Undisturbed

-----------------------------------------------------------------------------
(* The translated conversation: sequences first. *)

(* Of the naturals in a set there is a least. *)
LEMMA LeastOf ==
  ASSUME NEW B \in SUBSET Nat, B # {}
  PROVE  \E n \in B : \A m \in B : n <= m
<1>1. PICK b \in B : TRUE
  OBVIOUS
<1> DEFINE D == 0..b
           Starts == {S \in SUBSET D : \E m \in B : S = 0..m}
<1>2. IsFiniteSet(D) /\ D \in Starts
  BY FS_Interval
<1>3. Starts \subseteq FiniteSubsetsOf(D)
  BY <1>2, FS_Subset DEF FiniteSubsetsOf
<1> HIDE DEF D
<1>4. PICK S \in Starts : \A T \in Starts : <<T, S>> \notin StrictSubsetOrdering(D)
  <2> HIDE DEF Starts
  <2> QED
    BY <1>2, <1>3, FS_StrictSubsetOrderingWellFounded, WFMin
<1>5. PICK n \in B : S = 0..n
  OBVIOUS
<1>6. ASSUME NEW m \in B, m < n PROVE FALSE
  <2>1. 0..m \subseteq S /\ n \in S /\ n \notin 0..m
    BY <1>5, <1>6
  <2>2. 0..m \in Starts /\ 0..m # S
    BY <2>1
  <2>3. <<0..m, S>> \in StrictSubsetOrdering(D)
    BY <2>1, <2>2 DEF StrictSubsetOrdering
  <2> QED
    BY <1>4, <2>2, <2>3
<1> QED
  BY <1>6

-----------------------------------------------------------------------------
(* Kept walks along its sequence: its table after n places. *)
KeptTable(s, places, n, t) ==
    t = [i \in 0..n |-> IF i = 0 THEN <<>>
                        ELSE IF i \in places THEN Append(t[i - 1], s[i]) ELSE t[i - 1]]

LEMMA KeptByTable ==
  ASSUME NEW s, NEW places
  PROVE  Kept(s, places) = (CHOOSE t : KeptTable(s, places, Len(s), t))[Len(s)]
BY DEF Kept, KeptTable

(* Two tables agree as far as what they walk along does. *)
LEMMA KeptTablesAgree ==
  ASSUME NEW s, NEW r, NEW P, NEW Q, NEW m \in Nat, NEW n \in Nat, NEW t, NEW u,
         KeptTable(s, P, m, t), KeptTable(r, Q, n, u), NEW k \in Nat, k <= m, k <= n,
         \A i \in 1..k : s[i] = r[i] /\ (i \in P <=> i \in Q)
  PROVE  t[k] = u[k]
<1> DEFINE Bad == {i \in 0..k : t[i] # u[i]}
<1>1. SUFFICES ASSUME Bad # {} PROVE FALSE
  OBVIOUS
<1>2. PICK i \in Bad : \A j \in Bad : i <= j
  <2> Bad \in SUBSET Nat
    OBVIOUS
  <2> HIDE DEF Bad
  <2> QED
    BY <1>1, LeastOf
<1>3. CASE i = 0
  BY <1>3 DEF KeptTable
<1>4. CASE i # 0
  <2>1. i \in 1..k /\ i - 1 \in 0..k /\ i - 1 \notin Bad /\ i \in 0..m /\ i \in 0..n
    BY <1>2, <1>4
  <2>2. t[i - 1] = u[i - 1] /\ s[i] = r[i] /\ (i \in P <=> i \in Q)
    BY <2>1
  <2>3. t[i] = IF i \in P THEN Append(t[i - 1], s[i]) ELSE t[i - 1]
    BY <1>4, <2>1 DEF KeptTable
  <2>4. u[i] = IF i \in Q THEN Append(u[i - 1], r[i]) ELSE u[i - 1]
    BY <1>4, <2>1 DEF KeptTable
  <2> QED
    BY <2>2, <2>3, <2>4
<1> QED
  BY <1>3, <1>4

KeptSoFar(s, places, n) == CHOOSE t : KeptTable(s, places, n, t)

LEMMA KeptTableExists ==
  ASSUME NEW s, NEW places, NEW n \in Nat
  PROVE  KeptTable(s, places, n, KeptSoFar(s, places, n))
<1> DEFINE Bad == {m \in Nat : ~ \E t : KeptTable(s, places, m, t)}
<1>1. SUFFICES ASSUME Bad # {} PROVE FALSE
  BY DEF KeptSoFar
<1>2. PICK m \in Bad : \A j \in Bad : m <= j
  <2> Bad \in SUBSET Nat
    OBVIOUS
  <2> HIDE DEF Bad
  <2> QED
    BY <1>1, LeastOf
<1>3. CASE m = 0
  <2> DEFINE t == [i \in 0..0 |-> <<>>]
  <2>1. KeptTable(s, places, 0, t)
    BY DEF KeptTable
  <2> QED
    BY <1>3, <2>1
<1>4. CASE m # 0
  <2>1. m - 1 \in Nat /\ m - 1 \notin Bad
    BY <1>2, <1>4
  <2>2. PICK u : KeptTable(s, places, m - 1, u)
    BY <2>1
  <2> DEFINE last == IF m \in places THEN Append(u[m - 1], s[m]) ELSE u[m - 1]
             t == [i \in 0..m |-> IF i = m THEN last ELSE u[i]]
  <2>3. ASSUME NEW i \in 0..m
        PROVE  t[i] = IF i = 0 THEN <<>>
                      ELSE IF i \in places THEN Append(t[i - 1], s[i]) ELSE t[i - 1]
    <3>1. CASE i = m
      <4>1. t[i] = last /\ t[i - 1] = u[m - 1]
        BY <1>4, <2>1, <3>1
      <4> QED
        BY <1>4, <3>1, <4>1
    <3>2. CASE i # m
      <4>1. i \in 0..(m - 1) /\ t[i] = u[i] /\ (i # 0 => t[i - 1] = u[i - 1])
        BY <3>2
      <4>2. u[i] = IF i = 0 THEN <<>>
                   ELSE IF i \in places THEN Append(u[i - 1], s[i]) ELSE u[i - 1]
        BY <2>2, <4>1 DEF KeptTable
      <4> QED
        BY <4>1, <4>2
    <3> QED
      BY <3>1, <3>2
  <2>4. KeptTable(s, places, m, t)
    <3> HIDE DEF last
    <3> QED
      BY <2>3 DEF KeptTable
  <2> QED
    BY <2>4
<1> QED
  BY <1>3, <1>4

(* Of nothing nothing is kept. *)
LEMMA KeptOfNone == ASSUME NEW places PROVE Kept(<<>>, places) = <<>>
<1>1. KeptTable(<<>>, places, 0, KeptSoFar(<<>>, places, 0))
  BY KeptTableExists
<1>2. KeptSoFar(<<>>, places, 0)[0] = <<>>
  BY <1>1 DEF KeptTable
<1> QED
  BY <1>2, KeptByTable DEF KeptSoFar

(* What is kept depends on the elements and on their places among those there are. *)
LEMMA KeptSame ==
  ASSUME NEW S, NEW s \in Seq(S), NEW P, NEW Q, \A i \in 1..Len(s) : i \in P <=> i \in Q
  PROVE  Kept(s, P) = Kept(s, Q)
<1> DEFINE n == Len(s)
           t == KeptSoFar(s, P, n)
           u == KeptSoFar(s, Q, n)
<1>1. n \in Nat
  OBVIOUS
<1>2. KeptTable(s, P, n, t) /\ KeptTable(s, Q, n, u)
  BY <1>1, KeptTableExists
<1>3. \A i \in 1..n : i \in P <=> i \in Q
  OBVIOUS
<1>4. Kept(s, P) = t[n] /\ Kept(s, Q) = u[n]
  BY KeptByTable DEF KeptSoFar
<1> HIDE DEF n, t, u
<1>5. t[n] = u[n]
  BY <1>1, <1>2, <1>3, KeptTablesAgree
<1> QED
  BY <1>4, <1>5

(* One element more is kept last, or not at all. *)
LEMMA KeptOfAppend ==
  ASSUME NEW S, NEW s \in Seq(S), NEW e \in S, NEW P, NEW Q,
         \A i \in 1..Len(s) : i \in P <=> i \in Q
  PROVE  Kept(Append(s, e), P) = IF Len(s) + 1 \in P THEN Append(Kept(s, Q), e) ELSE Kept(s, Q)
<1> DEFINE n == Len(s)
           r == Append(s, e)
           t == KeptSoFar(r, P, n + 1)
           u == KeptSoFar(s, Q, n)
<1>1. n \in Nat /\ Len(r) = n + 1 /\ r[n + 1] = e /\ \A i \in 1..n : r[i] = s[i]
  OBVIOUS
<1>2. \A i \in 1..n : r[i] = s[i] /\ (i \in P <=> i \in Q)
  BY <1>1
<1>3. Kept(r, P) = t[n + 1] /\ Kept(s, Q) = u[n]
  <2> HIDE DEF r
  <2> QED
    BY <1>1, KeptByTable DEF KeptSoFar
<1> HIDE DEF r
<1>4. KeptTable(r, P, n + 1, t) /\ KeptTable(s, Q, n, u)
  BY <1>1, KeptTableExists
<1> HIDE DEF n, t, u
<1>5. t[n] = u[n]
  <2>1. n + 1 \in Nat /\ n <= n + 1 /\ n <= n
    BY <1>1
  <2> QED
    BY <1>1, <1>2, <1>4, <2>1, KeptTablesAgree
<1>6. t[n + 1] = IF n + 1 \in P THEN Append(t[n], e) ELSE t[n]
  <2>1. n + 1 \in 0..(n + 1) /\ n + 1 # 0 /\ (n + 1) - 1 = n
    BY <1>1
  <2> QED
    BY <1>1, <1>4, <2>1 DEF KeptTable
<1> QED
  BY <1>3, <1>5, <1>6 DEF n, r

(* What is kept are the elements at those places, and no more of them than there were. *)
LEMMA KeptTyped ==
  ASSUME NEW T, NEW s \in Seq(T), NEW P, NEW S, \A i \in 1..Len(s) : i \in P => s[i] \in S
  PROVE  Kept(s, P) \in Seq(S) /\ Len(Kept(s, P)) <= Len(s)
<1> DEFINE n == Len(s)
           t == KeptSoFar(s, P, n)
           Fits(i) == t[i] \in Seq(S) /\ Len(t[i]) <= i
           Bad == {i \in 0..n : ~Fits(i)}
<1>1. n \in Nat /\ Kept(s, P) = t[n] /\ \A i \in 1..n : i \in P => s[i] \in S
  BY KeptByTable DEF KeptSoFar
<1>2. KeptTable(s, P, n, t)
  BY <1>1, KeptTableExists
<1> HIDE DEF n, t
<1>3. SUFFICES ASSUME Bad # {} PROVE FALSE
  <2> SUFFICES Fits(n)
    BY <1>1 DEF n
  <2> QED
    BY <1>1, <1>3
<1>4. PICK i \in Bad : \A j \in Bad : i <= j
  <2> Bad \in SUBSET Nat
    BY <1>1
  <2> HIDE DEF Bad
  <2> QED
    BY <1>3, LeastOf
<1>5. CASE i = 0
  <2>1. t[0] = <<>>
    BY <1>1, <1>2 DEF KeptTable
  <2>2. <<>> \in Seq(S) /\ Len(<<>>) = 0
    OBVIOUS
  <2>3. t[i] \in Seq(S) /\ Len(t[i]) <= i
    BY <1>5, <2>1, <2>2
  <2> QED
    BY <2>3
<1>6. CASE i # 0
  <2>1. i - 1 \in 0..n /\ i - 1 \notin Bad /\ i \in 1..n /\ i \in 0..n
    BY <1>1, <1>4, <1>6
  <2>2. Fits(i - 1) /\ (i \in P => s[i] \in S)
    BY <1>1, <2>1
  <2>3. t[i] = IF i \in P THEN Append(t[i - 1], s[i]) ELSE t[i - 1]
    BY <1>2, <1>6, <2>1 DEF KeptTable
  <2> DEFINE before == t[i - 1]
  <2>4. (i \in P /\ t[i] = Append(before, s[i])) \/ t[i] = before
    BY <2>3
  <2>5. before \in Seq(S) /\ Len(before) <= i - 1
    BY <2>2
  <2> HIDE DEF before
  <2>6. i \in P => Append(before, s[i]) \in Seq(S) /\ Len(Append(before, s[i])) = Len(before) + 1
    BY <2>2, <2>5, AppendProperties
  <2>7. t[i] \in Seq(S) /\ Len(t[i]) <= i
    <3> DEFINE now == t[i]
    <3>1. i \in Int /\ Len(before) \in Int
      BY <2>1, <2>5
    <3>2. (i \in P /\ now = Append(before, s[i])) \/ now = before
      BY <2>4
    <3>3. Len(before) + 1 <= i /\ Len(before) <= i
      BY <2>5, <3>1
    <3> HIDE DEF now
    <3>4. now \in Seq(S) /\ Len(now) <= i
      BY <2>5, <2>6, <3>2, <3>3
    <3> QED
      BY <3>4 DEF now
  <2> QED
    BY <2>7
<1> QED
  BY <1>5, <1>6

-----------------------------------------------------------------------------
(* FlattenSeq walks along its sequences. *)
FlatTable(ss, n, t) == t = [i \in 1..n |-> IF i = 1 THEN ss[i] ELSE t[i - 1] \o ss[i]]
FlatSoFar(ss, n) == CHOOSE t : FlatTable(ss, n, t)

LEMMA FlattenByTable ==
  ASSUME NEW ss, Len(ss) # 0
  PROVE  FlattenSeq(ss) = FlatSoFar(ss, Len(ss))[Len(ss)]
BY DEF FlattenSeq, FlatSoFar, FlatTable

LEMMA FlatTablesAgree ==
  ASSUME NEW s, NEW r, NEW m \in Nat, NEW n \in Nat, NEW t, NEW u,
         FlatTable(s, m, t), FlatTable(r, n, u), NEW k \in Nat, k <= m, k <= n, k # 0,
         \A i \in 1..k : s[i] = r[i]
  PROVE  t[k] = u[k]
<1> DEFINE Bad == {i \in 1..k : t[i] # u[i]}
<1>1. SUFFICES ASSUME Bad # {} PROVE FALSE
  OBVIOUS
<1>2. PICK i \in Bad : \A j \in Bad : i <= j
  <2> Bad \in SUBSET Nat
    OBVIOUS
  <2> HIDE DEF Bad
  <2> QED
    BY <1>1, LeastOf
<1>3. i \in 1..m /\ i \in 1..n /\ s[i] = r[i]
  OBVIOUS
<1>4. /\ t[i] = IF i = 1 THEN s[i] ELSE t[i - 1] \o s[i]
      /\ u[i] = IF i = 1 THEN r[i] ELSE u[i - 1] \o r[i]
  BY <1>3 DEF FlatTable
<1>5. CASE i = 1
  BY <1>3, <1>4, <1>5
<1>6. CASE i # 1
  <2>1. i - 1 \in 1..k /\ i - 1 \notin Bad
    BY <1>2, <1>6
  <2> QED
    BY <1>3, <1>4, <1>6, <2>1
<1> QED
  BY <1>5, <1>6

LEMMA FlatTableExists ==
  ASSUME NEW ss, NEW n \in Nat
  PROVE  FlatTable(ss, n, FlatSoFar(ss, n))
<1> DEFINE Bad == {m \in Nat : ~ \E t : FlatTable(ss, m, t)}
<1>1. SUFFICES ASSUME Bad # {} PROVE FALSE
  BY DEF FlatSoFar
<1>2. PICK m \in Bad : \A j \in Bad : m <= j
  <2> Bad \in SUBSET Nat
    OBVIOUS
  <2> HIDE DEF Bad
  <2> QED
    BY <1>1, LeastOf
<1>3. CASE m = 0
  <2> DEFINE t == [i \in 1..0 |-> <<>>]
  <2>1. FlatTable(ss, 0, t)
    BY DEF FlatTable
  <2> QED
    BY <1>3, <2>1
<1>4. CASE m # 0
  <2>1. m - 1 \in Nat /\ m - 1 \notin Bad
    BY <1>2, <1>4
  <2>2. PICK u : FlatTable(ss, m - 1, u)
    BY <2>1
  <2> DEFINE last == IF m = 1 THEN ss[1] ELSE u[m - 1] \o ss[m]
             t == [i \in 1..m |-> IF i = m THEN last ELSE u[i]]
  <2>3. ASSUME NEW i \in 1..m
        PROVE  t[i] = IF i = 1 THEN ss[i] ELSE t[i - 1] \o ss[i]
    <3>1. CASE i = m
      <4>1. t[i] = last /\ (i # 1 => t[i - 1] = u[m - 1])
        BY <1>4, <2>1, <3>1
      <4> QED
        BY <1>4, <3>1, <4>1
    <3>2. CASE i # m
      <4>1. i \in 1..(m - 1) /\ t[i] = u[i] /\ (i # 1 => t[i - 1] = u[i - 1])
        BY <3>2
      <4>2. u[i] = IF i = 1 THEN ss[i] ELSE u[i - 1] \o ss[i]
        BY <2>2, <4>1 DEF FlatTable
      <4> QED
        BY <4>1, <4>2
    <3> QED
      BY <3>1, <3>2
  <2>4. FlatTable(ss, m, t)
    <3> HIDE DEF last
    <3> QED
      BY <2>3 DEF FlatTable
  <2> QED
    BY <2>4
<1> QED
  BY <1>3, <1>4

LEMMA FlattenOfNone == FlattenSeq(<<>>) = <<>>
  BY DEF FlattenSeq

(* A sequence more is put at the end. *)
LEMMA FlattenOfAppend ==
  ASSUME NEW S, NEW ss \in Seq(Seq(S)), NEW e \in Seq(S)
  PROVE  FlattenSeq(Append(ss, e)) = IF ss = <<>> THEN e ELSE FlattenSeq(ss) \o e
<1> DEFINE n == Len(ss)
           r == Append(ss, e)
           t == FlatSoFar(r, n + 1)
           u == FlatSoFar(ss, n)
<1>1. n \in Nat /\ Len(r) = n + 1 /\ r[n + 1] = e /\ \A i \in 1..n : r[i] = ss[i]
  OBVIOUS
<1>2. FlattenSeq(r) = t[n + 1] /\ (n # 0 => FlattenSeq(ss) = u[n]) /\ (n = 0 <=> ss = <<>>)
  <2>1. n = 0 <=> ss = <<>>
    OBVIOUS
  <2> HIDE DEF r
  <2> QED
    BY <1>1, <2>1, FlattenByTable
<1> HIDE DEF r
<1>3. FlatTable(r, n + 1, t) /\ FlatTable(ss, n, u)
  BY <1>1, FlatTableExists
<1> HIDE DEF n, t, u
<1>4. t[n + 1] = IF n = 0 THEN e ELSE t[n] \o e
  <2>1. n + 1 \in 1..(n + 1) /\ (n + 1) - 1 = n /\ (n = 0 <=> n + 1 = 1)
    BY <1>1
  <2> DEFINE k == n + 1
  <2>2. k \in 1..k /\ k - 1 = n /\ (n = 0 <=> k = 1) /\ r[k] = e
    BY <1>1, <2>1
  <2>3. FlatTable(r, k, t)
    BY <1>3
  <2> HIDE DEF k
  <2>4. t[k] = IF k = 1 THEN r[k] ELSE t[k - 1] \o r[k]
    BY <2>2, <2>3 DEF FlatTable
  <2> QED
    BY <2>2, <2>4 DEF k
<1>5. n # 0 => t[n] = u[n]
  <2>1. n + 1 \in Nat /\ n <= n + 1 /\ n <= n
    BY <1>1
  <2> QED
    BY <1>1, <1>3, <2>1, FlatTablesAgree
<1> QED
  BY <1>2, <1>4, <1>5 DEF r

LEMMA FlattenTyped ==
  ASSUME NEW S, NEW ss \in Seq(Seq(S))
  PROVE  FlattenSeq(ss) \in Seq(S)
<1> DEFINE n == Len(ss)
           t == FlatSoFar(ss, n)
           Bad == {i \in 1..n : t[i] \notin Seq(S)}
<1>1. n \in Nat /\ (n = 0 <=> ss = <<>>) /\ \A i \in 1..n : ss[i] \in Seq(S)
  OBVIOUS
<1>2. CASE n = 0
  <2>1. ss = <<>> /\ <<>> \in Seq(S)
    BY <1>1, <1>2
  <2>2. FlattenSeq(ss) = <<>>
    BY <2>1, FlattenOfNone
  <2> QED
    BY <2>1, <2>2
<1>3. CASE n # 0
  <2>1. FlattenSeq(ss) = t[n]
    BY <1>3, FlattenByTable
  <2>2. FlatTable(ss, n, t)
    BY <1>1, FlatTableExists
  <2> HIDE DEF n, t
  <2>3. SUFFICES ASSUME Bad # {} PROVE FALSE
    BY <1>1, <1>3, <2>1
  <2>4. PICK i \in Bad : \A j \in Bad : i <= j
    <3> Bad \in SUBSET Nat
      BY <1>1
    <3> HIDE DEF Bad
    <3> QED
      BY <2>3, LeastOf
  <2>5. t[i] = IF i = 1 THEN ss[i] ELSE t[i - 1] \o ss[i]
    BY <2>2 DEF FlatTable
  <2>6. CASE i = 1
    BY <1>1, <2>5, <2>6
  <2>7. CASE i # 1
    <3>1. i - 1 \in 1..n /\ i - 1 \notin Bad
      BY <1>1, <2>4, <2>7
    <3>2. t[i - 1] \in Seq(S) /\ ss[i] \in Seq(S)
      BY <1>1, <3>1
    <3>3. t[i - 1] \o ss[i] \in Seq(S)
      BY <3>2, ConcatProperties
    <3> QED
      BY <2>5, <2>7, <3>3
  <2> QED
    BY <2>6, <2>7
<1> QED
  BY <1>2, <1>3

(* Where every place counts everything is kept, and where none does nothing is. *)
LEMMA KeptAll ==
  ASSUME NEW S, NEW s \in Seq(S), NEW P, \A i \in 1..Len(s) : i \in P
  PROVE  Kept(s, P) = s
<1> DEFINE n == Len(s)
           t == KeptSoFar(s, P, n)
           Bad == {i \in 0..n : t[i] # SubSeq(s, 1, i)}
<1>1. n \in Nat /\ Kept(s, P) = t[n] /\ SubSeq(s, 1, n) = s /\ \A i \in 1..n : i \in P /\ s[i] \in S
  BY KeptByTable DEF KeptSoFar
<1>2. KeptTable(s, P, n, t)
  BY <1>1, KeptTableExists
<1>7. \A i \in 1..n : SubSeq(s, 1, i) = Append(SubSeq(s, 1, i - 1), s[i])
  OBVIOUS
<1>8. SubSeq(s, 1, 0) = <<>>
  OBVIOUS
<1> HIDE DEF n, t
<1>3. SUFFICES ASSUME Bad # {} PROVE FALSE
  BY <1>1
<1>4. PICK i \in Bad : \A j \in Bad : i <= j
  <2> Bad \in SUBSET Nat
    BY <1>1
  <2> HIDE DEF Bad
  <2> QED
    BY <1>3, LeastOf
<1>5. CASE i = 0
  <2>1. t[0] = <<>>
    BY <1>1, <1>2 DEF KeptTable
  <2> QED
    BY <1>5, <1>8, <2>1
<1>6. CASE i # 0
  <2>1. i - 1 \in 0..n /\ i - 1 \notin Bad /\ i \in 1..n /\ i \in 0..n
    BY <1>1, <1>4, <1>6
  <2>2. t[i - 1] = SubSeq(s, 1, i - 1)
    BY <2>1
  <2>3. t[i] = Append(t[i - 1], s[i])
    BY <1>1, <1>2, <1>6, <2>1 DEF KeptTable
  <2> QED
    BY <1>7, <2>1, <2>2, <2>3
<1> QED
  BY <1>5, <1>6

LEMMA KeptNothing ==
  ASSUME NEW S, NEW s \in Seq(S), NEW P, \A i \in 1..Len(s) : i \notin P
  PROVE  Kept(s, P) = <<>>
<1>1. Kept(s, P) \in Seq({})
  BY KeptTyped
<1> QED
  BY <1>1

-----------------------------------------------------------------------------
(* A sequence with an element at its end: its last, and what a change of that makes. *)
LEMMA LastOfAppend ==
  ASSUME NEW S, NEW s \in Seq(S), NEW b \in S
  PROVE  /\ Len(s) \in Nat /\ Len(Append(s, b)) = Len(s) + 1 /\ Append(s, b) # <<>>
         /\ Append(s, b)[Len(s) + 1] = b /\ Last(Append(s, b)) = b
         /\ \A i \in 1..Len(s) : Append(s, b)[i] = s[i]
BY AppendProperties DEF Last

LEMMA LastReplaced ==
  ASSUME NEW S, NEW s \in Seq(S), NEW b \in S, NEW e \in S
  PROVE  [Append(s, b) EXCEPT ![Len(s) + 1] = e] = Append(s, e)
<1> DEFINE r == Append(s, b)
           t == [r EXCEPT ![Len(s) + 1] = e]
           u == Append(s, e)
<1>1. /\ Len(s) \in Nat /\ r \in Seq(S) /\ Len(r) = Len(s) + 1 /\ \A i \in 1..Len(s) : r[i] = s[i]
      /\ u \in Seq(S) /\ Len(u) = Len(s) + 1 /\ u[Len(s) + 1] = e /\ \A i \in 1..Len(s) : u[i] = s[i]
  BY AppendProperties
<1> HIDE DEF r, u
<1>2. t \in Seq(S) /\ Len(t) = Len(s) + 1 /\ t[Len(s) + 1] = e
      /\ \A i \in 1..Len(s) : t[i] = r[i]
  BY <1>1, ExceptSeq
<1> HIDE DEF t
<1>3. \A i \in 1..Len(t) : t[i] = u[i]
  BY <1>1, <1>2
<1>4. t = u
  BY <1>1, <1>2, <1>3, SeqEqual
<1> QED
  BY <1>4 DEF t, u, r

-----------------------------------------------------------------------------
(* Blocks of an answer. *)
Words == Seq(Nat)
Names == ToolNames \cup {JSONTool, NoName}
Ids == {NoID} \cup ({"toolu"} \X Nat \X Nat) \cup ({"call"} \X Nat \X Names)
AnswerBlock == [type : {"text", "call"}, text : Words, id : Ids, name : Names, input : Words]

LEMMA OfTypeOfNone == ASSUME NEW type PROVE OfType(<<>>, type) = <<>>
BY KeptOfNone DEF OfType

LEMMA OfTypeOfAppend ==
  ASSUME NEW S, NEW s \in Seq(S), NEW b \in S, NEW type
  PROVE  OfType(Append(s, b), type) = IF b.type = type THEN Append(OfType(s, type), b) ELSE OfType(s, type)
<1> DEFINE r == Append(s, b)
           P == {i \in DOMAIN r : r[i].type = type}
           Q == {i \in DOMAIN s : s[i].type = type}
<1>1. Len(s) \in Nat /\ DOMAIN s = 1..Len(s) /\ DOMAIN r = 1..(Len(s) + 1)
      /\ r[Len(s) + 1] = b /\ \A i \in 1..Len(s) : r[i] = s[i]
  OBVIOUS
<1>2. (\A i \in 1..Len(s) : i \in P <=> i \in Q) /\ (Len(s) + 1 \in P <=> b.type = type)
  <2> HIDE DEF r
  <2> QED
    BY <1>1
<1> HIDE DEF P, Q
<1>3. Kept(r, P) = IF Len(s) + 1 \in P THEN Append(Kept(s, Q), b) ELSE Kept(s, Q)
  BY <1>2, KeptOfAppend
<1> QED
  BY <1>2, <1>3 DEF OfType, P, Q

LEMMA OfTypeTyped ==
  ASSUME NEW S, NEW s \in Seq(S), NEW type
  PROVE  /\ OfType(s, type) \in Seq(S)
         /\ OfType(s, type) \in Seq({b \in S : b.type = type})
         /\ Len(OfType(s, type)) <= Len(s) /\ Len(OfType(s, type)) \in Nat
<1> DEFINE P == {i \in DOMAIN s : s[i].type = type}
           T == {b \in S : b.type = type}
<1>1. \A i \in 1..Len(s) : i \in P => s[i] \in T
  OBVIOUS
<1>2. \A i \in 1..Len(s) : i \in P => s[i] \in S
  OBVIOUS
<1>3. OfType(s, type) = Kept(s, P)
  BY DEF OfType
<1> HIDE DEF P, T
<1>4. Kept(s, P) \in Seq(T) /\ Len(Kept(s, P)) <= Len(s)
  BY <1>1, KeptTyped
<1>5. Kept(s, P) \in Seq(S)
  BY <1>2, KeptTyped
<1> QED
  BY <1>3, <1>4, <1>5 DEF T

(* The texts of an answer, block by block. *)
LEMMA TextsOfNone == Texts(<<>>) = <<>>
<1>1. [i \in DOMAIN <<>> |-> <<>>[i].text] = <<>>
  OBVIOUS
<1> QED
  BY <1>1, OfTypeOfNone, FlattenOfNone DEF Texts, TextOf

LEMMA TextOfAppend ==
  ASSUME NEW S, \A b \in S : b.text \in Words, NEW s \in Seq(S), NEW e \in S
  PROVE  TextOf(s) \in Words /\ TextOf(Append(s, e)) = TextOf(s) \o e.text
<1> DEFINE texts == [i \in DOMAIN s |-> s[i].text]
           r == Append(s, e)
<1>1. texts \in Seq(Words) /\ e.text \in Words /\ (texts = <<>> <=> s = <<>>)
  <2>1. Len(s) \in Nat /\ DOMAIN s = 1..Len(s) /\ \A i \in 1..Len(s) : s[i] \in S
    OBVIOUS
  <2>2. \A i \in 1..Len(s) : s[i].text \in Words
    BY <2>1
  <2> QED
    BY <2>1, <2>2
<1>2. [i \in DOMAIN r |-> r[i].text] = Append(texts, e.text)
  <2>1. Len(s) \in Nat /\ DOMAIN s = 1..Len(s) /\ DOMAIN r = 1..(Len(s) + 1)
        /\ r[Len(s) + 1] = e /\ \A i \in 1..Len(s) : r[i] = s[i]
    OBVIOUS
  <2>2. Len(texts) = Len(s) /\ \A i \in 1..Len(s) : texts[i] = s[i].text
    BY <1>1, <2>1
  <2> DEFINE other == [i \in DOMAIN r |-> r[i].text]
  <2>3. DOMAIN other = 1..(Len(s) + 1) /\ other[Len(s) + 1] = e.text
        /\ \A i \in 1..Len(s) : other[i] = texts[i]
    <3> HIDE DEF r, texts
    <3> QED
      BY <2>1, <2>2
  <2> DEFINE more == Append(texts, e.text)
  <2>4. /\ more \in Seq(Words) /\ Len(more) = Len(s) + 1 /\ more[Len(s) + 1] = e.text
        /\ \A i \in 1..Len(s) : more[i] = texts[i]
    <3> HIDE DEF texts
    <3> QED
      BY <1>1, <2>2, AppendProperties
  <2>5. \A i \in 1..(Len(s) + 1) : other[i] = more[i]
    <3> HIDE DEF other, more, texts
    <3>1. ASSUME NEW i \in 1..(Len(s) + 1) PROVE other[i] = more[i]
      <4>1. i \in 1..Len(s) \/ i = Len(s) + 1
        BY <2>1
      <4> QED
        BY <2>3, <2>4, <4>1
    <3> QED
      BY <3>1
  <2>6. other \in Seq(Words) /\ Len(other) = Len(s) + 1
    <3>1. other = [i \in 1..(Len(s) + 1) |-> other[i]]
      BY <2>3
    <3> HIDE DEF other, more, texts
    <3>2. \A i \in 1..(Len(s) + 1) : other[i] \in Words
      BY <2>1, <2>4, <2>5
    <3>3. Len(s) + 1 \in Nat
      BY <2>1
    <3> QED
      BY <3>1, <3>2, <3>3
  <2>7. other = more
    <3> HIDE DEF other, more, texts
    <3> QED
      BY <2>4, <2>5, <2>6, SeqEqual
  <2> HIDE DEF texts, r
  <2> QED
    BY <2>7
<1>3. TextOf(s) = FlattenSeq(texts) /\ TextOf(r) = FlattenSeq(Append(texts, e.text))
  BY <1>2 DEF TextOf
<1> HIDE DEF texts, r
<1>4. FlattenSeq(texts) \in Words
  BY <1>1, FlattenTyped DEF Words
<1>5. FlattenSeq(Append(texts, e.text)) = IF texts = <<>> THEN e.text ELSE FlattenSeq(texts) \o e.text
  BY <1>1, FlattenOfAppend DEF Words
<1>6. CASE texts = <<>>
  <2>1. FlattenSeq(texts) = <<>>
    BY <1>6, FlattenOfNone
  <2>2. <<>> \o e.text = e.text
    BY <1>1, ConcatEmptySeq DEF Words
  <2> QED
    BY <1>3, <1>4, <1>5, <1>6, <2>1, <2>2 DEF r
<1> QED
  BY <1>3, <1>4, <1>5, <1>6 DEF r

LEMMA TextsOfAppend ==
  ASSUME NEW S, \A b \in S : b.text \in Words, NEW s \in Seq(S), NEW b \in S
  PROVE  /\ Texts(s) \in Words
         /\ Texts(Append(s, b)) = IF b.type = "text" THEN Texts(s) \o b.text ELSE Texts(s)
<1>1. OfType(s, "text") \in Seq(S)
  BY OfTypeTyped
<1>2. OfType(Append(s, b), "text") = IF b.type = "text" THEN Append(OfType(s, "text"), b) ELSE OfType(s, "text")
  BY OfTypeOfAppend
<1>3. /\ TextOf(OfType(s, "text")) \in Words
      /\ TextOf(Append(OfType(s, "text"), b)) = TextOf(OfType(s, "text")) \o b.text
  BY <1>1, TextOfAppend
<1> QED
  BY <1>2, <1>3 DEF Texts

-----------------------------------------------------------------------------
(* What a client holds, and what the translator of its stream keeps. *)
Holding(role, text, calls, finish, done) ==
    [role |-> role, text |-> text, calls |-> calls, finish |-> finish, done |-> done]
Held(g) == g = Holding(g.role, g.text, g.calls, g.finish, g.done)
Tracking(role, toolIndex, nextToolIndex, reason, usage, done) ==
    [role |-> role, toolIndex |-> toolIndex, nextToolIndex |-> nextToolIndex, reason |-> reason,
     usage |-> usage, done |-> done]
Tracked(t) == t = Tracking(t.role, t.toolIndex, t.nextToolIndex, t.reason, t.usage, t.done)

(* What the client should hold of a call: an Anthropic one with the fragments it came in,
   a Gemini one with an id that is made up for it. *)
ToldCall(d, calls, i) ==
    Call(IF d = "anthropic" THEN calls[i].id ELSE geminiCallID(i - 1, calls[i].name), calls[i].name,
         IF d = "anthropic" THEN calls[i].input ELSE toolArguments(calls[i].input))
ToldCalls(d, calls) == [i \in 0..(Len(calls) - 1) |-> ToldCall(d, calls, i + 1)]

Reasons(d) == IF d = "anthropic" THEN {"end_turn", "tool_use", "max_tokens"} ELSE {"STOP", "MAX_TOKENS"}

(* The answer so far, and whether it has said why it ends. *)
AnswerInv ==
    /\ answer.blocks \in Seq(AnswerBlock) /\ Len(answer.blocks) <= MaxBlocks
    /\ answer = [blocks |-> answer.blocks, reason |-> answer.reason]
    /\ phase = "asked" => answer = Empty
    /\ phase = "answering" => answer.reason = ""
    /\ phase = "stopping" => answer.reason \in Reasons(asked.dialect)
    /\ phase = "answered" => \/ answer.reason \in Reasons(asked.dialect)
                             \/ asked.stream /\ answer.reason = ""

(* A stream's books match the answer it tells: the texts, the calls and their numbers, the
   block a fragment belongs to, the reason and, at the end, the tokens. *)
StreamMatches ==
    LET calls == ToolCalls(answer.blocks)
        last == Len(answer.blocks)
    IN  /\ got.role = TRUE /\ got.text = Texts(answer.blocks) /\ got.calls = ToldCalls(asked.dialect, calls)
        /\ tr.nextToolIndex = Len(calls) /\ tr.reason = answer.reason
        /\ DOMAIN tr.toolIndex \subseteq 0..(last - 1)
        /\ (last # 0 /\ answer.blocks[last].type = "call") =>
              last - 1 \in DOMAIN tr.toolIndex /\ tr.toolIndex[last - 1] = Len(calls) - 1
        /\ asked.dialect = "anthropic" =>
              tr.usage = [fresh |-> 2, cacheRead |-> 1, cacheWrite |-> 1, in |-> 4,
                          out |-> IF answer.reason = "" THEN 1 ELSE 3]

FinishTold == FinishChunks(asked.dialect, tr)[1].finish

ToldInv ==
    /\ Tracked(tr) /\ Held(got)
    /\ DOMAIN tr.toolIndex \subseteq 0..(MaxBlocks - 1) /\ DOMAIN got.calls \subseteq 0..(MaxBlocks - 1)
    /\ got.done \in BOOLEAN /\ (got.done => got.finish # "")
    /\ (phase = "asked" \/ (phase \in {"answering", "stopping"} /\ ~asked.stream)) =>
          got = Nothing /\ tr = NoStream
    /\ (phase \in {"answering", "stopping", "answered"} /\ asked.stream) => StreamMatches
    /\ (phase \in {"answering", "stopping"} /\ asked.stream) => got.finish = "" /\ got.done = FALSE /\ tr.done = FALSE
    /\ (phase = "answered" /\ asked.stream) => got.done = TRUE /\ got.finish = FinishTold
    /\ (phase = "answered" /\ ~asked.stream) =>
          got = [role |-> TRUE, text |-> Whole.text, calls |-> ZeroBased(Whole.calls),
                 finish |-> Whole.finish, done |-> TRUE]

ControlInv ==
    /\ phase \in Phases /\ turn \in 0..MaxTurns
    /\ asked \in [dialect : Dialects, stream : BOOLEAN, opts : Options]

DialogueInv == ControlInv /\ AnswerInv /\ ToldInv

-----------------------------------------------------------------------------
(* What a client hears of one chunk, and of two. *)
LEMMA HeardRole ==
  ASSUME NEW g, Held(g)
  PROVE  Accumulate(g, RoleChunk) = Holding(TRUE, g.text, g.calls, g.finish, g.done)
BY DEF Held, Holding, Accumulate, RoleChunk

LEMMA HeardText ==
  ASSUME NEW g, Held(g), NEW text
  PROVE  Accumulate(g, ContentChunk(text)) = Holding(g.role, g.text \o text, g.calls, g.finish, g.done)
BY DEF Held, Holding, Accumulate, ContentChunk

LEMMA HeardFinish ==
  ASSUME NEW g, Held(g), NEW finish
  PROVE  Accumulate(g, FinishChunk(finish)) = Holding(g.role, g.text, g.calls, finish, g.done)
BY DEF Held, Holding, Accumulate, FinishChunk

LEMMA HeardDone ==
  ASSUME NEW g, Held(g)
  PROVE  Accumulate(g, DoneChunk) = Holding(g.role, g.text, g.calls, g.finish, TRUE)
BY DEF Held, Holding, Accumulate, DoneChunk

LEMMA HeardTool ==
  ASSUME NEW g, Held(g), NEW i, NEW id, NEW name, NEW args
  PROVE  Accumulate(g, ToolChunk(i, id, name, args)) =
           Holding(g.role, g.text, Gathered(g.calls, ToolChunk(i, id, name, args)), g.finish, g.done)
BY DEF Held, Holding, Accumulate, ToolChunk

Extended(calls, i, call) == [j \in DOMAIN calls \cup {i} |-> IF j = i THEN call ELSE calls[j]]
WithPiece(calls, i, piece) ==
    [j \in DOMAIN calls |->
       IF j = i THEN Call(calls[j].id, calls[j].name, calls[j].args \o piece) ELSE calls[j]]

LEMMA GatheredCall ==
  ASSUME NEW calls, NEW i, i \notin DOMAIN calls, NEW id, NEW name, NEW args
  PROVE  Gathered(calls, ToolChunk(i, id, name, args)) = Extended(calls, i, Call(id, name, args))
BY DEF Gathered, ToolChunk, Extended

LEMMA ArgsReplaced ==
  ASSUME NEW id, NEW name, NEW old, NEW args
  PROVE  [Call(id, name, old) EXCEPT !.args = args] = Call(id, name, args)
BY DEF Call

LEMMA GatheredFragment ==
  ASSUME NEW calls, NEW i \in DOMAIN calls, NEW id, NEW name, NEW args,
         calls[i] = Call(calls[i].id, calls[i].name, calls[i].args)
  PROVE  Gathered(calls, ToolChunk(i, id, name, args)) = WithPiece(calls, i, args)
<1> DEFINE longer == [calls[i] EXCEPT !.args = @ \o args]
<1>1. DOMAIN calls \cup {i} = DOMAIN calls
  OBVIOUS
<1>2. longer = Call(calls[i].id, calls[i].name, calls[i].args \o args)
  <2> DEFINE call == calls[i]
             more == calls[i].args \o args
  <2>1. longer = [call EXCEPT !.args = more]
    OBVIOUS
  <2>2. call = Call(call.id, call.name, call.args)
    OBVIOUS
  <2> HIDE DEF call, more
  <2>3. [call EXCEPT !.args = more] = Call(call.id, call.name, more)
    BY <2>2, ArgsReplaced
  <2> QED
    BY <2>1, <2>3 DEF call, more
<1>3. Gathered(calls, ToolChunk(i, id, name, args)) =
        [j \in DOMAIN calls |-> IF j = i THEN longer ELSE calls[j]]
  BY <1>1 DEF Gathered, ToolChunk
<1> HIDE DEF longer
<1> QED
  BY <1>2, <1>3 DEF WithPiece

Folded(chunks, n, t) == t = [i \in 0..n |-> IF i = 0 THEN got ELSE Accumulate(t[i - 1], chunks[i])]

LEMMA ReceivedByTable ==
  ASSUME NEW chunks
  PROVE  Received(chunks) = (CHOOSE x : Folded(chunks, Len(chunks), x))[Len(chunks)]
BY DEF Received, Folded

LEMMA ReceivedNone == Received(<<>>) = got
<1> DEFINE t == [i \in 0..0 |-> got]
           u == CHOOSE x : Folded(<<>>, 0, x)
<1>1. Folded(<<>>, 0, t)
  BY DEF Folded
<1>2. Folded(<<>>, 0, u)
  BY <1>1
<1> HIDE DEF u
<1>3. u[0] = got
  BY <1>2 DEF Folded
<1> QED
  BY <1>3, ReceivedByTable DEF u

LEMMA ReceivedOne == ASSUME NEW c PROVE Received(<<c>>) = Accumulate(got, c)
<1> DEFINE t == [i \in 0..1 |-> IF i = 0 THEN got ELSE Accumulate(got, c)]
           u == CHOOSE x : Folded(<<c>>, 1, x)
<1>1. Folded(<<c>>, 1, t)
  <2>1. 0..1 = {0, 1}
    OBVIOUS
  <2> QED
    BY <2>1 DEF Folded
<1>2. Folded(<<c>>, 1, u)
  BY <1>1
<1>3. Received(<<c>>) = u[1]
  BY ReceivedByTable
<1> HIDE DEF u
<1>4. u[0] = got
  BY <1>2 DEF Folded
<1>5. u[1] = Accumulate(u[0], c)
  BY <1>2 DEF Folded
<1> QED
  BY <1>3, <1>4, <1>5

LEMMA ReceivedTwo == ASSUME NEW c, NEW e PROVE Received(<<c, e>>) = Accumulate(Accumulate(got, c), e)
<1> DEFINE once == Accumulate(got, c)
           twice == Accumulate(once, e)
           t == [i \in 0..2 |-> IF i = 0 THEN got ELSE IF i = 1 THEN once ELSE twice]
           u == CHOOSE x : Folded(<<c, e>>, 2, x)
<1>1. Folded(<<c, e>>, 2, t)
  <2>1. ASSUME NEW i \in 0..2 PROVE t[i] = IF i = 0 THEN got ELSE Accumulate(t[i - 1], <<c, e>>[i])
    <3>1. i = 0 \/ i = 1 \/ i = 2
      OBVIOUS
    <3>2. t[0] = got /\ t[1] = once /\ t[2] = twice
      OBVIOUS
    <3> HIDE DEF t
    <3> QED
      BY <3>1, <3>2
  <2> QED
    BY <2>1 DEF Folded
<1>2. Folded(<<c, e>>, 2, u)
  BY <1>1
<1>3. Received(<<c, e>>) = u[2]
  BY ReceivedByTable
<1> HIDE DEF u
<1>4. u[0] = got
  BY <1>2 DEF Folded
<1>5. u[1] = Accumulate(u[0], c)
  BY <1>2 DEF Folded
<1>6. u[2] = Accumulate(u[1], e)
  BY <1>2 DEF Folded
<1> QED
  BY <1>3, <1>4, <1>5, <1>6

-----------------------------------------------------------------------------
(* What is told of the calls, one by one. *)
LEMMA ToldNone == ASSUME NEW d PROVE ToldCalls(d, <<>>) = << >>
<1>1. Len(<<>>) = 0 /\ 0..(0 - 1) = {} /\ DOMAIN << >> = {}
  OBVIOUS
<1> DEFINE t == ToldCalls(d, <<>>)
<1>2. t = [i \in {} |-> ToldCall(d, <<>>, i + 1)]
  BY <1>1 DEF ToldCalls
<1> QED
  BY <1>1, <1>2

LEMMA ToldOneMore ==
  ASSUME NEW d, NEW S, NEW s \in Seq(S), NEW b \in S
  PROVE  /\ DOMAIN ToldCalls(d, s) = 0..(Len(s) - 1) /\ Len(s) \in Nat
         /\ ToldCalls(d, Append(s, b)) =
              Extended(ToldCalls(d, s), Len(s), ToldCall(d, Append(s, b), Len(s) + 1))
<1> DEFINE n == Len(s)
           r == Append(s, b)
<1>1. n \in Nat /\ Len(r) = n + 1 /\ \A i \in 1..n : r[i] = s[i]
  OBVIOUS
<1> HIDE DEF n, r
<1>2. DOMAIN ToldCalls(d, s) = 0..(n - 1) /\ \A i \in 0..(n - 1) : ToldCalls(d, s)[i] = ToldCall(d, s, i + 1)
  BY DEF ToldCalls, n
<1>3. 0..(Len(r) - 1) = (0..(n - 1)) \cup {n}
  BY <1>1
<1>4. \A i \in 0..(n - 1) : ToldCall(d, r, i + 1) = ToldCall(d, s, i + 1)
  <2>1. \A i \in 0..(n - 1) : r[i + 1] = s[i + 1]
    BY <1>1
  <2> QED
    BY <2>1 DEF ToldCall
<1>5. ToldCalls(d, r) = [i \in (0..(n - 1)) \cup {n} |-> ToldCall(d, r, i + 1)]
  BY <1>3 DEF ToldCalls
<1>6. \A i \in (0..(n - 1)) \cup {n} :
        ToldCall(d, r, i + 1) = IF i = n THEN ToldCall(d, r, n + 1) ELSE ToldCalls(d, s)[i]
  BY <1>1, <1>2, <1>4
<1>7. ToldCalls(d, r) = [i \in (0..(n - 1)) \cup {n} |-> IF i = n THEN ToldCall(d, r, n + 1) ELSE ToldCalls(d, s)[i]]
  BY <1>5, <1>6
<1> QED
  BY <1>1, <1>2, <1>7 DEF n, r, Extended

LEMMA ToldFragment ==
  ASSUME NEW s \in Seq(AnswerBlock), NEW b \in AnswerBlock, NEW piece
  PROVE  LET told == ToldCalls("anthropic", Append(s, b))
             longer == [b EXCEPT !.input = @ \o piece]
         IN  /\ Len(s) \in DOMAIN told
             /\ told[Len(s)] = Call(b.id, b.name, b.input)
             /\ ToldCalls("anthropic", Append(s, longer)) = WithPiece(told, Len(s), piece)
<1> DEFINE told == ToldCalls("anthropic", Append(s, b))
           longer == [b EXCEPT !.input = @ \o piece]
           before == ToldCalls("anthropic", s)
           n == Len(s)
           T == AnswerBlock \cup {longer}
<1>1. s \in Seq(T) /\ b \in T /\ longer \in T /\ n \in Nat
  OBVIOUS
<1>2. longer.id = b.id /\ longer.name = b.name /\ longer.input = b.input \o piece
  BY DEF AnswerBlock
<1> DEFINE r == Append(s, b)
           q == Append(s, longer)
<1>3. r[n + 1] = b /\ q[n + 1] = longer
  BY <1>1
<1> HIDE DEF T, longer
<1>4. told = Extended(before, n, ToldCall("anthropic", r, n + 1))
  BY <1>1, ToldOneMore
<1>5. ToldCalls("anthropic", q) = Extended(before, n, ToldCall("anthropic", q, n + 1))
  BY <1>1, ToldOneMore
<1> HIDE DEF r, q, n
<1>6. /\ ToldCall("anthropic", q, n + 1) = Call(b.id, b.name, b.input \o piece)
      /\ ToldCall("anthropic", r, n + 1) = Call(b.id, b.name, b.input)
  BY <1>2, <1>3 DEF ToldCall
<1> HIDE DEF told, before
<1>7. /\ n \in DOMAIN told /\ told[n] = Call(b.id, b.name, b.input)
      /\ DOMAIN told = DOMAIN before \cup {n} /\ \A i \in DOMAIN before : i # n => told[i] = before[i]
  BY <1>4, <1>6 DEF Extended
<1>8. Call(told[n].id, told[n].name, told[n].args \o piece) = Call(b.id, b.name, b.input \o piece)
  BY <1>7 DEF Call
<1>9. ToldCalls("anthropic", q) = WithPiece(told, n, piece)
  BY <1>5, <1>6, <1>7, <1>8 DEF Extended, WithPiece
<1> QED
  BY <1>7, <1>9 DEF told, longer, n, q, r

-----------------------------------------------------------------------------
(* The steps.  Whatever starts a stream or goes on with it keeps its books. *)
LEMMA EmptyAnswer ==
  /\ Empty.blocks = <<>> /\ Empty.reason = "" /\ Empty = [blocks |-> Empty.blocks, reason |-> Empty.reason]
  /\ Empty.blocks \in Seq(AnswerBlock) /\ Len(Empty.blocks) = 0
<1>1. <<>> \in Seq(AnswerBlock) /\ Len(<<>>) = 0
  OBVIOUS
<1>2. Empty.blocks = <<>> /\ Empty.reason = "" /\ Empty = [blocks |-> Empty.blocks, reason |-> Empty.reason]
  BY DEF Empty
<1> QED
  BY <1>1, <1>2

LEMMA NothingTold ==
  /\ Held(Nothing) /\ Tracked(NoStream) /\ Nothing.done = FALSE
  /\ DOMAIN Nothing.calls = {} /\ DOMAIN NoStream.toolIndex = {}
<1>1. DOMAIN << >> = {}
  OBVIOUS
<1>2. Nothing.calls = << >> /\ NoStream.toolIndex = << >> /\ Nothing.done = FALSE
  BY DEF Nothing, NoStream
<1>3. Held(Nothing) /\ Tracked(NoStream)
  BY DEF Held, Holding, Tracked, Tracking, Nothing, NoStream
<1> QED
  BY <1>1, <1>2, <1>3

LEMMA InitDialogue == DialogueInit => DialogueInv
<1> SUFFICES ASSUME DialogueInit PROVE DialogueInv
  OBVIOUS
<1>1. ControlInv
  BY DialogueAssumption DEF DialogueInit, ControlInv, Phases, Dialects, Options
<1>2. AnswerInv
  <2>1. answer = Empty /\ phase = "idle"
    BY DEF DialogueInit
  <2>2. Len(Empty.blocks) <= MaxBlocks
    <3>1. Len(Empty.blocks) = 0
      BY EmptyAnswer
    <3> QED
      BY <3>1, DialogueAssumption
  <2> QED
    BY <2>1, <2>2, EmptyAnswer DEF AnswerInv
<1>3. ToldInv
  BY NothingTold DEF DialogueInit, ToldInv
<1> QED
  BY <1>1, <1>2, <1>3 DEF DialogueInv

LEMMA Unstreamed ==
  ASSUME ToldInv, ~asked.stream, asked' = asked, UNCHANGED <<tr, got>>,
         phase \in {"asked", "answering", "stopping"}, phase' \in {"answering", "stopping"}
  PROVE  ToldInv'
BY DEF ToldInv

LEMMA BlocksFit ==
  ASSUME NEW blocks \in Seq(AnswerBlock), Len(blocks) <= MaxBlocks
  PROVE  /\ Len(blocks) \in Nat /\ 0..(Len(blocks) - 1) \subseteq 0..(MaxBlocks - 1)
         /\ 0..(Len(ToolCalls(blocks)) - 1) \subseteq 0..(MaxBlocks - 1)
<1>1. Len(blocks) \in Nat
  OBVIOUS
<1>2. Len(ToolCalls(blocks)) <= Len(blocks) /\ Len(ToolCalls(blocks)) \in Nat
  BY OfTypeTyped DEF ToolCalls
<1> QED
  BY <1>1, <1>2, DialogueAssumption

LEMMA Streamed ==
  ASSUME AnswerInv', StreamMatches', Tracked(tr)', Held(got)', asked'.stream,
         phase' \in {"answering", "stopping"}, got'.finish = "", got'.done = FALSE, tr'.done = FALSE
  PROVE  ToldInv'
<1> DEFINE blocks == answer'.blocks
           calls == ToolCalls(blocks)
<1>1. blocks \in Seq(AnswerBlock) /\ Len(blocks) <= MaxBlocks
  BY DEF AnswerInv
<1>2. DOMAIN got'.calls = 0..(Len(calls) - 1)
  BY DEF StreamMatches, ToldCalls
<1>3. DOMAIN tr'.toolIndex \subseteq 0..(Len(blocks) - 1)
  BY DEF StreamMatches
<1> HIDE DEF blocks
<1>4. /\ 0..(Len(blocks) - 1) \subseteq 0..(MaxBlocks - 1)
      /\ 0..(Len(calls) - 1) \subseteq 0..(MaxBlocks - 1)
  BY <1>1, BlocksFit
<1> HIDE DEF calls
<1> QED
  BY <1>2, <1>3, <1>4 DEF ToldInv

LEMMA AskKeeps ==
  ASSUME DialogueInv, NEW d \in Dialects, NEW stream \in BOOLEAN, NEW opts \in Options, Ask(d, stream, opts)
  PROVE  DialogueInv'
<1>1. ControlInv'
  BY DEF DialogueInv, ControlInv, Ask, Phases
<1>2. AnswerInv'
  <2>1. answer' = Empty /\ phase' \in {"asked", "refused"}
    BY DEF Ask
  <2>2. Len(Empty.blocks) <= MaxBlocks
    <3>1. Len(Empty.blocks) = 0
      BY EmptyAnswer
    <3> QED
      BY <3>1, DialogueAssumption
  <2> QED
    BY <2>1, <2>2, EmptyAnswer DEF AnswerInv
<1>3. ToldInv'
  BY NothingTold DEF Ask, ToldInv
<1> QED
  BY <1>1, <1>2, <1>3 DEF DialogueInv

LEMMA ContinueKeeps ==
  ASSUME DialogueInv, NEW remark \in BOOLEAN, NEW trim \in BOOLEAN, Continue(remark, trim)
  PROVE  DialogueInv'
<1>1. phase' = "idle" /\ turn' = turn + 1 /\ turn < MaxTurns /\ UNCHANGED <<asked, answer, tr, got>>
  BY DEF Continue
<1>2. ControlInv'
  BY <1>1, DialogueAssumption DEF DialogueInv, ControlInv, Phases
<1>3. AnswerInv' /\ ToldInv'
  BY <1>1 DEF DialogueInv, AnswerInv, ToldInv
<1> QED
  BY <1>2, <1>3 DEF DialogueInv

LEMMA MessageStartKeeps == ASSUME DialogueInv, MessageStart PROVE DialogueInv'
<1>1. /\ phase = "asked" /\ phase' = "answering" /\ UNCHANGED <<asked, answer, turn>>
      /\ answer = Empty /\ got = Nothing /\ tr = NoStream
  BY DEF MessageStart, DialogueInv, AnswerInv, ToldInv
<1>2. ControlInv'
  BY <1>1 DEF DialogueInv, ControlInv, Phases
<1>3. AnswerInv'
  BY <1>1 DEF DialogueInv, AnswerInv, Empty
<1>4. CASE ~asked.stream
  <2>1. UNCHANGED <<tr, got>>
    BY <1>4 DEF MessageStart, Tell
  <2>2. ToldInv'
    BY <1>1, <1>4, <2>1, Unstreamed DEF DialogueInv
  <2> QED
    BY <1>2, <1>3, <2>2 DEF DialogueInv
<1>5. CASE asked.stream
  <2>1. got' = Holding(TRUE, <<>>, << >>, "", FALSE)
    <3>1. got' = Received(<<RoleChunk>>)
      BY <1>5 DEF MessageStart, Tell
    <3>2. Held(got)
      BY DEF DialogueInv, ToldInv
    <3>3. got' = Holding(TRUE, got.text, got.calls, got.finish, got.done)
      BY <3>1, <3>2, ReceivedOne, HeardRole
    <3> QED
      BY <1>1, <3>3 DEF Nothing
  <2> DEFINE used == IF asked.dialect = "anthropic" THEN UsageAdd(NoTokens, StartUsage) ELSE NoTokens
  <2>2. tr' = Tracking(TRUE, << >>, 0, "", used, FALSE)
    BY <1>1, <1>5 DEF MessageStart, Tell, Asking, NoStream, Tracking
  <2>3. asked.dialect = "anthropic" =>
          used = [fresh |-> 2, cacheRead |-> 1, cacheWrite |-> 1, in |-> 4, out |-> 1]
    BY DEF UsageAdd, NoTokens, StartUsage
  <2> HIDE DEF used
  <2>4. ToolCalls(<<>>) = <<>> /\ Texts(<<>>) = <<>> /\ \A d : ToldCalls(d, <<>>) = << >>
    BY OfTypeOfNone, TextsOfNone, ToldNone DEF ToolCalls
  <2>5. answer'.blocks = <<>> /\ answer'.reason = "" /\ asked' = asked
    BY <1>1 DEF Empty
  <2>6. StreamMatches'
    <3>1. /\ got'.role = TRUE /\ got'.text = <<>> /\ got'.calls = << >>
          /\ tr'.nextToolIndex = 0 /\ tr'.reason = "" /\ tr'.toolIndex = << >> /\ tr'.usage = used
      BY <2>1, <2>2 DEF Holding, Tracking
    <3>2. Len(<<>>) = 0 /\ DOMAIN << >> = {}
      OBVIOUS
    <3> QED
      BY <2>3, <2>4, <2>5, <3>1, <3>2 DEF StreamMatches
  <2>7. ToldInv'
    BY <1>1, <1>3, <1>5, <2>1, <2>2, <2>6, Streamed DEF Holding, Tracking, Held, Tracked
  <2> QED
    BY <1>2, <1>3, <2>7 DEF DialogueInv
<1>6. asked.stream \in BOOLEAN
  BY DEF DialogueInv, ControlInv
<1> QED
  BY <1>4, <1>5, <1>6

(* A block more in the answer. *)
LEMMA BlocksTyped ==
  ASSUME DialogueInv
  PROVE  answer.blocks \in Seq(AnswerBlock) /\ Len(answer.blocks) \in Nat
<1>1. answer.blocks \in Seq(AnswerBlock)
  BY DEF DialogueInv, AnswerInv
<1> QED
  BY <1>1

LEMMA SaysKeeps ==
  ASSUME DialogueInv, NEW b \in AnswerBlock, Says(b)
  PROVE  /\ ControlInv' /\ AnswerInv'
         /\ phase = "answering" /\ phase' = "answering" /\ UNCHANGED <<asked, turn>>
         /\ answer'.blocks = Append(answer.blocks, b) /\ answer.blocks \in Seq(AnswerBlock)
         /\ answer'.reason = "" /\ answer.reason = ""
<1>1. /\ phase = "answering" /\ phase' = "answering" /\ UNCHANGED <<asked, turn>>
      /\ Len(answer.blocks) < MaxBlocks - turn
      /\ answer' = [answer EXCEPT !.blocks = Append(@, b)]
  BY DEF Says
<1>2. /\ answer.blocks \in Seq(AnswerBlock) /\ answer.reason = ""
      /\ answer = [blocks |-> answer.blocks, reason |-> answer.reason]
  BY <1>1 DEF DialogueInv, AnswerInv
<1> DEFINE blocks == answer.blocks
           more == Append(blocks, b)
<1>3. answer' = [blocks |-> more, reason |-> ""]
  BY <1>1, <1>2
<1>4. turn \in 0..MaxTurns
  BY DEF DialogueInv, ControlInv
<1>5. Len(blocks) < MaxBlocks - turn /\ blocks \in Seq(AnswerBlock)
  BY <1>1, <1>2
<1> HIDE DEF blocks
<1>6. more \in Seq(AnswerBlock) /\ Len(more) = Len(blocks) + 1
  BY <1>5, AppendProperties
<1>7. Len(more) <= MaxBlocks
  <2>1. Len(blocks) \in Nat
    BY <1>5
  <2> HIDE DEF more
  <2> QED
    BY <1>4, <1>5, <1>6, <2>1, DialogueAssumption
<1> HIDE DEF more
<1>8. answer'.blocks = more /\ answer'.reason = "" /\ answer' = [blocks |-> answer'.blocks, reason |-> answer'.reason]
  BY <1>3
<1>9. AnswerInv'
  BY <1>1, <1>6, <1>7, <1>8 DEF AnswerInv
<1>10. ControlInv'
  BY <1>1 DEF DialogueInv, ControlInv
<1> QED
  BY <1>1, <1>2, <1>8, <1>9, <1>10 DEF more, blocks

(* What the books are before a step of an answer that is told as it comes. *)
LEMMA BooksBefore ==
  ASSUME DialogueInv, phase \in {"answering", "stopping"}, asked.stream
  PROVE  /\ StreamMatches /\ Tracked(tr) /\ Held(got)
         /\ got.role = TRUE /\ got.finish = "" /\ got.done = FALSE /\ tr.done = FALSE
BY DEF DialogueInv, ToldInv, StreamMatches

LEMMA TextDeltaKeeps == ASSUME DialogueInv, TextDelta PROVE DialogueInv'
<1> DEFINE piece == ThisPiece
           b == TextBlock(piece)
           blocks == answer.blocks
<1>1. Says(b) /\ Tell(tr, <<ContentChunk(piece)>>)
  BY DEF TextDelta
<1>2. piece \in Words /\ b \in AnswerBlock /\ b.type = "text" /\ b.text = piece
  <2>1. Len(answer.blocks) \in Nat
    BY BlocksTyped
  <2>2. piece \in Words
    BY <2>1 DEF ThisPiece, Words
  <2> HIDE DEF piece
  <2>3. <<>> \in Words
    BY DEF Words
  <2> QED
    BY <2>2, <2>3 DEF TextBlock, Block, AnswerBlock, Ids, Names
<1> HIDE DEF piece, b
<1>3. /\ ControlInv' /\ AnswerInv'
      /\ phase = "answering" /\ phase' = "answering" /\ UNCHANGED <<asked, turn>>
      /\ answer'.blocks = Append(answer.blocks, b) /\ answer.blocks \in Seq(AnswerBlock)
      /\ answer'.reason = "" /\ answer.reason = ""
  BY <1>1, <1>2, SaysKeeps
<1>4. CASE ~asked.stream
  <2>1. UNCHANGED <<tr, got>>
    BY <1>1, <1>4 DEF Tell
  <2>2. ToldInv'
    BY <1>3, <1>4, <2>1, Unstreamed DEF DialogueInv
  <2> QED
    BY <1>3, <2>2 DEF DialogueInv
<1>5. CASE asked.stream
  <2>1. /\ StreamMatches /\ Tracked(tr) /\ Held(got)
        /\ got.role = TRUE /\ got.finish = "" /\ got.done = FALSE /\ tr.done = FALSE
    BY <1>3, <1>5, BooksBefore
  <2>2. tr' = tr /\ got' = Received(<<ContentChunk(piece)>>)
    BY <1>1, <1>5 DEF Tell
  <2>3. got' = Holding(got.role, got.text \o piece, got.calls, got.finish, got.done)
    BY <2>1, <2>2, ReceivedOne, HeardText
  <2>4. /\ got'.role = TRUE /\ got'.text = got.text \o piece /\ got'.calls = got.calls
        /\ got'.finish = "" /\ got'.done = FALSE /\ Held(got)'
    BY <2>1, <2>3 DEF Holding, Held
  <2>5. Texts(Append(blocks, b)) = Texts(blocks) \o piece
    <3>1. \A x \in AnswerBlock : x.text \in Words
      BY DEF AnswerBlock
    <3> QED
      BY <1>2, <1>3, <3>1, TextsOfAppend
  <2>6. ToolCalls(Append(blocks, b)) = ToolCalls(blocks)
    <3>1. b.type # "call"
      BY <1>2
    <3> HIDE DEF blocks
    <3>2. OfType(Append(blocks, b), "call") = OfType(blocks, "call")
      BY <1>2, <1>3, <3>1, OfTypeOfAppend DEF blocks
    <3> QED
      BY <3>2 DEF ToolCalls
  <2>7. /\ Len(blocks) \in Nat /\ Len(Append(blocks, b)) = Len(blocks) + 1
        /\ Append(blocks, b)[Len(blocks) + 1] = b
    <3>1. blocks \in Seq(AnswerBlock) /\ b \in AnswerBlock
      BY <1>2, <1>3
    <3> HIDE DEF blocks
    <3> QED
      BY ONLY <3>1, LastOfAppend
  <2>8. StreamMatches'
    <3>1. answer'.blocks = Append(blocks, b) /\ answer'.reason = answer.reason /\ asked' = asked
      BY <1>3
    <3>2. /\ Len(answer'.blocks) = Len(blocks) + 1 /\ answer'.blocks[Len(answer'.blocks)].type = "text"
          /\ Texts(answer'.blocks) = got'.text /\ ToolCalls(answer'.blocks) = ToolCalls(blocks)
      BY <1>2, <2>1, <2>4, <2>5, <2>6, <2>7, <3>1 DEF StreamMatches
    <3>3. DOMAIN tr.toolIndex \subseteq 0..(Len(blocks) - 1)
      BY <2>1 DEF StreamMatches
    <3>4. DOMAIN tr'.toolIndex \subseteq 0..(Len(answer'.blocks) - 1)
      BY <2>2, <2>7, <3>2, <3>3
    <3> HIDE DEF blocks
    <3> QED
      BY <2>1, <2>2, <2>4, <3>1, <3>2, <3>4 DEF StreamMatches, blocks
  <2>9. ToldInv'
    BY <1>3, <1>5, <2>1, <2>2, <2>4, <2>8, Streamed
  <2> QED
    BY <1>3, <2>9 DEF DialogueInv
<1>6. asked.stream \in BOOLEAN
  BY DEF DialogueInv, ControlInv
<1> QED
  BY <1>4, <1>5, <1>6

LEMMA Started ==
  ASSUME NEW t, Tracked(t), NEW i
  PROVE  ToolStarted(t, i) = Tracking(t.role, Extended(t.toolIndex, i, t.nextToolIndex), t.nextToolIndex + 1,
                                      t.reason, t.usage, t.done)
<1> DEFINE grown == Extended(t.toolIndex, i, t.nextToolIndex)
           next == t.nextToolIndex + 1
           u == [t EXCEPT !.toolIndex = grown, !.nextToolIndex = next]
           v == [role |-> t.role, toolIndex |-> grown, nextToolIndex |-> next, reason |-> t.reason,
                 usage |-> t.usage, done |-> t.done]
<1>1. grown = [j \in DOMAIN t.toolIndex \cup {i} |-> IF j = i THEN t.nextToolIndex ELSE t.toolIndex[j]]
  BY DEF Extended
<1> HIDE DEF grown, next
<1>2. ToolStarted(t, i) = u
  BY <1>1 DEF ToolStarted, next
<1>3. DOMAIN t = {"role", "toolIndex", "nextToolIndex", "reason", "usage", "done"}
  BY DEF Tracked, Tracking
<1>4. u = [f \in DOMAIN t |-> IF f = "toolIndex" THEN grown ELSE IF f = "nextToolIndex" THEN next ELSE t[f]]
  BY <1>3
<1>5. /\ v["role"] = t["role"] /\ v["reason"] = t["reason"] /\ v["usage"] = t["usage"] /\ v["done"] = t["done"]
      /\ v["toolIndex"] = grown /\ v["nextToolIndex"] = next
  OBVIOUS
<1>6. DOMAIN v = {"role", "toolIndex", "nextToolIndex", "reason", "usage", "done"}
      /\ v = [f \in DOMAIN v |-> v[f]]
  OBVIOUS
<1> HIDE DEF u
<1>7. DOMAIN u = DOMAIN t /\ u = [f \in DOMAIN u |-> u[f]] /\ \A f \in DOMAIN t : u[f] = v[f]
  <2> HIDE DEF v
  <2> QED
    BY <1>3, <1>4, <1>5
<1>8. u = v
  <2> HIDE DEF v
  <2> QED
    BY <1>3, <1>6, <1>7
<1> QED
  BY <1>2, <1>8 DEF grown, next, Tracking

LEMMA CallsTyped ==
  ASSUME NEW blocks \in Seq(AnswerBlock)
  PROVE  /\ ToolCalls(blocks) \in Seq(AnswerBlock) /\ Len(ToolCalls(blocks)) \in Nat
         /\ Len(ToolCalls(blocks)) <= Len(blocks)
BY OfTypeTyped DEF ToolCalls

LEMMA CallsOfAppend ==
  ASSUME NEW blocks \in Seq(AnswerBlock), NEW b \in AnswerBlock
  PROVE  /\ b.type = "call" => ToolCalls(Append(blocks, b)) = Append(ToolCalls(blocks), b)
         /\ b.type # "call" => ToolCalls(Append(blocks, b)) = ToolCalls(blocks)
BY OfTypeOfAppend DEF ToolCalls

LEMMA HeardCall ==
  ASSUME NEW g, Held(g), NEW i, i \notin DOMAIN g.calls, NEW id, NEW name, NEW args
  PROVE  Accumulate(g, ToolChunk(i, id, name, args)) =
           Holding(g.role, g.text, Extended(g.calls, i, Call(id, name, args)), g.finish, g.done)
<1>1. Gathered(g.calls, ToolChunk(i, id, name, args)) = Extended(g.calls, i, Call(id, name, args))
  BY GatheredCall
<1>2. Accumulate(g, ToolChunk(i, id, name, args)) =
        Holding(g.role, g.text, Gathered(g.calls, ToolChunk(i, id, name, args)), g.finish, g.done)
  BY HeardTool
<1> QED
  BY <1>1, <1>2

(* A call more, announced under the number of those before it. *)
LEMMA CallKeeps ==
  ASSUME DialogueInv, NEW b \in AnswerBlock, b.type = "call", Says(b), NEW id, NEW name, NEW args,
         asked.stream => ToldCall(asked.dialect, Append(ToolCalls(answer.blocks), b),
                                  Len(ToolCalls(answer.blocks)) + 1) = Call(id, name, args),
         Tell(ToolStarted(tr, ThisIndex), <<ToolChunk(tr.nextToolIndex, id, name, args)>>)
  PROVE  DialogueInv'
<1> DEFINE blocks == answer.blocks
           more == Append(blocks, b)
           calls == ToolCalls(blocks)
           n == Len(calls)
           last == Len(blocks)
<1>1. /\ ControlInv' /\ AnswerInv'
      /\ phase = "answering" /\ phase' = "answering" /\ UNCHANGED <<asked, turn>>
      /\ answer'.blocks = more /\ blocks \in Seq(AnswerBlock)
      /\ answer'.reason = "" /\ answer.reason = ""
  BY SaysKeeps
<1>2. CASE ~asked.stream
  <2>1. UNCHANGED <<tr, got>>
    BY <1>2 DEF Tell
  <2>2. ToldInv'
    BY <1>1, <1>2, <2>1, Unstreamed DEF DialogueInv
  <2> QED
    BY <1>1, <2>2 DEF DialogueInv
<1>3. CASE asked.stream
  <2>1. /\ StreamMatches /\ Tracked(tr) /\ Held(got)
        /\ got.role = TRUE /\ got.finish = "" /\ got.done = FALSE /\ tr.done = FALSE
    BY <1>1, <1>3, BooksBefore
  <2>2. /\ tr' = ToolStarted(tr, last)
        /\ got' = Received(<<ToolChunk(n, id, name, args)>>)
    BY <1>3, <2>1 DEF Tell, ThisIndex, StreamMatches
  <2> HIDE DEF blocks, more
  <2>3. calls \in Seq(AnswerBlock) /\ n \in Nat /\ last \in Nat
    <3>1. last \in Nat
      BY BlocksTyped DEF blocks
    <3> QED
      BY <1>1, <3>1, CallsTyped
  <2>4. Texts(more) = Texts(blocks) /\ ToolCalls(more) = Append(calls, b)
    <3>1. \A x \in AnswerBlock : x.text \in Words
      BY DEF AnswerBlock
    <3>2. b.type # "text"
      OBVIOUS
    <3>3. Texts(Append(blocks, b)) = Texts(blocks)
      BY <1>1, <3>1, <3>2, TextsOfAppend
    <3>4. ToolCalls(Append(blocks, b)) = Append(ToolCalls(blocks), b)
      BY <1>1, CallsOfAppend
    <3> QED
      BY <3>3, <3>4 DEF more
  <2>5. /\ Len(more) = last + 1 /\ more[last + 1] = b /\ Len(Append(calls, b)) = n + 1
    <3> HIDE DEF calls
    <3>1. Len(Append(blocks, b)) = last + 1 /\ Append(blocks, b)[last + 1] = b
      BY <1>1, LastOfAppend
    <3>2. Len(Append(calls, b)) = n + 1
      BY <2>3, LastOfAppend
    <3> QED
      BY <3>1, <3>2 DEF more
  <2> DEFINE told == ToldCalls(asked.dialect, calls)
  <2>6. /\ DOMAIN told = 0..(n - 1)
        /\ ToldCalls(asked.dialect, Append(calls, b)) = Extended(told, n, Call(id, name, args))
    <3>1. ToldCall(asked.dialect, Append(calls, b), n + 1) = Call(id, name, args)
      BY <1>3 DEF blocks
    <3> HIDE DEF calls
    <3>2. DOMAIN told = 0..(n - 1)
      BY <2>3, ToldOneMore
    <3>3. ToldCalls(asked.dialect, Append(calls, b)) =
            Extended(told, n, ToldCall(asked.dialect, Append(calls, b), n + 1))
      BY <2>3, ToldOneMore
    <3> QED
      BY <3>1, <3>2, <3>3
  <2>7. /\ got.calls = told /\ got.text = Texts(blocks) /\ tr.nextToolIndex = n /\ tr.reason = ""
        /\ DOMAIN tr.toolIndex \subseteq 0..(last - 1)
        /\ asked.dialect = "anthropic" =>
              tr.usage = [fresh |-> 2, cacheRead |-> 1, cacheWrite |-> 1, in |-> 4, out |-> 1]
    BY <1>1, <2>1 DEF StreamMatches, blocks
  <2> HIDE DEF told, calls, n, last
  <2>8. n \notin DOMAIN got.calls
    <3>1. n \notin 0..(n - 1)
      BY <2>3
    <3> QED
      BY <2>6, <2>7, <3>1
  <2>9. got' = Holding(got.role, got.text, Extended(told, n, Call(id, name, args)), got.finish, got.done)
    <3> DEFINE chunk == ToolChunk(n, id, name, args)
    <3>1. Accumulate(got, chunk) = Holding(got.role, got.text, Extended(got.calls, n, Call(id, name, args)), got.finish, got.done)
      <4>1. Held(got)
        BY <2>1
      <4> QED
        BY <2>8, <4>1, HeardCall
    <3> HIDE DEF chunk
    <3>3. got' = Accumulate(got, chunk)
      BY <2>2, ReceivedOne DEF chunk
    <3> QED
      BY <2>7, <3>1, <3>3
  <2>10. /\ got'.role = TRUE /\ got'.text = Texts(more) /\ got'.finish = "" /\ got'.done = FALSE /\ Held(got)'
         /\ got'.calls = Extended(told, n, Call(id, name, args))
    BY <2>1, <2>4, <2>7, <2>9 DEF Holding, Held
  <2>11. tr' = Tracking(tr.role, Extended(tr.toolIndex, last, n), n + 1, "", tr.usage, FALSE)
    BY <2>1, <2>2, <2>7, Started
  <2>12. /\ tr'.toolIndex = Extended(tr.toolIndex, last, n) /\ tr'.nextToolIndex = n + 1
         /\ tr'.reason = "" /\ tr'.usage = tr.usage /\ tr'.done = FALSE /\ Tracked(tr)'
    BY <2>11 DEF Tracking, Tracked
  <2>13. DOMAIN tr'.toolIndex \subseteq 0..last /\ last \in DOMAIN tr'.toolIndex /\ tr'.toolIndex[last] = n
    <3>1. DOMAIN tr'.toolIndex = DOMAIN tr.toolIndex \cup {last} /\ tr'.toolIndex[last] = n
      BY <2>12 DEF Extended
    <3>2. 0..(last - 1) \subseteq 0..last /\ last \in 0..last
      BY <2>3
    <3> QED
      BY <2>7, <3>1, <3>2
  <2>14. StreamMatches'
    <3>1. answer'.blocks = more /\ answer'.reason = "" /\ asked' = asked
      BY <1>1
    <3>2. (last + 1) - 1 = last /\ (n + 1) - 1 = n
      BY <2>3
    <3>3. Len(ToolCalls(more)) = n + 1
      BY <2>4, <2>5
    <3>4. ToldCalls(asked'.dialect, ToolCalls(answer'.blocks)) = got'.calls
      BY <2>4, <2>6, <2>10, <3>1
    <3> QED
      BY <2>5, <2>7, <2>10, <2>12, <2>13, <3>1, <3>2, <3>3, <3>4 DEF StreamMatches
  <2>15. ToldInv'
    BY <1>1, <1>3, <2>10, <2>12, <2>14, Streamed
  <2> QED
    BY <1>1, <2>15 DEF DialogueInv
<1>4. asked.stream \in BOOLEAN
  BY DEF DialogueInv, ControlInv
<1> QED
  BY <1>2, <1>3, <1>4

LEMMA ToolBlockStartKeeps ==
  ASSUME DialogueInv, NEW name \in ToolNames \cup {JSONTool}, ToolBlockStart(name)
  PROVE  DialogueInv'
<1> DEFINE id == <<"toolu", turn, ThisIndex>>
           b == Block("call", <<>>, id, name, <<>>)
           calls == ToolCalls(answer.blocks)
<1>1. Says(b) /\ asked.dialect = "anthropic"
      /\ Tell(ToolStarted(tr, ThisIndex), <<ToolChunk(tr.nextToolIndex, id, name, <<>>)>>)
  BY DEF ToolBlockStart, Asking
<1>2. id \in Ids
  <2>1. Len(answer.blocks) \in Nat
    BY BlocksTyped
  <2>2. turn \in Nat
    BY DialogueAssumption DEF DialogueInv, ControlInv
  <2> QED
    BY <2>1, <2>2 DEF Ids, ThisIndex
<1> HIDE DEF id
<1>3. b \in AnswerBlock /\ b.type = "call" /\ b.id = id /\ b.name = name /\ b.input = <<>>
  <2>1. <<>> \in Words
    BY DEF Words
  <2> QED
    BY <1>2, <2>1 DEF Block, AnswerBlock, Names
<1> HIDE DEF b
<1>4. Append(calls, b)[Len(calls) + 1] = b
  <2>1. calls \in Seq(AnswerBlock)
    BY BlocksTyped, CallsTyped
  <2> HIDE DEF calls
  <2> QED
    BY <1>3, <2>1, LastOfAppend
<1>5. ToldCall(asked.dialect, Append(calls, b), Len(calls) + 1) = Call(id, name, <<>>)
  <2> DEFINE r == Append(calls, b)
             n == Len(calls) + 1
  <2> HIDE DEF r, n
  <2>1. r[n] = b
    BY <1>4 DEF r, n
  <2>2. ToldCall(asked.dialect, r, n) = Call(id, name, <<>>)
    BY <1>1, <1>3, <2>1 DEF ToldCall
  <2> QED
    BY <2>2 DEF r, n
<1> QED
  BY <1>1, <1>3, <1>5, CallKeeps

LEMMA FunctionCallKeeps ==
  ASSUME DialogueInv, NEW name \in ToolNames, NEW args \in {<<>>, <<1, 2>>}, FunctionCall(name, args)
  PROVE  DialogueInv'
<1> DEFINE b == Block("call", <<>>, NoID, name, args)
           calls == ToolCalls(answer.blocks)
           id == geminiCallID(tr.nextToolIndex, name)
<1>1. Says(b) /\ asked.dialect = "gemini" /\ phase = "answering"
      /\ Tell(ToolStarted(tr, ThisIndex), <<ToolChunk(tr.nextToolIndex, id, name, toolArguments(args))>>)
  BY DEF FunctionCall, Asking
<1>2. b \in AnswerBlock /\ b.type = "call" /\ b.name = name /\ b.input = args
  <2>1. <<>> \in Words /\ args \in Words
    <3>1. <<1, 2>> \in Words /\ <<>> \in Words
      BY DEF Words
    <3> QED
      BY <3>1
  <2> QED
    BY <2>1 DEF Block, AnswerBlock, Names, Ids
<1> HIDE DEF b
<1>3. calls \in Seq(AnswerBlock) /\ Len(calls) \in Nat
  BY BlocksTyped, CallsTyped
<1>4. asked.stream => tr.nextToolIndex = Len(calls)
  BY <1>1, BooksBefore DEF StreamMatches
<1> HIDE DEF calls
<1>5. Append(calls, b)[Len(calls) + 1] = b
  BY <1>2, <1>3, LastOfAppend
<1>6. asked.stream => ToldCall(asked.dialect, Append(calls, b), Len(calls) + 1) = Call(id, name, toolArguments(args))
  <2> DEFINE r == Append(calls, b)
             n == Len(calls) + 1
  <2>3. n - 1 = Len(calls)
    BY <1>3
  <2> HIDE DEF r, n
  <2>1. r[n] = b
    BY <1>5 DEF r, n
  <2>2. ToldCall(asked.dialect, r, n) = Call(geminiCallID(n - 1, name), name, toolArguments(args))
    BY <1>1, <1>2, <2>1 DEF ToldCall
  <2> QED
    BY <1>4, <2>2, <2>3 DEF r, n
<1> QED
  BY <1>1, <1>2, <1>6, CallKeeps DEF calls

(* A fragment more of the call that comes last. *)
LEMMA InputJSONDeltaAnswer ==
  ASSUME DialogueInv, InputJSONDelta
  PROVE  /\ phase = "answering" /\ phase' = "answering" /\ asked.dialect = "anthropic" /\ UNCHANGED <<asked, turn>>
         /\ answer.reason = ""
         /\ \E s \in Seq(AnswerBlock), b \in AnswerBlock, piece \in Words :
               /\ answer.blocks = Append(s, b) /\ b.type = "call"
               /\ answer' = [blocks |-> Append(s, [b EXCEPT !.input = @ \o piece]), reason |-> ""]
               /\ Tell(tr, IF Len(s) \in DOMAIN tr.toolIndex
                           THEN <<ToolChunk(tr.toolIndex[Len(s)], NoID, NoName, piece)>> ELSE <<>>)
<1> DEFINE blocks == answer.blocks
           piece == <<Len(Last(blocks).input) + 1>>
<1>1. /\ phase = "answering" /\ phase' = "answering" /\ asked.dialect = "anthropic" /\ UNCHANGED <<asked, turn>>
      /\ blocks # <<>> /\ Last(blocks).type = "call"
      /\ answer' = [answer EXCEPT !.blocks = [answer.blocks EXCEPT ![Len(answer.blocks)] =
                      [answer.blocks[Len(answer.blocks)] EXCEPT
                         !.input = answer.blocks[Len(answer.blocks)].input \o piece]]]
      /\ Tell(tr, IF Len(blocks) - 1 \in DOMAIN tr.toolIndex
                  THEN <<ToolChunk(tr.toolIndex[Len(blocks) - 1], NoID, NoName, piece)>> ELSE <<>>)
  BY DEF InputJSONDelta, Asking
<1>2. /\ blocks \in Seq(AnswerBlock) /\ answer.reason = ""
      /\ answer = [blocks |-> blocks, reason |-> ""]
  BY <1>1 DEF DialogueInv, AnswerInv
<1> HIDE DEF blocks, piece
<1>3. PICK s \in Seq(AnswerBlock), b \in AnswerBlock : blocks = Append(s, b)
  <2>1. blocks \in Seq(AnswerBlock) /\ blocks # <<>>
    BY <1>1, <1>2
  <2> QED
    BY ONLY <2>1, SequenceEmptyOrAppend
<1>4. /\ Len(s) \in Nat /\ Len(blocks) = Len(s) + 1 /\ blocks[Len(s) + 1] = b /\ Last(blocks) = b
  BY <1>3, LastOfAppend
<1>5. Len(blocks) - 1 = Len(s)
  BY <1>4
<1>6. piece \in Words
  <2>1. b.input \in Seq(Nat)
    BY DEF AnswerBlock, Words
  <2>2. Len(b.input) \in Nat
    BY <2>1
  <2> QED
    BY <1>4, <2>2 DEF piece, Words
<1> DEFINE longer == [b EXCEPT !.input = @ \o piece]
<1>7. longer \in AnswerBlock
  <2>1. b.input \o piece \in Words
    BY <1>6 DEF AnswerBlock, Words
  <2>2. longer = [b EXCEPT !.input = b.input \o piece]
    OBVIOUS
  <2> QED
    BY <2>1, <2>2 DEF AnswerBlock
<1>8. answer' = [answer EXCEPT !.blocks = [blocks EXCEPT ![Len(s) + 1] = longer]]
  BY <1>1, <1>4 DEF blocks
<1> HIDE DEF longer
<1>9. [blocks EXCEPT ![Len(s) + 1] = longer] = Append(s, longer)
  BY <1>3, <1>7, LastReplaced
<1>10. answer' = [blocks |-> Append(s, longer), reason |-> ""]
  BY <1>2, <1>8, <1>9
<1> QED
  BY <1>1, <1>2, <1>3, <1>4, <1>5, <1>6, <1>10 DEF longer, blocks

LEMMA InputJSONDeltaKeeps == ASSUME DialogueInv, InputJSONDelta PROVE DialogueInv'
<1>1. /\ phase = "answering" /\ phase' = "answering" /\ asked.dialect = "anthropic" /\ UNCHANGED <<asked, turn>>
      /\ answer.reason = ""
  BY InputJSONDeltaAnswer
<1>2. PICK s \in Seq(AnswerBlock), b \in AnswerBlock, piece \in Words :
         /\ answer.blocks = Append(s, b) /\ b.type = "call"
         /\ answer' = [blocks |-> Append(s, [b EXCEPT !.input = @ \o piece]), reason |-> ""]
         /\ Tell(tr, IF Len(s) \in DOMAIN tr.toolIndex
                     THEN <<ToolChunk(tr.toolIndex[Len(s)], NoID, NoName, piece)>> ELSE <<>>)
  BY InputJSONDeltaAnswer
<1> DEFINE longer == [b EXCEPT !.input = @ \o piece]
           calls == ToolCalls(s)
           n == Len(calls)
           last == Len(s)
<1>3. /\ longer \in AnswerBlock /\ longer.type = "call" /\ longer.text = b.text
      /\ answer'.blocks = Append(s, longer) /\ answer'.reason = ""
      /\ answer' = [blocks |-> answer'.blocks, reason |-> answer'.reason]
  <2>1. b.input \o piece \in Words
    BY DEF AnswerBlock, Words
  <2>2. longer = [b EXCEPT !.input = b.input \o piece]
    OBVIOUS
  <2>3. longer \in AnswerBlock /\ longer.type = "call" /\ longer.text = b.text
    BY <1>2, <2>1, <2>2 DEF AnswerBlock
  <2> HIDE DEF longer
  <2> QED
    BY <1>2, <2>3 DEF longer
<1>4. /\ calls \in Seq(AnswerBlock) /\ n \in Nat /\ last \in Nat
      /\ Len(Append(s, b)) = last + 1 /\ Append(s, b)[last + 1] = b
      /\ Append(s, b) \in Seq(AnswerBlock)
  <2>1. calls \in Seq(AnswerBlock) /\ n \in Nat
    BY CallsTyped
  <2> QED
    BY <2>1, LastOfAppend
<1> HIDE DEF longer
<1>5. /\ Len(Append(s, longer)) = last + 1 /\ Append(s, longer)[last + 1] = longer
      /\ Append(s, longer) \in Seq(AnswerBlock)
  <2>1. longer \in AnswerBlock
    BY <1>3
  <2> QED
    BY <2>1, LastOfAppend
<1>6. ControlInv'
  BY <1>1 DEF DialogueInv, ControlInv
<1>7. AnswerInv'
  <2>1. Len(answer.blocks) <= MaxBlocks
    BY DEF DialogueInv, AnswerInv
  <2> QED
    BY <1>1, <1>2, <1>3, <1>4, <1>5, <2>1 DEF AnswerInv
<1>8. CASE ~asked.stream
  <2>1. UNCHANGED <<tr, got>>
    BY <1>2, <1>8 DEF Tell
  <2>2. ToldInv'
    BY <1>1, <1>8, <2>1, Unstreamed DEF DialogueInv
  <2> QED
    BY <1>6, <1>7, <2>2 DEF DialogueInv
<1>9. CASE asked.stream
  <2>1. /\ StreamMatches /\ Tracked(tr) /\ Held(got)
        /\ got.role = TRUE /\ got.finish = "" /\ got.done = FALSE /\ tr.done = FALSE
    BY <1>1, <1>9, BooksBefore
  <2>2. /\ Texts(Append(s, b)) = Texts(s) /\ Texts(Append(s, longer)) = Texts(s)
        /\ ToolCalls(Append(s, b)) = Append(calls, b) /\ ToolCalls(Append(s, longer)) = Append(calls, longer)
    <3>1. \A x \in AnswerBlock : x.text \in Words
      BY DEF AnswerBlock
    <3>2. b.type # "text" /\ longer.type # "text"
      BY <1>2, <1>3
    <3>3. Texts(Append(s, b)) = Texts(s)
      BY <3>1, <3>2, TextsOfAppend
    <3>4. Texts(Append(s, longer)) = Texts(s)
      BY <1>3, <3>1, <3>2, TextsOfAppend
    <3>5. ToolCalls(Append(s, b)) = Append(calls, b)
      BY <1>2, CallsOfAppend
    <3>6. ToolCalls(Append(s, longer)) = Append(calls, longer)
      BY <1>3, CallsOfAppend
    <3> QED
      BY <3>3, <3>4, <3>5, <3>6
  <2>3. Len(Append(calls, b)) = n + 1 /\ Len(Append(calls, longer)) = n + 1
    BY <1>3, <1>4, LastOfAppend
  <2> DEFINE told == ToldCalls("anthropic", Append(calls, b))
  <2>4. /\ n \in DOMAIN told /\ told[n] = Call(b.id, b.name, b.input)
        /\ ToldCalls("anthropic", Append(calls, longer)) = WithPiece(told, n, piece)
    BY <1>4, ToldFragment DEF longer
  <2> HIDE DEF told, calls, n, last
  <2>5. /\ got.calls = told /\ got.text = Texts(s) /\ tr.nextToolIndex = n + 1 /\ tr.reason = ""
        /\ DOMAIN tr.toolIndex \subseteq 0..last
        /\ last \in DOMAIN tr.toolIndex /\ tr.toolIndex[last] = n
        /\ tr.usage = [fresh |-> 2, cacheRead |-> 1, cacheWrite |-> 1, in |-> 4, out |-> 1]
    <3>1. (last + 1) - 1 = last /\ (n + 1) - 1 = n /\ last + 1 # 0
      BY <1>4
    <3> QED
      BY <1>1, <1>2, <1>4, <2>1, <2>2, <2>3, <3>1 DEF StreamMatches, told
  <2>6. tr' = tr /\ got' = Received(<<ToolChunk(n, NoID, NoName, piece)>>)
    BY <1>2, <1>9, <2>5 DEF Tell, last
  <2>7. got' = Holding(got.role, got.text, WithPiece(told, n, piece), got.finish, got.done)
    <3> DEFINE chunk == ToolChunk(n, NoID, NoName, piece)
    <3>1. Held(got)
      BY <2>1
    <3>2. Accumulate(got, chunk) = Holding(got.role, got.text, Gathered(got.calls, chunk), got.finish, got.done)
      BY <3>1, HeardTool
    <3>3. told[n] = Call(told[n].id, told[n].name, told[n].args)
      BY <2>4 DEF Call
    <3>4. Gathered(told, chunk) = WithPiece(told, n, piece)
      BY <2>4, <3>3, GatheredFragment
    <3> HIDE DEF chunk
    <3>5. got' = Accumulate(got, chunk)
      BY <2>6, ReceivedOne DEF chunk
    <3> QED
      BY <2>5, <3>2, <3>4, <3>5
  <2>8. /\ got'.role = TRUE /\ got'.text = Texts(s) /\ got'.finish = "" /\ got'.done = FALSE /\ Held(got)'
        /\ got'.calls = WithPiece(told, n, piece)
    BY <2>1, <2>5, <2>7 DEF Holding, Held
  <2>9. StreamMatches'
    <3>1. answer'.blocks = Append(s, longer) /\ answer'.reason = "" /\ asked' = asked /\ asked'.dialect = "anthropic"
      BY <1>1, <1>3
    <3>2. (last + 1) - 1 = last /\ (n + 1) - 1 = n
      BY <1>4
    <3>3. Len(ToolCalls(Append(s, longer))) = n + 1 /\ Len(Append(s, longer)) = last + 1
      BY <1>5, <2>2, <2>3
    <3>4. ToldCalls("anthropic", ToolCalls(Append(s, longer))) = got'.calls /\ Texts(Append(s, longer)) = got'.text
      BY <2>2, <2>4, <2>8
    <3> QED
      BY <2>5, <2>6, <2>8, <3>1, <3>2, <3>3, <3>4 DEF StreamMatches
  <2>10. ToldInv'
    BY <1>1, <1>7, <1>9, <2>1, <2>6, <2>8, <2>9, Streamed
  <2> QED
    BY <1>6, <1>7, <2>10 DEF DialogueInv
<1>10. asked.stream \in BOOLEAN
  BY DEF DialogueInv, ControlInv
<1> QED
  BY <1>8, <1>9, <1>10

(* The end of an answer: its reason, the tokens, and the last chunks. *)
LEMMA UsageAtEnd ==
  ASSUME NEW repeats \in BOOLEAN
  PROVE  UsageAdd([fresh |-> 2, cacheRead |-> 1, cacheWrite |-> 1, in |-> 4, out |-> 1], EndUsage(repeats))
           = [fresh |-> 2, cacheRead |-> 1, cacheWrite |-> 1, in |-> 4, out |-> 3]
<1> DEFINE a == EndUsage(repeats)
<1>1. a.out = 3 /\ \/ a.fresh = 2 /\ a.cacheRead = 1 /\ a.cacheWrite = 1
                   \/ a.fresh = 0 /\ a.cacheRead = 0 /\ a.cacheWrite = 0
  BY DEF EndUsage, StartUsage
<1> HIDE DEF a
<1>2. UsageAdd([fresh |-> 2, cacheRead |-> 1, cacheWrite |-> 1, in |-> 4, out |-> 1], a)
        = [fresh |-> 2, cacheRead |-> 1, cacheWrite |-> 1, in |-> 4, out |-> 3]
  BY <1>1 DEF UsageAdd
<1> QED
  BY <1>2 DEF a

LEMMA ReasonAndUsage ==
  ASSUME NEW t, Tracked(t), NEW reason, NEW usage
  PROVE  [t EXCEPT !.reason = reason, !.usage = usage] =
           Tracking(t.role, t.toolIndex, t.nextToolIndex, reason, usage, t.done)
<1> DEFINE u == [t EXCEPT !.reason = reason, !.usage = usage]
           v == [role |-> t.role, toolIndex |-> t.toolIndex, nextToolIndex |-> t.nextToolIndex,
                 reason |-> reason, usage |-> usage, done |-> t.done]
<1>1. DOMAIN t = {"role", "toolIndex", "nextToolIndex", "reason", "usage", "done"}
  BY DEF Tracked, Tracking
<1>2. u = [f \in DOMAIN t |-> IF f = "reason" THEN reason ELSE IF f = "usage" THEN usage ELSE t[f]]
  BY <1>1
<1>3. /\ v["role"] = t["role"] /\ v["toolIndex"] = t["toolIndex"] /\ v["nextToolIndex"] = t["nextToolIndex"]
      /\ v["done"] = t["done"] /\ v["reason"] = reason /\ v["usage"] = usage
  OBVIOUS
<1>4. DOMAIN v = {"role", "toolIndex", "nextToolIndex", "reason", "usage", "done"}
      /\ v = [f \in DOMAIN v |-> v[f]]
  OBVIOUS
<1> HIDE DEF u
<1>5. DOMAIN u = DOMAIN t /\ u = [f \in DOMAIN u |-> u[f]] /\ \A f \in DOMAIN t : u[f] = v[f]
  <2> HIDE DEF v
  <2> QED
    BY <1>1, <1>2, <1>3
<1>6. u = v
  <2> HIDE DEF v
  <2> QED
    BY <1>1, <1>4, <1>5
<1> QED
  BY <1>6 DEF u, Tracking

LEMMA MessageDeltaKeeps ==
  ASSUME DialogueInv, NEW reason \in {"end_turn", "tool_use", "max_tokens", "STOP", "MAX_TOKENS"},
         NEW repeats \in BOOLEAN, MessageDelta(reason, repeats)
  PROVE  DialogueInv'
<1>1. phase = "answering" /\ phase' = "stopping" /\ UNCHANGED <<asked, turn>>
  BY DEF MessageDelta
<1>2. answer.reason = "" /\ answer.blocks \in Seq(AnswerBlock) /\ Len(answer.blocks) <= MaxBlocks
  BY <1>1 DEF DialogueInv, AnswerInv
<1>3. answer' = [blocks |-> answer.blocks, reason |-> reason]
  <2>1. answer = [blocks |-> answer.blocks, reason |-> answer.reason]
    BY DEF DialogueInv, AnswerInv
  <2>2. answer' = [answer EXCEPT !.reason = reason]
    BY DEF MessageDelta
  <2> QED
    BY <2>1, <2>2
<1>4. asked \in [dialect : Dialects, stream : BOOLEAN, opts : Options]
  BY DEF DialogueInv, ControlInv
<1>5. reason \in Reasons(asked.dialect) /\ reason # ""
  BY <1>4 DEF MessageDelta, ReasonFits, Asking, Reasons, Dialects
<1>6. ControlInv'
  BY <1>1 DEF DialogueInv, ControlInv, Phases
<1>7. AnswerInv'
  <2>1. answer'.blocks = answer.blocks /\ answer'.reason = reason
        /\ answer' = [blocks |-> answer'.blocks, reason |-> answer'.reason]
    BY <1>3
  <2> QED
    BY <1>1, <1>2, <1>5, <2>1 DEF AnswerInv
<1>8. CASE ~asked.stream
  <2>1. UNCHANGED <<tr, got>>
    BY <1>8 DEF MessageDelta, Tell
  <2>2. ToldInv'
    BY <1>1, <1>8, <2>1, Unstreamed DEF DialogueInv
  <2> QED
    BY <1>6, <1>7, <2>2 DEF DialogueInv
<1>9. CASE asked.stream
  <2> DEFINE used == IF asked.dialect = "anthropic" THEN UsageAdd(tr.usage, EndUsage(repeats)) ELSE tr.usage
  <2>1. /\ StreamMatches /\ Tracked(tr) /\ Held(got)
        /\ got.role = TRUE /\ got.finish = "" /\ got.done = FALSE /\ tr.done = FALSE
    BY <1>1, <1>9, BooksBefore
  <2>2. got' = got
    BY <1>9, ReceivedNone DEF MessageDelta, Tell
  <2>3. tr' = [tr EXCEPT !.reason = reason, !.usage = used]
    BY <1>9 DEF MessageDelta, Tell, Asking
  <2>4. asked.dialect = "anthropic" =>
          used = [fresh |-> 2, cacheRead |-> 1, cacheWrite |-> 1, in |-> 4, out |-> 3]
    <3>1. SUFFICES ASSUME asked.dialect = "anthropic"
                   PROVE  used = [fresh |-> 2, cacheRead |-> 1, cacheWrite |-> 1, in |-> 4, out |-> 3]
      OBVIOUS
    <3>2. tr.usage = [fresh |-> 2, cacheRead |-> 1, cacheWrite |-> 1, in |-> 4, out |-> 1]
      BY <1>2, <2>1, <3>1 DEF StreamMatches
    <3> QED
      BY <3>1, <3>2, UsageAtEnd
  <2> HIDE DEF used
  <2>5. tr' = Tracking(tr.role, tr.toolIndex, tr.nextToolIndex, reason, used, tr.done)
    <3>1. Tracked(tr)
      BY <2>1
    <3> QED
      BY <2>3, <3>1, ReasonAndUsage
  <2>6. /\ tr'.toolIndex = tr.toolIndex /\ tr'.nextToolIndex = tr.nextToolIndex
        /\ tr'.reason = reason /\ tr'.usage = used /\ tr'.done = FALSE /\ Tracked(tr)'
    BY <2>1, <2>5 DEF Tracking, Tracked
  <2>7. StreamMatches'
    <3>1. answer'.blocks = answer.blocks /\ answer'.reason = reason /\ asked' = asked
      BY <1>1, <1>3
    <3> QED
      BY <1>5, <2>1, <2>2, <2>4, <2>6, <3>1 DEF StreamMatches
  <2>8. ToldInv'
    <3>1. Held(got)'
      BY <2>1, <2>2 DEF Held, Holding
    <3> QED
      BY <1>1, <1>7, <1>9, <2>1, <2>2, <2>6, <2>7, <3>1, Streamed
  <2> QED
    BY <1>6, <1>7, <2>8 DEF DialogueInv
<1>10. asked.stream \in BOOLEAN
  BY <1>4
<1> QED
  BY <1>8, <1>9, <1>10

(* An answer that ends has a reason to tell. *)
LEMMA SomeFinish == ASSUME NEW d, NEW t PROVE FinishChunks(d, t)[1].finish # ""
<1> DEFINE fr == IF d = "anthropic" THEN finishReason(t.reason) ELSE geminiFinish(t.reason)
           told == IF fr = "" THEN "stop" ELSE fr
           last == IF d = "gemini" /\ t.nextToolIndex > 0 /\ told = "stop" THEN "tool_calls" ELSE told
<1>1. told # ""
  <2> HIDE DEF fr
  <2> QED
    OBVIOUS
<1>2. FinishChunks(d, t) = <<FinishChunk(last), DoneChunk>>
  BY DEF FinishChunks
<1> HIDE DEF told
<1>3. last # ""
  BY <1>1
<1> HIDE DEF last
<1>4. FinishChunks(d, t)[1] = FinishChunk(last)
  BY <1>2
<1>5. FinishChunk(last).finish = last
  BY DEF FinishChunk
<1> QED
  BY <1>3, <1>4, <1>5

LEMMA EndOfStreamKeeps == ASSUME DialogueInv, EndOfStream PROVE DialogueInv'
<1> DEFINE finish == FinishTold
<1>1. /\ phase \in {"answering", "stopping"} /\ phase' = "answered" /\ UNCHANGED <<asked, turn, answer>>
      /\ asked.stream = TRUE
  <2>1. asked.stream \in BOOLEAN
    BY DEF DialogueInv, ControlInv
  <2> QED
    BY <2>1 DEF EndOfStream
<1>2. ControlInv'
  BY <1>1 DEF DialogueInv, ControlInv, Phases
<1>3. AnswerInv'
  BY <1>1 DEF DialogueInv, AnswerInv
<1>4. /\ StreamMatches /\ Tracked(tr) /\ Held(got)
      /\ got.role = TRUE /\ got.finish = "" /\ got.done = FALSE /\ tr.done = FALSE
  BY <1>1, BooksBefore
<1>5. FinishChunks(asked.dialect, tr) = <<FinishChunk(finish), DoneChunk>>
  <2>1. \E f : FinishChunks(asked.dialect, tr) = <<FinishChunk(f), DoneChunk>>
    BY DEF FinishChunks
  <2>2. PICK f : FinishChunks(asked.dialect, tr) = <<FinishChunk(f), DoneChunk>>
    BY <2>1
  <2>3. FinishChunks(asked.dialect, tr)[1].finish = f
    BY <2>2 DEF FinishChunk
  <2> QED
    BY <2>2, <2>3 DEF FinishTold
<1>6. finish # ""
  BY SomeFinish DEF FinishTold
<1> HIDE DEF finish
<1>7. got' = Holding(got.role, got.text, got.calls, finish, TRUE)
  <2>1. got' = Accumulate(Accumulate(got, FinishChunk(finish)), DoneChunk)
    BY <1>1, <1>5, ReceivedTwo DEF EndOfStream, Tell
  <2>2. Held(got)
    BY <1>4
  <2> DEFINE g == Accumulate(got, FinishChunk(finish))
  <2>3. g = Holding(got.role, got.text, got.calls, finish, got.done)
    BY <2>2, HeardFinish
  <2> HIDE DEF g
  <2>4. /\ Held(g) /\ g.role = got.role /\ g.text = got.text /\ g.calls = got.calls /\ g.finish = finish
    BY <2>3 DEF Held, Holding
  <2>5. Accumulate(g, DoneChunk) = Holding(g.role, g.text, g.calls, g.finish, TRUE)
    BY <2>4, HeardDone
  <2> QED
    BY <2>1, <2>4, <2>5 DEF g
<1>8. /\ got'.role = TRUE /\ got'.text = got.text /\ got'.calls = got.calls /\ got'.finish = finish
      /\ got'.done = TRUE /\ Held(got)'
  BY <1>4, <1>7 DEF Holding, Held
<1>9. tr' = [tr EXCEPT !.done = TRUE]
  BY <1>1 DEF EndOfStream, Tell
<1>10. /\ tr'.toolIndex = tr.toolIndex /\ tr'.nextToolIndex = tr.nextToolIndex
       /\ tr'.reason = tr.reason /\ tr'.usage = tr.usage /\ Tracked(tr)'
  BY <1>4, <1>9 DEF Tracked, Tracking
<1>11. StreamMatches'
  BY <1>1, <1>4, <1>8, <1>10 DEF StreamMatches
<1>12. FinishTold' = finish
  BY <1>1, <1>10 DEF FinishTold, FinishChunks, finish
<1>13. DOMAIN tr.toolIndex \subseteq 0..(MaxBlocks - 1) /\ DOMAIN got.calls \subseteq 0..(MaxBlocks - 1)
  BY DEF DialogueInv, ToldInv
<1>14. ToldInv'
  BY <1>1, <1>6, <1>8, <1>10, <1>11, <1>12, <1>13 DEF ToldInv
<1> QED
  BY <1>2, <1>3, <1>14 DEF DialogueInv

LEMMA ReadErrorKeeps == ASSUME DialogueInv, ReadError PROVE DialogueInv'
<1>1. phase' = "broken" /\ UNCHANGED <<asked, turn, answer, tr, got>>
  BY DEF ReadError
<1>2. ControlInv' /\ AnswerInv' /\ ToldInv'
  <2>1. ControlInv'
    BY <1>1 DEF DialogueInv, ControlInv, Phases
  <2>2. AnswerInv'
    BY <1>1 DEF DialogueInv, AnswerInv
  <2>3. ToldInv'
    BY <1>1 DEF DialogueInv, ToldInv
  <2> QED
    BY <2>1, <2>2, <2>3
<1> QED
  BY <1>2 DEF DialogueInv

(* A whole answer, as the client gets it. *)
LEMMA WholeAnthropic ==
  ASSUME NEW blocks \in Seq(AnswerBlock), NEW reason \in Reasons("anthropic")
  PROVE  LET w == AnthropicToOpenAI(blocks, reason) IN
         w.finish # "" /\ Len(w.calls) \in Nat /\ Len(w.calls) <= Len(blocks)
<1> DEFINE all == ToolCalls(blocks)
           synthetic == Kept(all, {i \in DOMAIN all : all[i].name = JSONTool})
           real == Kept(all, {i \in DOMAIN all : all[i].name # JSONTool})
           calls == [i \in DOMAIN real |-> Call(real[i].id, real[i].name, toolArguments(real[i].input))]
           w == AnthropicToOpenAI(blocks, reason)
<1>1. w = IF synthetic # <<>>
          THEN Message(toolArguments(Last(synthetic).input), calls, "stop")
          ELSE Message(Texts(blocks), calls, finishReason(reason))
  BY DEF AnthropicToOpenAI
<1>2. finishReason(reason) # ""
  BY DEF finishReason, Reasons
<1>3. all \in Seq(AnswerBlock) /\ Len(all) <= Len(blocks) /\ Len(all) \in Nat
  BY CallsTyped
<1> HIDE DEF all
<1>4. real \in Seq(AnswerBlock) /\ Len(real) <= Len(all)
  <2>1. \A i \in 1..Len(all) : all[i] \in AnswerBlock
    BY <1>3
  <2> QED
    BY <1>3, <2>1, KeptTyped
<1> HIDE DEF synthetic, real
<1>5. Len(real) \in Nat /\ DOMAIN real = 1..Len(real)
  BY <1>4
<1>6. Len(calls) = Len(real)
  BY <1>5
<1> HIDE DEF calls, w
<1>7. w.calls = calls /\ w.finish # ""
  BY <1>1, <1>2 DEF Message
<1>8. Len(w.calls) \in Nat /\ Len(w.calls) <= Len(blocks)
  <2>1. Len(blocks) \in Nat
    OBVIOUS
  <2> QED
    <3>1. Len(w.calls) = Len(real)
      BY <1>6, <1>7
    <3>2. Len(real) <= Len(all) /\ Len(all) <= Len(blocks) /\ Len(all) \in Nat /\ Len(real) \in Nat
      BY <1>3, <1>4, <1>5
    <3> HIDE DEF all
    <3> QED
      BY <2>1, <3>1, <3>2
<1> QED
  BY <1>7, <1>8 DEF w

LEMMA WholeGemini ==
  ASSUME NEW blocks \in Seq(AnswerBlock), NEW reason \in Reasons("gemini")
  PROVE  LET w == GeminiToOpenAI(blocks, reason) IN
         w.finish # "" /\ Len(w.calls) \in Nat /\ Len(w.calls) <= Len(blocks)
<1> DEFINE fcs == ToolCalls(blocks)
           calls == [i \in DOMAIN fcs |-> Call(geminiCallID(i - 1, fcs[i].name), fcs[i].name,
                                               toolArguments(fcs[i].input))]
           finish == geminiFinish(reason)
           w == GeminiToOpenAI(blocks, reason)
<1>1. w = Message(Texts(blocks), calls, IF calls # <<>> /\ finish \in {"stop", ""} THEN "tool_calls" ELSE finish)
  BY DEF GeminiToOpenAI
<1>2. finish # ""
  BY DEF geminiFinish, Reasons
<1>3. fcs \in Seq(AnswerBlock) /\ Len(fcs) <= Len(blocks) /\ Len(fcs) \in Nat
  BY CallsTyped
<1> HIDE DEF fcs, finish
<1>4. DOMAIN fcs = 1..Len(fcs)
  BY <1>3
<1>5. Len(calls) = Len(fcs)
  BY <1>3, <1>4
<1> HIDE DEF calls, w
<1>6. w.calls = calls /\ w.finish # ""
  BY <1>1, <1>2 DEF Message
<1> QED
  BY <1>3, <1>5, <1>6 DEF w

LEMMA WholeAnswerKeeps == ASSUME DialogueInv, WholeAnswer PROVE DialogueInv'
<1>1. /\ phase = "stopping" /\ phase' = "answered" /\ UNCHANGED <<asked, turn, answer, tr>>
      /\ asked.stream = FALSE
      /\ got' = [role |-> TRUE, text |-> Whole.text, calls |-> ZeroBased(Whole.calls),
                 finish |-> Whole.finish, done |-> TRUE]
  <2>1. asked.stream \in BOOLEAN
    BY DEF DialogueInv, ControlInv
  <2> QED
    BY <2>1 DEF WholeAnswer
<1>2. ControlInv'
  BY <1>1 DEF DialogueInv, ControlInv, Phases
<1>3. AnswerInv'
  BY <1>1 DEF DialogueInv, AnswerInv
<1>4. answer.blocks \in Seq(AnswerBlock) /\ Len(answer.blocks) <= MaxBlocks /\ answer.reason \in Reasons(asked.dialect)
  BY <1>1 DEF DialogueInv, AnswerInv
<1>5. Whole.finish # "" /\ Len(Whole.calls) \in Nat /\ Len(Whole.calls) <= Len(answer.blocks)
  <2>1. CASE asked.dialect = "anthropic"
    BY <1>4, <2>1, WholeAnthropic DEF Whole, Asking
  <2>2. CASE asked.dialect = "gemini"
    BY <1>4, <2>2, WholeGemini DEF Whole, Asking
  <2>3. asked.dialect \in Dialects
    BY DEF DialogueInv, ControlInv
  <2> QED
    BY <2>1, <2>2, <2>3 DEF Dialects
<1>6. Whole' = Whole
  BY <1>1 DEF Whole, Asking
<1> DEFINE w == Whole
<1> HIDE DEF w
<1>7. /\ got'.role = TRUE /\ got'.text = w.text /\ got'.calls = ZeroBased(w.calls) /\ got'.finish = w.finish
      /\ got'.done = TRUE /\ Held(got)'
  BY <1>1 DEF Held, Holding, w
<1>8. DOMAIN got'.calls \subseteq 0..(MaxBlocks - 1)
  <2>1. DOMAIN got'.calls = 0..(Len(w.calls) - 1)
    BY <1>7 DEF ZeroBased
  <2>2. Len(answer.blocks) \in Nat
    BY <1>4
  <2>3. Len(w.calls) \in Nat /\ Len(w.calls) <= Len(answer.blocks)
    BY <1>5 DEF w
  <2> QED
    BY <1>4, <2>1, <2>2, <2>3, DialogueAssumption
<1>9. Tracked(tr)' /\ DOMAIN tr'.toolIndex \subseteq 0..(MaxBlocks - 1)
  BY <1>1 DEF DialogueInv, ToldInv, Tracked, Tracking
<1>10. got' = [role |-> TRUE, text |-> Whole'.text, calls |-> ZeroBased(Whole'.calls),
               finish |-> Whole'.finish, done |-> TRUE]
  BY <1>1, <1>6
<1>11. got'.finish # ""
  BY <1>5, <1>7 DEF w
<1>12. ToldInv'
  BY <1>1, <1>7, <1>8, <1>9, <1>10, <1>11 DEF ToldInv, ZeroBased
<1> QED
  BY <1>2, <1>3, <1>12 DEF DialogueInv

LEMMA PlainIsAnOption == Plain \in Options
BY DEF Options

(* No step of the conversation upsets the books. *)
LEMMA StepKeepsDialogue == DialogueInv /\ [DialogueNext]_dialogueVars => DialogueInv'
<1> SUFFICES ASSUME DialogueInv, [DialogueNext]_dialogueVars PROVE DialogueInv'
  OBVIOUS
<1>1. ASSUME NEW d \in Dialects, NEW stream \in BOOLEAN,
             NEW opts \in IF turn = 0 THEN Options ELSE {Plain}, Ask(d, stream, opts)
      PROVE  DialogueInv'
  <2>1. opts \in Options
    BY PlainIsAnOption
  <2> QED
    BY <1>1, <2>1, AskKeeps
<1>2. ASSUME NEW remark \in BOOLEAN, NEW trim \in BOOLEAN, Continue(remark, trim) PROVE DialogueInv'
  BY <1>2, ContinueKeeps
<1>3. CASE MessageStart
  BY <1>3, MessageStartKeeps
<1>4. CASE TextDelta
  BY <1>4, TextDeltaKeeps
<1>5. ASSUME NEW name \in ToolNames \cup {JSONTool}, ToolBlockStart(name) PROVE DialogueInv'
  BY <1>5, ToolBlockStartKeeps
<1>6. CASE InputJSONDelta
  BY <1>6, InputJSONDeltaKeeps
<1>7. ASSUME NEW name \in ToolNames, NEW args \in {<<>>, <<1, 2>>}, FunctionCall(name, args) PROVE DialogueInv'
  BY <1>7, FunctionCallKeeps
<1>8. ASSUME NEW reason \in {"end_turn", "tool_use", "max_tokens", "STOP", "MAX_TOKENS"}, NEW repeats \in BOOLEAN,
             MessageDelta(reason, repeats)
      PROVE  DialogueInv'
  BY <1>8, MessageDeltaKeeps
<1>9. CASE EndOfStream
  BY <1>9, EndOfStreamKeeps
<1>10. CASE ReadError
  BY <1>10, ReadErrorKeeps
<1>11. CASE WholeAnswer
  BY <1>11, WholeAnswerKeeps
<1>12. CASE UNCHANGED dialogueVars
  <2>1. UNCHANGED <<phase, turn, asked, answer, tr, got>>
    BY <1>12 DEF dialogueVars
  <2>2. ControlInv'
    BY <2>1 DEF DialogueInv, ControlInv
  <2>3. AnswerInv'
    BY <2>1 DEF DialogueInv, AnswerInv
  <2>4. StreamMatches' <=> StreamMatches
    BY <2>1 DEF StreamMatches
  <2>5. FinishTold' = FinishTold /\ Whole' = Whole
    BY <2>1 DEF FinishTold, FinishChunks, Whole, Asking
  <2>6. ToldInv'
    BY <2>1, <2>4, <2>5 DEF DialogueInv, ToldInv, Tracked, Held
  <2> QED
    BY <2>2, <2>3, <2>6 DEF DialogueInv
<1>13. CASE Finished
  BY <1>12, <1>13 DEF Finished
<1> QED
  BY <1>1, <1>2, <1>3, <1>4, <1>5, <1>6, <1>7, <1>8, <1>9, <1>10, <1>11, <1>12, <1>13 DEF DialogueNext

-----------------------------------------------------------------------------
(* What was streamed is the whole answer, call by call. *)
LEMMA CallsZeroBased ==
  ASSUME NEW d, NEW s \in Seq(AnswerBlock), NEW calls, DOMAIN calls = DOMAIN s, calls \in Seq(Range(calls)),
         \A i \in DOMAIN s : calls[i] = ToldCall(d, s, i)
  PROVE  ZeroBased(calls) = ToldCalls(d, s) /\ Len(calls) = Len(s)
<1>1. Len(s) \in Nat /\ DOMAIN s = 1..Len(s)
  OBVIOUS
<1>2. Len(calls) \in Nat /\ DOMAIN calls = 1..Len(calls)
  OBVIOUS
<1>3. Len(calls) = Len(s)
  <2> DEFINE m == Len(calls)
             n == Len(s)
  <2>1. 1..m = 1..n /\ m \in Nat /\ n \in Nat
    BY <1>1, <1>2
  <2> HIDE DEF m, n
  <2>2. m = n
    BY <2>1
  <2> QED
    BY <2>2 DEF m, n
<1> DEFINE n == Len(s)
<1>4. \A i \in 0..(n - 1) : calls[i + 1] = ToldCall(d, s, i + 1)
  <2>1. \A i \in 0..(n - 1) : i + 1 \in DOMAIN s
    BY <1>1
  <2> QED
    BY <2>1
<1> HIDE DEF n
<1>5. ZeroBased(calls) = [i \in 0..(n - 1) |-> calls[i + 1]]
  BY <1>3 DEF ZeroBased, n
<1>6. ToldCalls(d, s) = [i \in 0..(n - 1) |-> ToldCall(d, s, i + 1)]
  BY DEF ToldCalls, n
<1> QED
  BY <1>3, <1>4, <1>5, <1>6

LEMMA AnthropicWhole ==
  ASSUME NEW blocks \in Seq(AnswerBlock), NEW reason \in Reasons("anthropic"),
         \A i \in DOMAIN blocks : blocks[i].name # JSONTool /\ (blocks[i].type = "call" => blocks[i].input # <<>>)
  PROVE  LET w == AnthropicToOpenAI(blocks, reason) IN
         /\ w.text = Texts(blocks) /\ w.finish = finishReason(reason)
         /\ ZeroBased(w.calls) = ToldCalls("anthropic", ToolCalls(blocks))
<1> DEFINE all == ToolCalls(blocks)
           Js == {i \in DOMAIN all : all[i].name = JSONTool}
           Rs == {i \in DOMAIN all : all[i].name # JSONTool}
           synthetic == Kept(all, Js)
           real == Kept(all, Rs)
           calls == [i \in DOMAIN real |-> Call(real[i].id, real[i].name, toolArguments(real[i].input))]
           w == AnthropicToOpenAI(blocks, reason)
           S == {b \in AnswerBlock : b.name # JSONTool /\ (b.type = "call" => b.input # <<>>)}
           T == {b \in S : b.type = "call"}
<1>1. w = IF synthetic # <<>>
          THEN Message(toolArguments(Last(synthetic).input), calls, "stop")
          ELSE Message(Texts(blocks), calls, finishReason(reason))
  BY DEF AnthropicToOpenAI
<1>2. blocks \in Seq(S)
  OBVIOUS
<1> HIDE DEF w
<1>3. all \in Seq(T) /\ all \in Seq(AnswerBlock)
  <2>1. all \in Seq(AnswerBlock)
    BY CallsTyped
  <2> HIDE DEF S
  <2>2. OfType(blocks, "call") \in Seq({b \in S : b.type = "call"})
    BY <1>2, OfTypeTyped
  <2> QED
    BY <2>1, <2>2 DEF ToolCalls
<1>4. \A i \in DOMAIN all : all[i].name # JSONTool /\ all[i].input # <<>>
  <2> HIDE DEF all
  <2>1. \A i \in DOMAIN all : all[i] \in T
    BY <1>3
  <2> QED
    BY <2>1
<1> HIDE DEF S, T, all
<1>5. DOMAIN all = 1..Len(all)
  BY <1>3
<1>6. (\A i \in 1..Len(all) : i \notin Js) /\ (\A i \in 1..Len(all) : i \in Rs)
  BY <1>4, <1>5
<1> HIDE DEF Js, Rs
<1>7. synthetic = <<>>
  BY <1>3, <1>6, KeptNothing
<1>8. real = all
  BY <1>3, <1>6, KeptAll
<1> HIDE DEF synthetic, real
<1>9. calls = [i \in DOMAIN all |-> Call(all[i].id, all[i].name, toolArguments(all[i].input))]
  BY <1>8
<1> HIDE DEF calls
<1>10. w.text = Texts(blocks) /\ w.finish = finishReason(reason) /\ w.calls = calls
  BY <1>1, <1>7 DEF Message
<1>11. DOMAIN calls = DOMAIN all /\ \A i \in DOMAIN all : calls[i] = ToldCall("anthropic", all, i)
  BY <1>4, <1>9 DEF ToldCall, toolArguments
<1>12. calls \in Seq(Range(calls))
  <2>1. Len(all) \in Nat
    BY <1>3
  <2> QED
    BY <1>5, <1>11, <1>9, <2>1 DEF Range
<1>13. ZeroBased(calls) = ToldCalls("anthropic", all)
  BY <1>3, <1>11, <1>12, CallsZeroBased
<1> QED
  BY <1>10, <1>13 DEF w, all

LEMMA GeminiWhole ==
  ASSUME NEW blocks \in Seq(AnswerBlock), NEW reason \in Reasons("gemini")
  PROVE  LET w == GeminiToOpenAI(blocks, reason) IN
         /\ w.text = Texts(blocks)
         /\ w.finish = IF Len(ToolCalls(blocks)) > 0 /\ geminiFinish(reason) = "stop"
                       THEN "tool_calls" ELSE geminiFinish(reason)
         /\ ZeroBased(w.calls) = ToldCalls("gemini", ToolCalls(blocks))
<1> DEFINE all == ToolCalls(blocks)
           calls == [i \in DOMAIN all |-> Call(geminiCallID(i - 1, all[i].name), all[i].name,
                                               toolArguments(all[i].input))]
           finish == geminiFinish(reason)
           w == GeminiToOpenAI(blocks, reason)
<1>1. w = Message(Texts(blocks), calls, IF calls # <<>> /\ finish \in {"stop", ""} THEN "tool_calls" ELSE finish)
  BY DEF GeminiToOpenAI
<1>2. finish # ""
  BY DEF geminiFinish, Reasons
<1> HIDE DEF finish, w
<1>3. all \in Seq(AnswerBlock)
  BY CallsTyped
<1> HIDE DEF all
<1>4. DOMAIN calls = DOMAIN all /\ \A i \in DOMAIN all : calls[i] = ToldCall("gemini", all, i)
  BY DEF ToldCall
<1>5. calls \in Seq(Range(calls))
  <2>1. Len(all) \in Nat /\ DOMAIN all = 1..Len(all)
    BY <1>3
  <2> QED
    BY <1>4, <2>1 DEF Range
<1> HIDE DEF calls
<1>6. ZeroBased(calls) = ToldCalls("gemini", all) /\ Len(calls) = Len(all)
  BY <1>3, <1>4, <1>5, CallsZeroBased
<1>7. calls # <<>> <=> Len(all) > 0
  <2>1. Len(calls) \in Nat
    BY <1>5
  <2>2. calls # <<>> <=> Len(calls) # 0
    BY <1>5
  <2> QED
    BY <1>6, <2>1, <2>2
<1>8. w.text = Texts(blocks) /\ w.calls = calls
      /\ w.finish = IF calls # <<>> /\ finish \in {"stop", ""} THEN "tool_calls" ELSE finish
  BY <1>1 DEF Message
<1>9. w.finish = IF Len(all) > 0 /\ finish = "stop" THEN "tool_calls" ELSE finish
  BY <1>2, <1>7, <1>8
<1> QED
  BY <1>6, <1>8, <1>9 DEF w, all, finish

LEMMA EndTokens ==
  ASSUME NEW u, u = [fresh |-> 2, cacheRead |-> 1, cacheWrite |-> 1, in |-> 4, out |-> 3]
  PROVE  u.in = 4 /\ u.out = 3
OBVIOUS

LEMMA FirstOfTwo == ASSUME NEW a, NEW b, NEW s, s = <<a, b>> PROVE s[1] = a
OBVIOUS

LEMMA WholeTold == DialogueInv => StreamTellsTheWhole
<1> SUFFICES ASSUME DialogueInv, phase = "answered", asked.stream, answer.reason # "", ~CalledJSON,
                    Asking("anthropic") => ~Argumentless
             PROVE  /\ got.text = Whole.text
                    /\ got.calls = ZeroBased(Whole.calls)
                    /\ got.finish = Whole.finish
                    /\ got.role /\ got.done
                    /\ Asking("anthropic") => tr.usage.in = 4 /\ tr.usage.out = 3
  BY DEF StreamTellsTheWhole
<1> DEFINE blocks == answer.blocks
           calls == ToolCalls(blocks)
<1>1. /\ blocks \in Seq(AnswerBlock) /\ answer.reason \in Reasons(asked.dialect)
      /\ asked.dialect \in Dialects
  BY DEF DialogueInv, AnswerInv, ControlInv
<1>2. /\ got.role = TRUE /\ got.text = Texts(blocks) /\ got.calls = ToldCalls(asked.dialect, calls)
      /\ tr.nextToolIndex = Len(calls) /\ tr.reason = answer.reason
      /\ asked.dialect = "anthropic" => tr.usage.in = 4 /\ tr.usage.out = 3
      /\ got.done = TRUE /\ got.finish = FinishTold
  <2>1. StreamMatches /\ got.done = TRUE /\ got.finish = FinishTold
    BY DEF DialogueInv, ToldInv
  <2>2. asked.dialect = "anthropic" =>
          tr.usage = [fresh |-> 2, cacheRead |-> 1, cacheWrite |-> 1, in |-> 4, out |-> 3]
    BY <2>1 DEF StreamMatches
  <2>3. asked.dialect = "anthropic" => tr.usage.in = 4 /\ tr.usage.out = 3
    <3>1. SUFFICES ASSUME asked.dialect = "anthropic" PROVE tr.usage.in = 4 /\ tr.usage.out = 3
      OBVIOUS
    <3>2. tr.usage = [fresh |-> 2, cacheRead |-> 1, cacheWrite |-> 1, in |-> 4, out |-> 3]
      BY <2>2, <3>1
    <3> QED
      BY ONLY <3>2, EndTokens
  <2>4. /\ got.role = TRUE /\ got.text = Texts(blocks) /\ got.calls = ToldCalls(asked.dialect, calls)
        /\ tr.nextToolIndex = Len(calls) /\ tr.reason = answer.reason
    BY <2>1 DEF StreamMatches
  <2> QED
    BY <2>1, <2>3, <2>4
<1>3. CASE asked.dialect = "anthropic"
  <2>1. \A i \in DOMAIN blocks : blocks[i].name # JSONTool /\ (blocks[i].type = "call" => blocks[i].input # <<>>)
    BY <1>3 DEF CalledJSON, Argumentless, Asking
  <2>2. answer.reason \in Reasons("anthropic")
    BY <1>1, <1>3
  <2> DEFINE w == AnthropicToOpenAI(blocks, answer.reason)
             r == answer.reason
  <2> HIDE DEF blocks, w, calls, r
  <2>3. /\ w.text = Texts(blocks) /\ w.finish = finishReason(r)
        /\ ZeroBased(w.calls) = ToldCalls("anthropic", calls)
    BY <1>1, <2>1, <2>2, AnthropicWhole DEF w, calls, r
  <2>4. Whole = w
    BY <1>3 DEF Whole, Asking, w, blocks
  <2>5. FinishTold = finishReason(r)
    <3>1. finishReason(r) # ""
      BY <2>2 DEF r, finishReason, Reasons
    <3>2. FinishChunks(asked.dialect, tr) = <<FinishChunk(finishReason(r)), DoneChunk>>
      BY <1>2, <1>3, <3>1 DEF FinishChunks, r
    <3>3. FinishChunks(asked.dialect, tr)[1] = FinishChunk(finishReason(r))
      BY <3>2, FirstOfTwo
    <3>4. FinishChunk(finishReason(r)).finish = finishReason(r)
      BY DEF FinishChunk
    <3> QED
      BY <3>3, <3>4 DEF FinishTold
  <2> QED
    BY <1>2, <1>3, <2>3, <2>4, <2>5
<1>4. CASE asked.dialect = "gemini"
  <2>1. answer.reason \in Reasons("gemini")
    BY <1>1, <1>4
  <2> DEFINE w == GeminiToOpenAI(blocks, answer.reason)
             r == answer.reason
             finish == IF Len(calls) > 0 /\ geminiFinish(r) = "stop" THEN "tool_calls" ELSE geminiFinish(r)
  <2> HIDE DEF blocks, w, calls, r
  <2>2. /\ w.text = Texts(blocks) /\ w.finish = finish
        /\ ZeroBased(w.calls) = ToldCalls("gemini", calls)
    BY <1>1, <2>1, GeminiWhole DEF w, calls, r
  <2>3. Whole = w
    BY <1>4 DEF Whole, Asking, w, blocks
  <2>4. FinishTold = finish
    <3>1. geminiFinish(r) # ""
      BY <2>1 DEF r, geminiFinish, Reasons
    <3>2. FinishChunks(asked.dialect, tr) = <<FinishChunk(finish), DoneChunk>>
      BY <1>2, <1>4, <3>1 DEF FinishChunks, r
    <3> HIDE DEF finish
    <3>3. FinishChunks(asked.dialect, tr)[1] = FinishChunk(finish)
      BY <3>2, FirstOfTwo
    <3>4. FinishChunk(finish).finish = finish
      BY DEF FinishChunk
    <3> QED
      BY <3>3, <3>4 DEF FinishTold
  <2> HIDE DEF finish
  <2>5. ~Asking("anthropic")
    BY <1>4 DEF Asking
  <2> QED
    BY <1>2, <1>4, <2>2, <2>3, <2>4, <2>5
<1> QED
  BY <1>1, <1>3, <1>4 DEF Dialects

LEMMA DialogueTyped == DialogueInv => DialogueTypeOK
BY DEF DialogueInv, ControlInv, AnswerInv, ToldInv, DialogueTypeOK

LEMMA DialogueKept == DialogueSpec => []DialogueInv
<1>1. DialogueInit => DialogueInv
  BY InitDialogue
<1>2. DialogueInv /\ [DialogueNext]_dialogueVars => DialogueInv'
  BY StepKeepsDialogue
<1> QED
  BY <1>1, <1>2, PTL DEF DialogueSpec

(* The translation's books stay within the bounds of the answer, and a client that was
   told the end was told a reason: an upstream that closes its body without one leaves
   "stop" to the translator (finish of the Anthropic and the Gemini stream). *)
THEOREM DialogueTypeCorrect == DialogueSpec => []DialogueTypeOK
<1>1. DialogueInv => DialogueTypeOK
  BY DialogueTyped
<1> QED
  BY <1>1, DialogueKept, PTL

(* A client is told the same whether it streams or not, for answers of any length, any
   number of turns and any tools: the text, every call under its own number with its own
   arguments, the finish reason and the tokens. *)
THEOREM StreamsTellTheWhole == DialogueSpec => []StreamTellsTheWhole
<1>1. DialogueInv => StreamTellsTheWhole
  BY WholeTold
<1> QED
  BY <1>1, DialogueKept, PTL

-----------------------------------------------------------------------------
(* A conversation and what is made of it, for either dialect. *)
Listed(s) == s \in Seq(Range(s))

KeyFor(d, b) == IF d = "anthropic" THEN b.id ELSE b.name
KeysFor(d, blocks) == [i \in DOMAIN blocks |-> KeyFor(d, blocks[i])]

(* Calls and results where they belong: ResultsFollowCalls of some turns. *)
Followed(d, turns) ==
    \A i \in DOMAIN turns :
       /\ ToolCalls(turns[i].blocks) # <<>> =>
             /\ i < Len(turns)
             /\ KeysFor(d, Results(turns[i + 1])) = KeysFor(d, ToolCalls(turns[i].blocks))
       /\ (Results(turns[i]) # <<>> /\ i > 1) => ToolCalls(turns[i - 1].blocks) # <<>>

(* What was said, in the assistant's turns: RoundTrip of some turns. *)
OfAssistant(turns) == Kept(turns, {i \in DOMAIN turns : turns[i].role = "assistant"})
SaidJSON(told) == \E j \in DOMAIN told.calls : told.calls[j][1] = JSONTool
Repeats(turns, told) ==
    /\ Len(OfAssistant(turns)) = Len(told)
    /\ \A i \in DOMAIN told : Meaning(OfAssistant(turns)[i].blocks) = told[i] \/ SaidJSON(told[i])

(* So far so good, after a message that is no tool result and after one that is. *)
Settled(turns, system, callNames) ==
    [ok |-> TRUE, turns |-> turns, system |-> system, merging |-> FALSE, callNames |-> callNames]
Merging(turns, system, callNames) ==
    [ok |-> TRUE, turns |-> turns, system |-> system, merging |-> TRUE, callNames |-> callNames]

(* A conversion that has come this far without a refusal. *)
Sound(d, c, told) ==
    c.ok => /\ c = Settled(c.turns, c.system, c.callNames) \/ c = Merging(c.turns, c.system, c.callNames)
            /\ Listed(c.turns) /\ Followed(d, c.turns) /\ Repeats(c.turns, told)

(* The conversation is sound for whichever upstream is asked next. *)
HistoryInv ==
    /\ Listed(messages) /\ Listed(said)
    /\ \A d \in Dialects : Sound(d, Converted(d, messages), said)

(* What was sent is the conversation, converted. *)
SentInv ==
    (phase \notin {"idle", "refused"} /\ sent.ok) =>
       /\ Converted(asked.dialect, messages).ok
       /\ sent.turns = Converted(asked.dialect, messages).turns

(* Anthropic's ids tell the calls of an answer apart. *)
Numbered(blocks, n) == \A x \in DOMAIN blocks : blocks[x].type = "call" => blocks[x].id = <<"toolu", n, x - 1>>
IdsInv ==
    (asked.dialect = "anthropic" /\ phase \in {"asked", "answering", "stopping", "answered"}) =>
       Numbered(answer.blocks, turn)

ConversationInv == DialogueInv /\ HistoryInv /\ SentInv /\ IdsInv

-----------------------------------------------------------------------------
(* More about sequences. *)
LEMMA ListedSeq == ASSUME NEW S, NEW s \in Seq(S) PROVE Listed(s) /\ Range(s) \subseteq S
<1>1. Len(s) \in Nat /\ DOMAIN s = 1..Len(s) /\ \A i \in 1..Len(s) : s[i] \in S
  OBVIOUS
<1>2. s = [i \in 1..Len(s) |-> s[i]]
  BY <1>1
<1>3. \A i \in 1..Len(s) : s[i] \in Range(s)
  BY <1>1 DEF Range
<1>4. s \in [1..Len(s) -> Range(s)]
  BY <1>2, <1>3
<1>5. Range(s) \subseteq S
  BY <1>1 DEF Range
<1> DEFINE T == Range(s)
<1> HIDE DEF T
<1>6. s \in Seq(T)
  BY <1>1, <1>4 DEF T
<1> QED
  BY <1>5, <1>6 DEF Listed, T

LEMMA ListedFunction ==
  ASSUME NEW n \in Nat, NEW s, DOMAIN s = 1..n, s = [i \in 1..n |-> s[i]]
  PROVE  Listed(s) /\ Len(s) = n
<1>1. \A i \in 1..n : s[i] \in Range(s)
  BY DEF Range
<1>2. s \in [1..n -> Range(s)]
  BY <1>1
<1> QED
  BY <1>2 DEF Listed

LEMMA ListedAppend ==
  ASSUME NEW s, Listed(s), NEW e
  PROVE  /\ Listed(Append(s, e)) /\ Len(s) \in Nat /\ Len(Append(s, e)) = Len(s) + 1
         /\ Append(s, e)[Len(s) + 1] = e /\ \A i \in 1..Len(s) : Append(s, e)[i] = s[i]
         /\ DOMAIN s = 1..Len(s) /\ DOMAIN Append(s, e) = 1..(Len(s) + 1)
<1> DEFINE S == Range(s) \cup {e}
<1>1. s \in Seq(S) /\ e \in S
  BY DEF Listed
<1> HIDE DEF S
<1>2. /\ Append(s, e) \in Seq(S) /\ Len(s) \in Nat /\ Len(Append(s, e)) = Len(s) + 1
      /\ Append(s, e)[Len(s) + 1] = e /\ \A i \in 1..Len(s) : Append(s, e)[i] = s[i]
      /\ DOMAIN s = 1..Len(s) /\ DOMAIN Append(s, e) = 1..(Len(s) + 1)
  BY <1>1, AppendProperties
<1>3. Listed(Append(s, e))
  BY <1>2, ListedSeq
<1> QED
  BY <1>2, <1>3

LEMMA ListedConcat ==
  ASSUME NEW s, Listed(s), NEW r, Listed(r)
  PROVE  /\ Listed(s \o r) /\ Len(s) \in Nat /\ Len(r) \in Nat /\ Len(s \o r) = Len(s) + Len(r)
         /\ \A i \in 1..Len(s) : (s \o r)[i] = s[i]
         /\ \A i \in 1..Len(r) : (s \o r)[Len(s) + i] = r[i]
<1> DEFINE S == Range(s) \cup Range(r)
<1>1. s \in Seq(S) /\ r \in Seq(S)
  BY DEF Listed
<1> HIDE DEF S
<1>2. /\ s \o r \in Seq(S) /\ Len(s) \in Nat /\ Len(r) \in Nat /\ Len(s \o r) = Len(s) + Len(r)
      /\ \A i \in 1..Len(s) : (s \o r)[i] = s[i]
      /\ \A i \in 1..Len(r) : (s \o r)[Len(s) + i] = r[i]
  BY <1>1, ConcatProperties
<1>3. Listed(s \o r)
  BY <1>2, ListedSeq
<1> QED
  BY <1>2, <1>3

(* When the kept elements are all in a row they are that row. *)
Row(s, p, q) == [i \in 1..(q - p) |-> s[p + i]]

LEMMA KeptRow ==
  ASSUME NEW s, Listed(s), NEW P, NEW p \in Nat, NEW q \in Nat, p <= q, q <= Len(s),
         \A i \in 1..Len(s) : i \in P <=> (p < i /\ i <= q)
  PROVE  Kept(s, P) = Row(s, p, q)
<1> DEFINE n == Len(s)
           t == KeptSoFar(s, P, n)
           Much(i) == IF i <= p THEN 0 ELSE IF i <= q THEN i - p ELSE q - p
           First(k) == [i \in 1..k |-> s[p + i]]
           Bad == {i \in 0..n : t[i] # First(Much(i))}
<1>1. n \in Nat /\ Kept(s, P) = t[n] /\ q <= n /\ \A i \in 1..n : i \in P <=> (p < i /\ i <= q)
  BY KeptByTable DEF KeptSoFar, Listed
<1>2. KeptTable(s, P, n, t)
  BY <1>1, KeptTableExists
<1>3. Much(n) = q - p
  BY <1>1
<1>4. ASSUME NEW k \in Nat PROVE First(k + 1) = Append(First(k), s[p + (k + 1)])
  <2> DEFINE e == s[p + (k + 1)]
             a == Append(First(k), e)
  <2>1. Listed(First(k)) /\ Len(First(k)) = k /\ DOMAIN First(k) = 1..k
    BY ListedFunction
  <2>2. /\ Listed(a) /\ Len(a) = k + 1 /\ a[k + 1] = e /\ \A i \in 1..k : a[i] = First(k)[i]
        /\ DOMAIN a = 1..(k + 1)
    <3> HIDE DEF First, e
    <3> QED
      BY <2>1, ListedAppend
  <2>3. \A i \in 1..k : First(k)[i] = s[p + i]
    OBVIOUS
  <2>4. \A i \in 1..(k + 1) : a[i] = s[p + i]
    <3> HIDE DEF First, a
    <3>1. \A i \in 1..(k + 1) : i \in 1..k \/ i = k + 1
      OBVIOUS
    <3> QED
      BY <2>2, <2>3, <3>1 DEF e
  <2>5. a = [i \in 1..(k + 1) |-> a[i]]
    <3> HIDE DEF a
    <3> QED
      BY <2>2 DEF Listed
  <2> HIDE DEF a
  <2>6. a = [i \in 1..(k + 1) |-> s[p + i]]
    BY <2>4, <2>5
  <2> QED
    BY <2>6 DEF a
<1>5. First(0) = <<>>
  OBVIOUS
<1> HIDE DEF n, t, First
<1>6. SUFFICES ASSUME Bad # {} PROVE FALSE
  <2>1. n \in 0..n
    BY <1>1
  <2>2. t[n] = First(Much(n))
    BY <1>6, <2>1
  <2> QED
    BY <1>1, <1>3, <2>2 DEF First, Row
<1>7. PICK i \in Bad : \A j \in Bad : i <= j
  <2> Bad \in SUBSET Nat
    BY <1>1
  <2> HIDE DEF Bad
  <2> QED
    BY <1>6, LeastOf
<1>8. CASE i = 0
  <2>1. t[0] = <<>>
    BY <1>1, <1>2 DEF KeptTable
  <2> QED
    BY <1>5, <1>7, <1>8, <2>1
<1>9. CASE i # 0
  <2>1. i - 1 \in 0..n /\ i - 1 \notin Bad /\ i \in 1..n /\ i \in 0..n
    BY <1>1, <1>7, <1>9
  <2>2. t[i - 1] = First(Much(i - 1))
    BY <2>1
  <2>3. t[i] = IF i \in P THEN Append(t[i - 1], s[i]) ELSE t[i - 1]
    BY <1>2, <1>9, <2>1 DEF KeptTable
  <2>4. CASE i \in P
    <3>1. p < i /\ i <= q
      BY <1>1, <2>1, <2>4
    <3> DEFINE k == i - 1 - p
    <3>2. Much(i - 1) = k /\ Much(i) = k + 1 /\ k \in Nat /\ p + (k + 1) = i
      BY <2>1, <3>1
    <3>3. First(k + 1) = Append(First(k), s[p + (k + 1)])
      BY <1>4, <3>2
    <3>4. t[i] = First(Much(i))
      BY <2>2, <2>3, <2>4, <3>2, <3>3
    <3> QED
      BY <1>7, <3>4
  <2>5. CASE i \notin P
    <3>1. ~(p < i /\ i <= q)
      BY <1>1, <2>1, <2>5
    <3>2. Much(i - 1) = Much(i)
      BY <2>1, <3>1
    <3>3. t[i] = First(Much(i))
      BY <2>2, <2>3, <2>5, <3>2
    <3> QED
      BY <1>7, <3>3
  <2> QED
    BY <2>4, <2>5
<1> QED
  BY <1>8, <1>9

-----------------------------------------------------------------------------
(* A conversion walks along its messages: its table after n of them. *)
ConvTable(d, ms, n, t) ==
    t = [i \in 0..n |-> IF i = 0 THEN Unconverted ELSE Convert(d, t[i - 1], ms[i])]
ConvSoFar(d, ms, n) == CHOOSE t : ConvTable(d, ms, n, t)

LEMMA ConvertedByTable ==
  ASSUME NEW d, NEW ms
  PROVE  Converted(d, ms) = ConvSoFar(d, ms, Len(ms))[Len(ms)]
BY DEF Converted, ConvSoFar, ConvTable

LEMMA ConvTableExists ==
  ASSUME NEW d, NEW ms, NEW n \in Nat
  PROVE  ConvTable(d, ms, n, ConvSoFar(d, ms, n))
<1> DEFINE Bad == {m \in Nat : ~ \E t : ConvTable(d, ms, m, t)}
<1>1. SUFFICES ASSUME Bad # {} PROVE FALSE
  BY DEF ConvSoFar
<1>2. PICK m \in Bad : \A j \in Bad : m <= j
  <2> Bad \in SUBSET Nat
    OBVIOUS
  <2> HIDE DEF Bad
  <2> QED
    BY <1>1, LeastOf
<1>3. CASE m = 0
  <2> DEFINE t == [i \in 0..0 |-> Unconverted]
  <2>1. ConvTable(d, ms, 0, t)
    BY DEF ConvTable
  <2> QED
    BY <1>3, <2>1
<1>4. CASE m # 0
  <2>1. m - 1 \in Nat /\ m - 1 \notin Bad
    BY <1>2, <1>4
  <2>2. PICK u : ConvTable(d, ms, m - 1, u)
    BY <2>1
  <2> DEFINE last == Convert(d, u[m - 1], ms[m])
             t == [i \in 0..m |-> IF i = m THEN last ELSE u[i]]
  <2>3. ASSUME NEW i \in 0..m
        PROVE  t[i] = IF i = 0 THEN Unconverted ELSE Convert(d, t[i - 1], ms[i])
    <3>1. CASE i = m
      <4>1. t[i] = last /\ t[i - 1] = u[m - 1]
        BY <1>4, <2>1, <3>1
      <4> QED
        BY <1>4, <3>1, <4>1
    <3>2. CASE i # m
      <4>1. i \in 0..(m - 1) /\ t[i] = u[i] /\ (i # 0 => t[i - 1] = u[i - 1])
        BY <3>2
      <4>2. u[i] = IF i = 0 THEN Unconverted ELSE Convert(d, u[i - 1], ms[i])
        BY <2>2, <4>1 DEF ConvTable
      <4> QED
        BY <4>1, <4>2
    <3> QED
      BY <3>1, <3>2
  <2>4. ConvTable(d, ms, m, t)
    <3> HIDE DEF last
    <3> QED
      BY <2>3 DEF ConvTable
  <2> QED
    BY <2>4
<1> QED
  BY <1>3, <1>4

(* What comes later changes nothing of what was converted before. *)
LEMMA ConvTablesAgree ==
  ASSUME NEW d, NEW ms, NEW more, NEW m \in Nat, NEW n \in Nat, NEW t, NEW u,
         ConvTable(d, ms, m, t), ConvTable(d, more, n, u), NEW k \in Nat, k <= m, k <= n,
         \A i \in 1..k : ms[i] = more[i]
  PROVE  t[k] = u[k]
<1> DEFINE Bad == {i \in 0..k : t[i] # u[i]}
<1>1. SUFFICES ASSUME Bad # {} PROVE FALSE
  OBVIOUS
<1>2. PICK i \in Bad : \A j \in Bad : i <= j
  <2> Bad \in SUBSET Nat
    OBVIOUS
  <2> HIDE DEF Bad
  <2> QED
    BY <1>1, LeastOf
<1>3. CASE i = 0
  BY <1>3 DEF ConvTable
<1>4. CASE i # 0
  <2>1. i \in 1..k /\ i - 1 \in 0..k /\ i - 1 \notin Bad /\ i \in 0..m /\ i \in 0..n
    BY <1>2, <1>4
  <2>2. t[i - 1] = u[i - 1] /\ ms[i] = more[i]
    BY <2>1
  <2>3. t[i] = Convert(d, t[i - 1], ms[i])
    BY <1>4, <2>1 DEF ConvTable
  <2>4. u[i] = Convert(d, u[i - 1], more[i])
    BY <1>4, <2>1 DEF ConvTable
  <2> QED
    BY <2>2, <2>3, <2>4
<1> QED
  BY <1>3, <1>4

(* The conversion of a longer conversation goes on where the shorter one ended. *)
Continued(d, ms, more, t) ==
    /\ t[0] = Unconverted /\ t[Len(ms)] = Converted(d, ms) /\ t[Len(more)] = Converted(d, more)
    /\ \A i \in 1..Len(more) : t[i] = Convert(d, t[i - 1], more[i])

LEMMA ConvertedOn ==
  ASSUME NEW d, NEW ms, Listed(ms), NEW more, Listed(more), Len(ms) <= Len(more),
         \A i \in 1..Len(ms) : ms[i] = more[i]
  PROVE  \E t : Continued(d, ms, more, t)
<1> DEFINE m == Len(ms)
           n == Len(more)
           t == ConvSoFar(d, more, n)
           u == ConvSoFar(d, ms, m)
<1>1. m \in Nat /\ n \in Nat
  BY DEF Listed
<1>2. ConvTable(d, more, n, t) /\ ConvTable(d, ms, m, u)
  BY <1>1, ConvTableExists
<1>3. Converted(d, ms) = u[m] /\ Converted(d, more) = t[n]
  BY ConvertedByTable
<1>4. m <= n /\ \A i \in 1..m : ms[i] = more[i]
  OBVIOUS
<1> HIDE DEF m, n, t, u
<1>5. u[m] = t[m]
  <2>1. m <= m
    BY <1>1
  <2> QED
    BY ONLY <1>1, <1>2, <1>4, <2>1, ConvTablesAgree
<1>6. t[0] = Unconverted /\ \A i \in 1..n : t[i] = Convert(d, t[i - 1], more[i])
  BY <1>1, <1>2 DEF ConvTable
<1> QED
  BY <1>3, <1>5, <1>6 DEF m, n, Continued

LEMMA NoneConverted == ASSUME NEW d PROVE Converted(d, <<>>) = Unconverted
<1>1. Len(<<>>) = 0
  OBVIOUS
<1>2. ConvTable(d, <<>>, 0, ConvSoFar(d, <<>>, 0))
  BY ConvTableExists
<1>3. ConvSoFar(d, <<>>, 0)[0] = Unconverted
  BY <1>2 DEF ConvTable
<1> QED
  BY <1>1, <1>3, ConvertedByTable

-----------------------------------------------------------------------------
(* One message more. *)
LEMMA ConvertRefuses ==
  ASSUME NEW d, NEW c, NEW m, Convert(d, c, m).ok, ~c.ok
  PROVE  FALSE
BY DEF Convert

LEMMA ConvertTool ==
  ASSUME NEW d, NEW c, NEW m, Convert(d, c, m).ok, c.ok = TRUE, m.role = "tool"
  PROVE  Convert(d, c, m) = AddResult(c, ResultBlock(d, m, c.callNames)) /\ ResultOK(d, m, c.callNames)
BY DEF Convert, Refused, MessageOK

LEMMA ConvertUser ==
  ASSUME NEW d, NEW c, NEW m, Convert(d, c, m).ok, c.ok = TRUE, m.role = "user"
  PROVE  Convert(d, c, m) = AddTurn(c, "user", contentToBlocks(m.content))
BY DEF Convert, Refused, MessageOK

LEMMA ConvertAssistant ==
  ASSUME NEW d, NEW c, NEW m, Convert(d, c, m).ok, c.ok = TRUE, m.role = "assistant"
  PROVE  Convert(d, c, m) = AddAssistant(d, c, m)
BY DEF Convert, Refused, MessageOK

Turn(role, blocks) == [role |-> role, blocks |-> blocks]

LEMMA FirstResult ==
  ASSUME NEW turns, NEW system, NEW names, NEW b
  PROVE  AddResult(Settled(turns, system, names), b) =
           Merging(Append(turns, Turn("user", <<b>>)), system, names)
BY DEF AddResult, Settled, Merging, Turn

LEMMA NextResult ==
  ASSUME NEW turns, Listed(turns), NEW blocks, NEW system, NEW names, NEW b
  PROVE  AddResult(Merging(Append(turns, Turn("user", blocks)), system, names), b) =
           Merging(Append(turns, Turn("user", Append(blocks, b))), system, names)
<1> DEFINE all == Append(turns, Turn("user", blocks))
           c == Merging(all, system, names)
           n == Len(turns)
           S == Range(turns) \cup {Turn("user", blocks), Turn("user", Append(blocks, b))}
<1>1. turns \in Seq(S) /\ Turn("user", blocks) \in S /\ Turn("user", Append(blocks, b)) \in S /\ Len(all) = n + 1
      /\ all[n + 1] = Turn("user", blocks)
  BY ListedAppend DEF Listed
<1>2. c.turns = all /\ c.merging
  BY DEF Settled, Merging
<1>3. AddResult(c, b) = [c EXCEPT !.turns = [all EXCEPT ![n + 1] = [all[n + 1] EXCEPT !.blocks = Append(all[n + 1].blocks, b)]]]
  BY <1>1, <1>2 DEF AddResult
<1>4. [all[n + 1] EXCEPT !.blocks = Append(all[n + 1].blocks, b)] = Turn("user", Append(blocks, b))
  <2> DEFINE e == Turn("user", blocks)
  <2>1. e.blocks = blocks /\ [e EXCEPT !.blocks = Append(blocks, b)] = Turn("user", Append(blocks, b))
    BY DEF Turn
  <2>2. all[n + 1] = e
    BY <1>1
  <2> HIDE DEF e, all
  <2> QED
    BY <2>1, <2>2
<1> HIDE DEF S
<1>5. [all EXCEPT ![n + 1] = Turn("user", Append(blocks, b))] = Append(turns, Turn("user", Append(blocks, b)))
  BY <1>1, LastReplaced
<1> HIDE DEF all
<1>6. AddResult(c, b) = [c EXCEPT !.turns = Append(turns, Turn("user", Append(blocks, b)))]
  BY <1>3, <1>4, <1>5
<1> QED
  BY <1>6 DEF Settled, Merging, all

Fields == {"ok", "turns", "system", "merging", "callNames"}
Shaped(c) == c = [f \in Fields |-> c[f]]

LEMMA NamesAdded ==
  ASSUME NEW turns, NEW system, NEW names, NEW newer
  PROVE  [Settled(turns, system, names) EXCEPT !.callNames = newer] = Settled(turns, system, newer)
<1> DEFINE c == Settled(turns, system, names)
           u == [c EXCEPT !.callNames = newer]
           v == Settled(turns, system, newer)
<1>1. /\ DOMAIN c = Fields /\ c["ok"] = TRUE /\ c["turns"] = turns /\ c["system"] = system /\ c["merging"] = FALSE
  BY DEF Settled, Fields
<1>2. /\ Shaped(v) /\ v["ok"] = TRUE /\ v["turns"] = turns /\ v["system"] = system /\ v["merging"] = FALSE
      /\ v["callNames"] = newer
  BY DEF Settled, Fields, Shaped
<1> HIDE DEF c, v
<1>3. u = [f \in DOMAIN c |-> IF f = "callNames" THEN newer ELSE c[f]]
  OBVIOUS
<1> HIDE DEF u
<1>4. Shaped(u) /\ \A f \in Fields : u[f] = v[f]
  BY <1>1, <1>2, <1>3 DEF Fields, Shaped
<1>5. u = v
  BY <1>2, <1>4 DEF Shaped
<1> QED
  BY <1>5 DEF u, v, c

LEMMA TurnAdded ==
  ASSUME NEW c, NEW turns, NEW system, NEW names, NEW role, NEW blocks,
         c = Settled(turns, system, names) \/ c = Merging(turns, system, names)
  PROVE  AddTurn(c, role, blocks) = Settled(Append(turns, Turn(role, blocks)), system, names)
<1> DEFINE more == Append(turns, Turn(role, blocks))
           u == [c EXCEPT !.merging = FALSE, !.turns = more]
           v == Settled(more, system, names)
<1>1. /\ DOMAIN c = Fields /\ c["ok"] = TRUE /\ c["system"] = system /\ c["callNames"] = names
      /\ c.turns = turns
  BY DEF Settled, Merging, Fields
<1>2. /\ Shaped(v) /\ v["ok"] = TRUE /\ v["turns"] = more /\ v["system"] = system /\ v["merging"] = FALSE
      /\ v["callNames"] = names
  BY DEF Settled, Fields, Shaped
<1>3. AddTurn(c, role, blocks) = u
  BY <1>1 DEF AddTurn, Turn
<1> HIDE DEF v, more
<1>4. u = [f \in DOMAIN c |-> IF f = "merging" THEN FALSE ELSE IF f = "turns" THEN more ELSE c[f]]
  BY <1>1 DEF Fields
<1> HIDE DEF u
<1>5. Shaped(u) /\ \A f \in Fields : u[f] = v[f]
  BY <1>1, <1>2, <1>4 DEF Fields, Shaped
<1>6. u = v
  BY <1>2, <1>5 DEF Shaped
<1> QED
  BY <1>3, <1>6 DEF v, more

LEMMA AssistantTurn ==
  ASSUME NEW d, NEW c, NEW turns, NEW system, NEW names, NEW m,
         c = Settled(turns, system, names) \/ c = Merging(turns, system, names)
  PROVE  AddAssistant(d, c, m) =
           Settled(Append(turns, Turn("assistant", contentToBlocks(m.content) \o CallBlocks(d, m.calls))),
                   system, NameCalls(names, m.calls))
<1> DEFINE blocks == contentToBlocks(m.content) \o CallBlocks(d, m.calls)
           more == Append(turns, Turn("assistant", blocks))
           newer == NameCalls(names, m.calls)
           after == AddTurn(c, "assistant", blocks)
<1>1. after = Settled(more, system, names)
  <2> HIDE DEF blocks
  <2> QED
    BY TurnAdded
<1>2. AddAssistant(d, c, m) = [after EXCEPT !.callNames = NameCalls(after.callNames, m.calls)]
  BY DEF AddAssistant
<1>3. Settled(more, system, names).callNames = names
  BY DEF Settled
<1> HIDE DEF more, blocks, after
<1>4. AddAssistant(d, c, m) = [Settled(more, system, names) EXCEPT !.callNames = newer]
  BY <1>1, <1>2, <1>3
<1> HIDE DEF newer
<1>5. [Settled(more, system, names) EXCEPT !.callNames = newer] = Settled(more, system, newer)
  BY NamesAdded
<1> QED
  BY <1>4, <1>5 DEF more, newer, blocks

-----------------------------------------------------------------------------
(* The blocks of one message, by type. *)
LEMMA TypedRow ==
  ASSUME NEW s, Listed(s), NEW type, NEW p \in Nat, NEW q \in Nat, p <= q, q <= Len(s),
         \A i \in 1..Len(s) : s[i].type = type <=> (p < i /\ i <= q)
  PROVE  OfType(s, type) = Row(s, p, q)
<1> DEFINE P == {i \in DOMAIN s : s[i].type = type}
<1>1. DOMAIN s = 1..Len(s)
  BY DEF Listed
<1>2. \A i \in 1..Len(s) : i \in P <=> (p < i /\ i <= q)
  BY <1>1
<1> HIDE DEF P
<1>3. Kept(s, P) = Row(s, p, q)
  BY <1>2, KeptRow
<1> QED
  BY <1>3 DEF OfType, P

LEMMA NoneOfType ==
  ASSUME NEW s, Listed(s), NEW type, \A i \in DOMAIN s : s[i].type # type
  PROVE  OfType(s, type) = <<>>
<1> DEFINE P == {i \in DOMAIN s : s[i].type = type}
<1>1. DOMAIN s = 1..Len(s) /\ s \in Seq(Range(s))
  BY DEF Listed
<1>2. \A i \in 1..Len(s) : i \notin P
  BY <1>1
<1> HIDE DEF P
<1>3. Kept(s, P) = <<>>
  BY <1>1, <1>2, KeptNothing
<1> QED
  BY <1>3 DEF OfType, P

LEMMA AllOfType ==
  ASSUME NEW s, Listed(s), NEW type, \A i \in DOMAIN s : s[i].type = type
  PROVE  OfType(s, type) = s
<1> DEFINE P == {i \in DOMAIN s : s[i].type = type}
<1>1. DOMAIN s = 1..Len(s) /\ s \in Seq(Range(s))
  BY DEF Listed
<1>2. \A i \in 1..Len(s) : i \in P
  BY <1>1
<1> HIDE DEF P
<1>3. Kept(s, P) = s
  BY <1>1, <1>2, KeptAll
<1> QED
  BY <1>3 DEF OfType, P

LEMMA TextOfOne == ASSUME NEW text \in Words PROVE TextOf(<<TextBlock(text)>>) = text
<1>1. [i \in DOMAIN <<TextBlock(text)>> |-> <<TextBlock(text)>>[i].text] = <<text>>
  <2>1. TextBlock(text).text = text
    BY DEF TextBlock, Block
  <2> QED
    BY <2>1
<1>2. <<text>> = Append(<<>>, text) /\ <<>> \in Seq(Seq(Nat))
  OBVIOUS
<1>3. FlattenSeq(Append(<<>>, text)) = text
  BY <1>2, FlattenOfAppend DEF Words
<1> QED
  BY <1>1, <1>2, <1>3 DEF TextOf

LEMMA CallBlocksRow ==
  ASSUME NEW d, NEW calls, Listed(calls)
  PROVE  /\ Listed(CallBlocks(d, calls)) /\ Len(CallBlocks(d, calls)) = Len(calls)
         /\ DOMAIN CallBlocks(d, calls) = DOMAIN calls
         /\ \A i \in DOMAIN calls :
               /\ CallBlocks(d, calls)[i].type = "call"
               /\ CallBlocks(d, calls)[i].name = calls[i].name
               /\ CallBlocks(d, calls)[i].input = argumentsToObject(calls[i].args)
               /\ d = "anthropic" => CallBlocks(d, calls)[i].id = calls[i].id
<1> DEFINE cb == CallBlocks(d, calls)
           n == Len(calls)
<1>1. n \in Nat /\ DOMAIN calls = 1..n
  BY DEF Listed
<1>2. DOMAIN cb = 1..n /\ cb = [i \in 1..n |-> cb[i]]
  BY <1>1 DEF CallBlocks
<1>3. \A i \in DOMAIN calls :
               /\ cb[i].type = "call"
               /\ cb[i].name = calls[i].name
               /\ cb[i].input = argumentsToObject(calls[i].args)
               /\ d = "anthropic" => cb[i].id = calls[i].id
  BY DEF CallBlocks, Block
<1> HIDE DEF cb, n
<1>4. Listed(cb) /\ Len(cb) = n
  BY <1>1, <1>2, ListedFunction
<1> QED
  BY <1>1, <1>2, <1>3, <1>4 DEF cb, n

(* What the translator makes of an assistant's message. *)
BackBlocks(d, text, calls) ==
    contentToBlocks(Assistant(text, calls).content) \o CallBlocks(d, Assistant(text, calls).calls)

LEMMA AssistantBack ==
  ASSUME NEW d, NEW text \in Words, NEW calls, Listed(calls)
  PROVE  /\ ToolCalls(BackBlocks(d, text, calls)) = CallBlocks(d, calls)
         /\ Texts(BackBlocks(d, text, calls)) = text
         /\ OfType(BackBlocks(d, text, calls), "result") = <<>>
<1> DEFINE pre == contentToBlocks(Assistant(text, calls).content)
           cb == CallBlocks(d, calls)
           bs == pre \o cb
           p == Len(pre)
           n == Len(cb)
<1>1. BackBlocks(d, text, calls) = bs
  BY DEF BackBlocks, Assistant
<1>2. pre = IF text = <<>> THEN <<>> ELSE <<TextBlock(text)>>
  <2>1. CASE text = <<>>
    BY <2>1 DEF Assistant, contentToBlocks
  <2>2. CASE text # <<>>
    <3>1. Assistant(text, calls).content = <<[kind |-> "text", text |-> text]>>
      BY <2>2 DEF Assistant
    <3>2. contentToBlocks(<<[kind |-> "text", text |-> text]>>) = <<TextBlock(text)>>
      BY DEF contentToBlocks, TextBlock
    <3> QED
      BY <2>2, <3>1, <3>2
  <2> QED
    BY <2>1, <2>2
<1>3. Listed(pre) /\ p \in Nat /\ (\A i \in 1..p : pre[i].type = "text") /\ TextOf(pre) = text
  <2>1. CASE text = <<>>
    <3>1. pre = <<>> /\ <<>> \in Seq({}) /\ Len(<<>>) = 0
      BY <1>2, <2>1
    <3>2. Listed(<<>>)
      BY <3>1, ListedSeq
    <3>3. TextOf(<<>>) = <<>>
      <4>1. [i \in DOMAIN <<>> |-> <<>>[i].text] = <<>>
        OBVIOUS
      <4> QED
        BY <4>1, FlattenOfNone DEF TextOf
    <3> QED
      BY <2>1, <3>1, <3>2, <3>3
  <2>2. CASE text # <<>>
    <3>1. pre = <<TextBlock(text)>> /\ <<TextBlock(text)>> \in Seq({TextBlock(text)})
          /\ Len(<<TextBlock(text)>>) = 1 /\ <<TextBlock(text)>>[1] = TextBlock(text)
      BY <1>2, <2>2
    <3>2. TextBlock(text).type = "text"
      BY DEF TextBlock, Block
    <3>3. Listed(<<TextBlock(text)>>)
      BY <3>1, ListedSeq
    <3>4. \A i \in 1..1 : <<TextBlock(text)>>[i].type = "text"
      BY <3>1, <3>2
    <3> QED
      BY <3>1, <3>3, <3>4, TextOfOne
  <2> QED
    BY <2>1, <2>2
<1>4. Listed(cb) /\ DOMAIN cb = 1..n /\ n \in Nat /\ \A i \in 1..n : cb[i].type = "call"
  <2>1. Listed(cb) /\ Len(cb) = Len(calls) /\ DOMAIN cb = DOMAIN calls /\ \A i \in DOMAIN calls : cb[i].type = "call"
    BY CallBlocksRow
  <2> HIDE DEF cb
  <2> QED
    BY <2>1 DEF Listed
<1> HIDE DEF pre, cb
<1>5. /\ Listed(bs) /\ Len(bs) = p + n /\ (\A i \in 1..p : bs[i] = pre[i])
      /\ \A i \in 1..n : bs[p + i] = cb[i]
  <2>1. Listed(pre) /\ Listed(cb)
    BY <1>3, <1>4
  <2>2. Listed(pre \o cb) /\ Len(pre \o cb) = Len(pre) + Len(cb)
    BY ONLY <2>1, ListedConcat
  <2>3. \A i \in 1..Len(pre) : (pre \o cb)[i] = pre[i]
    BY ONLY <2>1, ListedConcat
  <2>4. \A i \in 1..Len(cb) : (pre \o cb)[Len(pre) + i] = cb[i]
    BY ONLY <2>1, ListedConcat
  <2> QED
    BY ONLY <2>2, <2>3, <2>4
<1> HIDE DEF bs, p, n
<1>6. \A i \in 1..(p + n) : (i \in 1..p) \/ (p < i /\ i - p \in 1..n /\ p + (i - p) = i)
  BY <1>3, <1>4
<1>7. \A i \in 1..(p + n) : IF i <= p THEN bs[i].type = "text" ELSE bs[i].type = "call"
  <2> SUFFICES ASSUME NEW i \in 1..(p + n) PROVE IF i <= p THEN bs[i].type = "text" ELSE bs[i].type = "call"
    OBVIOUS
  <2>1. CASE i <= p
    BY <1>3, <1>5, <1>6, <2>1
  <2>2. CASE ~(i <= p)
    <3>1. i - p \in 1..n /\ p + (i - p) = i
      BY <1>3, <1>6, <2>2
    <3>2. bs[p + (i - p)] = cb[i - p]
      BY <1>5, <3>1
    <3> QED
      BY <1>4, <2>2, <3>1, <3>2
  <2> QED
    BY <2>1, <2>2
<1>8. OfType(bs, "call") = [i \in 1..n |-> bs[p + i]]
  <2>1. \A i \in 1..Len(bs) : bs[i].type = "call" <=> (p < i /\ i <= p + n)
    BY <1>3, <1>4, <1>5, <1>7
  <2>2. p + n \in Nat /\ p <= p + n /\ p + n <= Len(bs) /\ (p + n) - p = n
    BY <1>3, <1>4, <1>5
  <2>3. OfType(bs, "call") = Row(bs, p, p + n)
    BY ONLY <1>3, <1>5, <2>1, <2>2, TypedRow
  <2> QED
    BY <2>2, <2>3 DEF Row
<1>9. OfType(bs, "text") = [i \in 1..p |-> bs[0 + i]]
  <2>1. \A i \in 1..Len(bs) : bs[i].type = "text" <=> (0 < i /\ i <= p)
    BY <1>3, <1>4, <1>5, <1>7
  <2>2. 0 \in Nat /\ 0 <= p /\ p <= Len(bs) /\ p - 0 = p
    BY <1>3, <1>4, <1>5
  <2>3. OfType(bs, "text") = Row(bs, 0, p)
    BY ONLY <1>3, <1>5, <2>1, <2>2, TypedRow
  <2> QED
    BY <2>2, <2>3 DEF Row
<1>10. OfType(bs, "result") = <<>>
  <2>1. DOMAIN bs = 1..(p + n)
    BY <1>5 DEF Listed
  <2>2. \A i \in DOMAIN bs : bs[i].type # "result"
    BY <1>7, <2>1
  <2> QED
    BY <1>5, <2>2, NoneOfType
<1>11. OfType(bs, "call") = cb
  <2>1. cb = [i \in 1..n |-> cb[i]]
    BY <1>4 DEF Listed
  <2>2. [i \in 1..n |-> bs[p + i]] = [i \in 1..n |-> cb[i]]
    BY <1>5
  <2> QED
    BY <1>8, <2>1, <2>2
<1>12. OfType(bs, "text") = pre
  <2>1. pre = [i \in 1..p |-> pre[i]]
    BY <1>3 DEF Listed, p
  <2>2. [i \in 1..p |-> bs[0 + i]] = [i \in 1..p |-> pre[i]]
    BY <1>3, <1>5
  <2> QED
    BY <1>9, <2>1, <2>2
<1> QED
  BY <1>1, <1>3, <1>10, <1>11, <1>12 DEF ToolCalls, Texts, cb

(* Told back, an answer means what it meant. *)
LEMMA MeaningBack ==
  ASSUME NEW d, NEW text \in Words, NEW calls, Listed(calls)
  PROVE  Meaning(BackBlocks(d, text, calls)) =
           [text |-> text, calls |-> [i \in DOMAIN calls |-> <<calls[i].name, argumentsToObject(calls[i].args)>>]]
<1> DEFINE bs == BackBlocks(d, text, calls)
           cb == CallBlocks(d, calls)
<1>1. ToolCalls(bs) = cb /\ Texts(bs) = text
  BY AssistantBack
<1>2. /\ DOMAIN cb = DOMAIN calls
      /\ \A i \in DOMAIN calls :
            cb[i].name = calls[i].name /\ cb[i].input = argumentsToObject(calls[i].args)
  BY CallBlocksRow
<1> HIDE DEF bs, cb
<1>3. \A args : argumentsToObject(argumentsToObject(args)) = argumentsToObject(args)
  BY DEF argumentsToObject, EmptyObject
<1>4. \A i \in DOMAIN calls :
        <<cb[i].name, argumentsToObject(cb[i].input)>> = <<calls[i].name, argumentsToObject(calls[i].args)>>
  BY <1>2, <1>3
<1>5. Meaning(bs) = [text |-> text, calls |-> [i \in DOMAIN cb |-> <<cb[i].name, argumentsToObject(cb[i].input)>>]]
  BY <1>1 DEF Meaning
<1>6. [i \in DOMAIN cb |-> <<cb[i].name, argumentsToObject(cb[i].input)>>]
        = [i \in DOMAIN calls |-> <<calls[i].name, argumentsToObject(calls[i].args)>>]
  BY <1>2, <1>4
<1> QED
  BY <1>5, <1>6 DEF bs

-----------------------------------------------------------------------------
(* The names by which the results of a turn's calls are keyed. *)
SameName(calls) == \A i, j \in DOMAIN calls : calls[i].id = calls[j].id => calls[i].name = calls[j].name

LEMMA LastWhere ==
  ASSUME NEW n \in Nat, NEW I \in SUBSET (1..n), I # {}
  PROVE  Max(I) \in I
<1> DEFINE B == {m \in Nat : \A i \in I : i <= m}
<1>1. n \in B /\ B \in SUBSET Nat
  OBVIOUS
<1> HIDE DEF B
<1>2. PICK m \in B : \A k \in B : m <= k
  BY <1>1, LeastOf
<1>3. m \in Nat /\ \A i \in I : i <= m
  BY <1>2 DEF B
<1>4. m \in I
  <2>1. SUFFICES ASSUME m \notin I PROVE FALSE
    OBVIOUS
  <2>2. PICK i \in I : TRUE
    OBVIOUS
  <2>3. m - 1 \in Nat /\ \A j \in I : j <= m - 1
    BY <1>3, <2>1, <2>2
  <2>4. m - 1 \in B
    BY <2>3 DEF B
  <2> QED
    BY <1>2, <1>3, <2>4
<1>5. \A i \in I : m >= i
  BY <1>3
<1> QED
  BY <1>4, <1>5 DEF Max

LEMMA CallNamed ==
  ASSUME NEW names, NEW calls, Listed(calls), SameName(calls), NEW i \in DOMAIN calls
  PROVE  calls[i].id \in DOMAIN NameCalls(names, calls) /\ NameCalls(names, calls)[calls[i].id] = calls[i].name
<1> DEFINE id == calls[i].id
           I == {k \in 1..Len(calls) : calls[k].id = id}
           last == SelectLastInSeq(calls, LAMBDA c : c.id = id)
<1>1. Len(calls) \in Nat /\ DOMAIN calls = 1..Len(calls)
  BY DEF Listed
<1>2. i \in I
  BY <1>1
<1>3. last = Max(I)
  BY <1>2 DEF SelectLastInSeq
<1>4. last \in I
  <2> HIDE DEF last
  <2>1. I \in SUBSET (1..Len(calls)) /\ I # {}
    BY <1>2
  <2> HIDE DEF I
  <2> QED
    BY <1>1, <1>3, <2>1, LastWhere
<1>5. calls[last].name = calls[i].name
  <2> HIDE DEF last
  <2> QED
    BY <1>1, <1>4 DEF SameName
<1>6. id \in DOMAIN NameCalls(names, calls) /\ NameCalls(names, calls)[id] = calls[last].name
  <2>1. id \in DOMAIN names \cup {calls[k].id : k \in DOMAIN calls}
    OBVIOUS
  <2>2. \E k \in DOMAIN calls : calls[k].id = id
    OBVIOUS
  <2> QED
    BY <2>1, <2>2 DEF NameCalls
<1> QED
  BY <1>5, <1>6

-----------------------------------------------------------------------------
(* A run of results becomes one turn. *)
ResultBlocks(d, calls, names) == [i \in DOMAIN calls |-> ResultBlock(d, Result(calls[i]), names)]

LEMMA FirstGrows ==
  ASSUME NEW f, NEW k \in Nat
  PROVE  [i \in 1..(k + 1) |-> f[i]] = Append([i \in 1..k |-> f[i]], f[k + 1])
<1> DEFINE r == [i \in 1..k |-> f[i]]
           e == f[k + 1]
           a == Append(r, e)
<1>1. DOMAIN r = 1..k /\ r = [i \in 1..k |-> r[i]] /\ \A i \in 1..k : r[i] = f[i]
  OBVIOUS
<1> HIDE DEF r, e
<1>2. Listed(r) /\ Len(r) = k
  BY <1>1, ListedFunction
<1>3. /\ Listed(a) /\ Len(a) = k + 1 /\ a[k + 1] = e /\ (\A i \in 1..k : a[i] = r[i])
      /\ DOMAIN a = 1..(k + 1)
  BY <1>2, ListedAppend
<1> HIDE DEF a
<1>4. \A i \in 1..(k + 1) : a[i] = f[i]
  <2>1. \A i \in 1..(k + 1) : i \in 1..k \/ i = k + 1
    OBVIOUS
  <2> QED
    BY <1>1, <1>3, <2>1 DEF e
<1>5. a = [i \in 1..(k + 1) |-> a[i]]
  BY <1>3 DEF Listed
<1>6. a = [i \in 1..(k + 1) |-> f[i]]
  BY <1>4, <1>5
<1> QED
  BY <1>6 DEF a, r, e

Walked(d, t, p, k, ms) == \A i \in 1..k : t[p + i] = Convert(d, t[p + i - 1], ms[i])

LEMMA StillOK ==
  ASSUME NEW d, NEW t, NEW ms, NEW p \in Nat, NEW k \in Nat,
         Walked(d, t, p, k, ms), t[p + k].ok, NEW i \in 0..k
  PROVE  t[p + i].ok
<1> DEFINE Bad == {j \in 0..k : ~t[p + (k - j)].ok}
<1>1. SUFFICES ASSUME ~t[p + i].ok PROVE FALSE
  OBVIOUS
<1>2. k - i \in Bad
  <2>1. k - i \in 0..k /\ k - (k - i) = i
    OBVIOUS
  <2> QED
    BY <1>1, <2>1
<1>3. PICK j \in Bad : \A h \in Bad : j <= h
  <2> Bad \in SUBSET Nat
    OBVIOUS
  <2> HIDE DEF Bad
  <2> QED
    BY <1>2, LeastOf
<1>4. j # 0
  <2>1. k - 0 = k
    OBVIOUS
  <2> QED
    BY <1>3, <2>1
<1>5. j - 1 \in 0..k /\ j - 1 \notin Bad /\ k - j + 1 \in 1..k /\ k - (j - 1) = k - j + 1
      /\ p + (k - j + 1) - 1 = p + (k - j)
  BY <1>3, <1>4
<1>6. t[p + (k - j + 1)].ok
  BY <1>5
<1>7. t[p + (k - j + 1)] = Convert(d, t[p + (k - j)], ms[k - j + 1])
  BY <1>5 DEF Walked
<1>8. ~t[p + (k - j)].ok
  BY <1>3
<1> QED
  BY <1>6, <1>7, <1>8, ConvertRefuses

LEMMA RunOfResults ==
  ASSUME NEW d, NEW t, NEW p \in Nat, NEW k \in Nat, k # 0, NEW calls, Listed(calls), Len(calls) = k,
         \A i \in 1..k : t[p + i] = Convert(d, t[p + i - 1], Result(calls[i])), t[p + k].ok,
         NEW turns, Listed(turns), NEW system, NEW names, t[p] = Settled(turns, system, names)
  PROVE  t[p + k] = Merging(Append(turns, Turn("user", ResultBlocks(d, calls, names))), system, names)
<1> DEFINE f == ResultBlocks(d, calls, names)
           First(i) == [j \in 1..i |-> f[j]]
           Then(i) == Merging(Append(turns, Turn("user", First(i))), system, names)
           Bad == {i \in 1..k : t[p + i] # Then(i)}
           ms == [i \in 1..k |-> Result(calls[i])]
<1>1. /\ DOMAIN f = 1..k /\ First(k) = f
      /\ \A i \in 1..k : f[i] = ResultBlock(d, Result(calls[i]), names)
  BY DEF ResultBlocks, Listed
<1>2. \A i \in 1..k : t[p + i] = Convert(d, t[p + i - 1], ms[i]) /\ ms[i] = Result(calls[i])
  OBVIOUS
<1>3. \A i \in 0..k : t[p + i].ok
  <2> HIDE DEF ms
  <2>1. SUFFICES ASSUME NEW i \in 0..k PROVE t[p + i].ok
    OBVIOUS
  <2>2. p \in Nat /\ k \in Nat /\ i \in 0..k /\ t[p + k].ok
    OBVIOUS
  <2>3. Walked(d, t, p, k, ms)
    BY <1>2 DEF Walked
  <2> QED
    BY ONLY <2>2, <2>3, StillOK
<1>4. \A i \in 1..k : Result(calls[i]).role = "tool"
  BY DEF Result
<1> HIDE DEF f, ms
<1>5. SUFFICES ASSUME Bad # {} PROVE FALSE
  <2>1. k \in 1..k
    OBVIOUS
  <2>2. t[p + k] = Then(k)
    BY <1>5, <2>1
  <2> QED
    BY <1>1, <2>2 DEF f
<1>6. PICK i \in Bad : \A j \in Bad : i <= j
  <2> Bad \in SUBSET Nat
    OBVIOUS
  <2> HIDE DEF Bad
  <2> QED
    BY <1>5, LeastOf
<1> DEFINE c == t[p + i - 1]
           m == Result(calls[i])
<1>7. /\ i \in 1..k /\ t[p + i] = Convert(d, c, m) /\ t[p + i].ok /\ m.role = "tool"
      /\ f[i] = ResultBlock(d, m, names)
  <2>1. i \in 1..k /\ i \in 0..k
    BY <1>6
  <2> QED
    BY <1>1, <1>2, <1>3, <1>4, <2>1
<1>8. CASE i = 1
  <2>1. p + i - 1 = p /\ c = Settled(turns, system, names)
    BY <1>8
  <2>2. c.ok = TRUE /\ c.callNames = names
    BY <2>1 DEF Settled
  <2> HIDE DEF c, m, First
  <2>3. t[p + i] = AddResult(c, ResultBlock(d, m, c.callNames))
    BY <1>7, <2>2, ConvertTool
  <2>4. AddResult(c, f[i]) = Merging(Append(turns, Turn("user", <<f[i]>>)), system, names)
    BY <2>1, FirstResult
  <2>5. First(i) = <<f[i]>>
    BY <1>8 DEF First
  <2>6. t[p + i] = Then(i)
    BY <1>7, <2>2, <2>3, <2>4, <2>5
  <2> QED
    BY <1>6, <2>6
<1>9. CASE i # 1
  <2>1. i - 1 \in 1..k /\ i - 1 \notin Bad /\ p + (i - 1) = p + i - 1 /\ i - 1 \in Nat /\ (i - 1) + 1 = i
    BY <1>6, <1>7, <1>9
  <2>2. c = Then(i - 1)
    <3>1. t[p + (i - 1)] = Then(i - 1)
      BY <2>1
    <3> HIDE DEF Then
    <3> QED
      BY <2>1, <3>1
  <2>3. c.ok = TRUE /\ c.callNames = names
    BY <2>2 DEF Merging
  <2> HIDE DEF c, m, First
  <2>4. t[p + i] = AddResult(c, ResultBlock(d, m, c.callNames))
    BY <1>7, <2>3, ConvertTool
  <2>5. AddResult(c, f[i]) = Merging(Append(turns, Turn("user", Append(First(i - 1), f[i]))), system, names)
    BY <2>2, NextResult
  <2>6. First(i) = Append(First(i - 1), f[i])
    <3>1. First((i - 1) + 1) = Append(First(i - 1), f[(i - 1) + 1])
      BY <2>1, FirstGrows DEF First
    <3> QED
      BY <2>1, <3>1
  <2>7. t[p + i] = Then(i)
    BY <1>7, <2>3, <2>4, <2>5, <2>6
  <2> QED
    BY <1>6, <2>7
<1> QED
  BY <1>8, <1>9

-----------------------------------------------------------------------------
(* One turn more, or a turn and its results. *)
LEMMA FollowedOther ==
  ASSUME NEW d, NEW turns, Listed(turns), Followed(d, turns), NEW t, ToolCalls(t.blocks) = <<>>, Results(t) = <<>>
  PROVE  Followed(d, Append(turns, t))
<1> DEFINE r == Append(turns, t)
           n == Len(turns)
<1>1. /\ n \in Nat /\ DOMAIN turns = 1..n /\ DOMAIN r = 1..(n + 1) /\ Len(r) = n + 1 /\ r[n + 1] = t
      /\ \A i \in 1..n : r[i] = turns[i]
  BY ListedAppend
<1> HIDE DEF r, n
<1>2. SUFFICES ASSUME NEW i \in DOMAIN r
               PROVE  /\ ToolCalls(r[i].blocks) # <<>> =>
                            /\ i < Len(r)
                            /\ KeysFor(d, Results(r[i + 1])) = KeysFor(d, ToolCalls(r[i].blocks))
                      /\ (Results(r[i]) # <<>> /\ i > 1) => ToolCalls(r[i - 1].blocks) # <<>>
  BY DEF Followed, r
<1>3. CASE i = n + 1
  BY <1>1, <1>3
<1>4. CASE i # n + 1
  <2>1. i \in 1..n /\ r[i] = turns[i] /\ (i > 1 => i - 1 \in 1..n /\ r[i - 1] = turns[i - 1])
        /\ i < Len(r) /\ (i < n => r[i + 1] = turns[i + 1])
    BY <1>1, <1>4
  <2>2. /\ ToolCalls(turns[i].blocks) # <<>> =>
              i < n /\ KeysFor(d, Results(turns[i + 1])) = KeysFor(d, ToolCalls(turns[i].blocks))
        /\ (Results(turns[i]) # <<>> /\ i > 1) => ToolCalls(turns[i - 1].blocks) # <<>>
    BY <1>1, <2>1 DEF Followed, n
  <2> QED
    BY <2>1, <2>2
<1> QED
  BY <1>3, <1>4

LEMMA FollowedRound ==
  ASSUME NEW d, NEW turns, Listed(turns), Followed(d, turns), NEW a, NEW u,
         ToolCalls(a.blocks) # <<>>, Results(a) = <<>>, ToolCalls(u.blocks) = <<>>,
         KeysFor(d, Results(u)) = KeysFor(d, ToolCalls(a.blocks))
  PROVE  Followed(d, Append(Append(turns, a), u))
<1> DEFINE q == Append(turns, a)
           r == Append(q, u)
           n == Len(turns)
<1>1. /\ n \in Nat /\ DOMAIN turns = 1..n /\ Len(q) = n + 1 /\ q[n + 1] = a /\ Listed(q)
      /\ \A i \in 1..n : q[i] = turns[i]
  BY ListedAppend
<1> HIDE DEF q, n
<1>2. /\ DOMAIN r = 1..(n + 1 + 1) /\ Len(r) = n + 1 + 1 /\ r[n + 1 + 1] = u
      /\ \A i \in 1..(n + 1) : r[i] = q[i]
  <2>1. /\ DOMAIN r = 1..(Len(q) + 1) /\ Len(r) = Len(q) + 1 /\ r[Len(q) + 1] = u
        /\ \A i \in 1..Len(q) : r[i] = q[i]
    BY <1>1, ListedAppend
  <2> QED
    BY <1>1, <2>1
<1> HIDE DEF r
<1>3. r[n + 1] = a /\ r[n + 2] = u /\ Len(r) = n + 2 /\ \A i \in 1..n : r[i] = turns[i]
  BY <1>1, <1>2
<1>4. SUFFICES ASSUME NEW i \in DOMAIN r
               PROVE  /\ ToolCalls(r[i].blocks) # <<>> =>
                            /\ i < Len(r)
                            /\ KeysFor(d, Results(r[i + 1])) = KeysFor(d, ToolCalls(r[i].blocks))
                      /\ (Results(r[i]) # <<>> /\ i > 1) => ToolCalls(r[i - 1].blocks) # <<>>
  BY DEF Followed, r, q
<1>5. CASE i = n + 2
  <2>1. i - 1 = n + 1 /\ r[i] = u
    BY <1>1, <1>3, <1>5
  <2> QED
    BY <1>3, <2>1
<1>6. CASE i = n + 1
  <2>1. i + 1 = n + 2 /\ r[i] = a /\ i < Len(r)
    BY <1>1, <1>3, <1>6
  <2> QED
    BY <1>3, <2>1
<1>7. CASE i \in 1..n
  <2>1. r[i] = turns[i] /\ (i > 1 => i - 1 \in 1..n /\ r[i - 1] = turns[i - 1])
        /\ i < Len(r) /\ (i < n => r[i + 1] = turns[i + 1])
    BY <1>1, <1>3, <1>7
  <2>2. /\ ToolCalls(turns[i].blocks) # <<>> =>
              i < n /\ KeysFor(d, Results(turns[i + 1])) = KeysFor(d, ToolCalls(turns[i].blocks))
        /\ (Results(turns[i]) # <<>> /\ i > 1) => ToolCalls(turns[i - 1].blocks) # <<>>
    BY <1>1, <1>7 DEF Followed, n
  <2> QED
    BY <2>1, <2>2
<1> QED
  <2>1. i = n + 2 \/ i = n + 1 \/ i \in 1..n
    BY <1>1, <1>2
  <2> QED
    BY <1>5, <1>6, <1>7, <2>1

(* The first turn of a trimmed context may hold results without their calls. *)
LEMMA FollowedFirst ==
  ASSUME NEW d, NEW u, ToolCalls(u.blocks) = <<>>
  PROVE  Followed(d, Append(<<>>, u))
<1>1. Append(<<>>, u) = <<u>> /\ DOMAIN <<u>> = {1} /\ <<u>>[1] = u
  OBVIOUS
<1> QED
  BY <1>1 DEF Followed

LEMMA AssistantsOfAppend ==
  ASSUME NEW turns, Listed(turns), NEW t
  PROVE  OfAssistant(Append(turns, t)) =
           IF t.role = "assistant" THEN Append(OfAssistant(turns), t) ELSE OfAssistant(turns)
<1> DEFINE r == Append(turns, t)
           S == Range(turns) \cup {t}
           P == {i \in DOMAIN r : r[i].role = "assistant"}
           Q == {i \in DOMAIN turns : turns[i].role = "assistant"}
<1>1. turns \in Seq(S) /\ t \in S
  BY DEF Listed
<1>2. /\ DOMAIN turns = 1..Len(turns) /\ DOMAIN r = 1..(Len(turns) + 1) /\ r[Len(turns) + 1] = t
      /\ Len(turns) \in Nat /\ \A i \in 1..Len(turns) : r[i] = turns[i]
  BY ListedAppend
<1>3. (\A i \in 1..Len(turns) : i \in P <=> i \in Q) /\ (Len(turns) + 1 \in P <=> t.role = "assistant")
  <2> HIDE DEF r
  <2> QED
    BY <1>2
<1> HIDE DEF P, Q, S
<1>4. Kept(r, P) = IF Len(turns) + 1 \in P THEN Append(Kept(turns, Q), t) ELSE Kept(turns, Q)
  BY <1>1, <1>3, KeptOfAppend
<1> QED
  BY <1>3, <1>4 DEF OfAssistant, P, Q

LEMMA AssistantsListed == ASSUME NEW turns, Listed(turns) PROVE Listed(OfAssistant(turns))
<1> DEFINE P == {i \in DOMAIN turns : turns[i].role = "assistant"}
<1>1. turns \in Seq(Range(turns)) /\ \A i \in 1..Len(turns) : turns[i] \in Range(turns)
  BY DEF Listed
<1> HIDE DEF P
<1>2. Kept(turns, P) \in Seq(Range(turns))
  BY <1>1, KeptTyped
<1> QED
  BY <1>2, ListedSeq DEF OfAssistant, P

LEMMA RepeatsOther ==
  ASSUME NEW turns, Listed(turns), NEW told, Repeats(turns, told), NEW t, t.role # "assistant"
  PROVE  Repeats(Append(turns, t), told)
<1>1. OfAssistant(Append(turns, t)) = OfAssistant(turns)
  BY AssistantsOfAppend
<1> QED
  BY <1>1 DEF Repeats

LEMMA RepeatsAnswer ==
  ASSUME NEW turns, Listed(turns), NEW told, Listed(told), Repeats(turns, told), NEW t, t.role = "assistant",
         NEW meaning, Meaning(t.blocks) = meaning \/ SaidJSON(meaning)
  PROVE  Repeats(Append(turns, t), Append(told, meaning))
<1> DEFINE s == OfAssistant(turns)
           r == Append(s, t)
           more == Append(told, meaning)
           n == Len(told)
<1>1. OfAssistant(Append(turns, t)) = r
  BY AssistantsOfAppend
<1>2. Listed(s) /\ Len(s) = n /\ \A i \in DOMAIN told : Meaning(s[i].blocks) = told[i] \/ SaidJSON(told[i])
  BY AssistantsListed DEF Repeats
<1>3. /\ n \in Nat /\ DOMAIN told = 1..n /\ DOMAIN more = 1..(n + 1) /\ Len(more) = n + 1
      /\ more[n + 1] = meaning /\ \A i \in 1..n : more[i] = told[i]
  BY ListedAppend
<1> HIDE DEF s
<1>4. Len(r) = Len(s) + 1 /\ r[Len(s) + 1] = t /\ \A i \in 1..Len(s) : r[i] = s[i]
  BY <1>2, ListedAppend
<1> HIDE DEF r, more, n
<1>5. Len(r) = Len(more)
  BY <1>2, <1>3, <1>4
<1>6. ASSUME NEW i \in DOMAIN more PROVE Meaning(r[i].blocks) = more[i] \/ SaidJSON(more[i])
  <2>1. CASE i = n + 1
    BY <1>2, <1>3, <1>4, <2>1
  <2>2. CASE i # n + 1
    <3>1. i \in 1..n
      BY <1>3, <2>2
    <3>2. more[i] = told[i] /\ r[i] = s[i]
      BY <1>2, <1>3, <1>4, <3>1
    <3> QED
      BY <1>2, <1>3, <3>1, <3>2
  <2> QED
    BY <2>1, <2>2
<1> QED
  BY <1>1, <1>5, <1>6 DEF Repeats, more

(* What is made of a run of results, and of a remark. *)
LEMMA ResultTurn ==
  ASSUME NEW d, NEW calls, Listed(calls), NEW names
  PROVE  /\ ToolCalls(Turn("user", ResultBlocks(d, calls, names)).blocks) = <<>>
         /\ Results(Turn("user", ResultBlocks(d, calls, names))) = ResultBlocks(d, calls, names)
         /\ Turn("user", ResultBlocks(d, calls, names)).role # "assistant"
<1> DEFINE f == ResultBlocks(d, calls, names)
<1>1. Len(calls) \in Nat /\ DOMAIN f = 1..Len(calls) /\ f = [i \in 1..Len(calls) |-> f[i]]
      /\ \A i \in DOMAIN f : f[i].type = "result"
  BY DEF ResultBlocks, Listed, ResultBlock, Block
<1>2. Turn("user", f).blocks = f /\ Turn("user", f).role = "user"
  BY DEF Turn
<1> HIDE DEF f
<1>3. Listed(f)
  BY <1>1, ListedFunction
<1>4. OfType(f, "call") = <<>>
  <2>1. \A i \in DOMAIN f : f[i].type # "call"
    BY <1>1
  <2> QED
    BY <1>3, <2>1, NoneOfType
<1>5. OfType(f, "result") = f
  BY <1>1, <1>3, AllOfType
<1> QED
  BY <1>2, <1>4, <1>5 DEF f, ToolCalls, Results

LEMMA RemarkTurn ==
  ASSUME NEW kind, kind \notin {"call", "result"}
  PROVE  LET t == Turn("user", contentToBlocks(User(kind).content)) IN
         ToolCalls(t.blocks) = <<>> /\ Results(t) = <<>> /\ t.role # "assistant"
<1> DEFINE bs == contentToBlocks(User(kind).content)
<1>1. User(kind).content = <<Part(kind, 0)>> /\ Part(kind, 0).kind = kind
  BY DEF User, Part
<1>2. DOMAIN <<Part(kind, 0)>> = 1..1 /\ <<Part(kind, 0)>>[1] = Part(kind, 0)
  OBVIOUS
<1>3. DOMAIN bs = 1..1 /\ bs = [i \in 1..1 |-> bs[i]] /\ bs[1].type = kind
  BY <1>1, <1>2 DEF contentToBlocks, Block
<1> HIDE DEF bs
<1>4. Listed(bs)
  BY <1>3, ListedFunction
<1>5. (\A i \in DOMAIN bs : bs[i].type # "call") /\ (\A i \in DOMAIN bs : bs[i].type # "result")
  BY <1>3
<1>6. OfType(bs, "call") = <<>> /\ OfType(bs, "result") = <<>>
  BY <1>4, <1>5, NoneOfType
<1>7. Turn("user", bs).blocks = bs /\ Turn("user", bs).role # "assistant"
  BY DEF Turn
<1> QED
  BY <1>6, <1>7 DEF bs, ToolCalls, Results

LEMMA AnswerTurn ==
  ASSUME NEW d, NEW text \in Words, NEW calls, Listed(calls)
  PROVE  LET t == Turn("assistant", BackBlocks(d, text, calls)) IN
         ToolCalls(t.blocks) = CallBlocks(d, calls) /\ Results(t) = <<>> /\ t.role = "assistant"
BY AssistantBack DEF Turn, Results

(* Each result is keyed as its call. *)
LEMMA KeysMatch ==
  ASSUME NEW d, NEW calls, Listed(calls), SameName(calls), NEW names
  PROVE  KeysFor(d, ResultBlocks(d, calls, NameCalls(names, calls))) = KeysFor(d, CallBlocks(d, calls))
<1> DEFINE newer == NameCalls(names, calls)
           f == ResultBlocks(d, calls, newer)
           cb == CallBlocks(d, calls)
<1>1. DOMAIN f = DOMAIN calls /\ DOMAIN cb = DOMAIN calls
  BY CallBlocksRow DEF ResultBlocks
<1>2. ASSUME NEW i \in DOMAIN calls PROVE KeyFor(d, f[i]) = KeyFor(d, cb[i])
  <2>1. calls[i].id \in DOMAIN newer /\ newer[calls[i].id] = calls[i].name
    BY CallNamed
  <2>2. cb[i].name = calls[i].name /\ (d = "anthropic" => cb[i].id = calls[i].id)
    BY CallBlocksRow
  <2> HIDE DEF newer, cb
  <2>3. f[i] = ResultBlock(d, Result(calls[i]), newer)
    BY DEF ResultBlocks
  <2>4. Result(calls[i]).answers = calls[i].id
    BY DEF Result
  <2>5. ResultName(Result(calls[i]), newer) = calls[i].name
    BY <2>1, <2>4 DEF ResultName
  <2>6. /\ d = "anthropic" => f[i].id = calls[i].id
        /\ d # "anthropic" => f[i].name = calls[i].name
    BY <2>3, <2>4, <2>5 DEF ResultBlock, Block
  <2> QED
    BY <2>2, <2>6 DEF KeyFor
<1> HIDE DEF f, cb, newer
<1>3. KeysFor(d, f) = KeysFor(d, cb)
  BY <1>1, <1>2 DEF KeysFor
<1> QED
  BY <1>3 DEF f, cb, newer

-----------------------------------------------------------------------------
(* What the client sends after an answer, and what is made of it. *)
Remark(remark, calls) == IF remark \/ calls = <<>> THEN <<User("text")>> ELSE <<>>
Rest(calls, remark) == [i \in DOMAIN calls |-> Result(calls[i])] \o Remark(remark, calls)
RemarkedTurn == Turn("user", contentToBlocks(User("text").content))

LEMMA RestListed ==
  ASSUME NEW calls, Listed(calls), NEW remark
  PROVE  /\ Listed(Rest(calls, remark)) /\ Len(calls) \in Nat
         /\ \A i \in 1..Len(calls) : Rest(calls, remark)[i] = Result(calls[i])
         /\ \/ Len(Rest(calls, remark)) = Len(calls) /\ calls # <<>>
            \/ /\ Len(Rest(calls, remark)) = Len(calls) + 1
               /\ Rest(calls, remark)[Len(calls) + 1] = User("text")
<1> DEFINE rs == [i \in DOMAIN calls |-> Result(calls[i])]
           k == Len(calls)
           u == Remark(remark, calls)
<1>1. k \in Nat /\ DOMAIN calls = 1..k /\ (calls # <<>> <=> k # 0)
  BY DEF Listed
<1>2. DOMAIN rs = 1..k /\ rs = [i \in 1..k |-> rs[i]] /\ \A i \in 1..k : rs[i] = Result(calls[i])
  BY <1>1
<1>3. <<>> \in Seq({}) /\ Len(<<>>) = 0 /\ <<User("text")>> \in Seq({User("text")}) /\ Len(<<User("text")>>) = 1
      /\ <<User("text")>>[1] = User("text")
  OBVIOUS
<1>4. Listed(<<>>) /\ Listed(<<User("text")>>)
  BY <1>3, ListedSeq
<1>5. Listed(u) /\ ((Len(u) = 0 /\ calls # <<>>) \/ (Len(u) = 1 /\ u[1] = User("text")))
  BY <1>3, <1>4 DEF Remark
<1>6. Rest(calls, remark) = rs \o u
  BY DEF Rest
<1> HIDE DEF rs, u, k
<1>7. Listed(rs) /\ Len(rs) = k
  BY <1>1, <1>2, ListedFunction
<1>8. /\ Listed(rs \o u) /\ Len(rs \o u) = Len(rs) + Len(u)
      /\ (\A i \in 1..Len(rs) : (rs \o u)[i] = rs[i])
      /\ \A i \in 1..Len(u) : (rs \o u)[Len(rs) + i] = u[i]
  <2>1. Listed(rs) /\ Listed(u)
    BY <1>5, <1>7
  <2> QED
    BY ONLY <2>1, ListedConcat
<1> DEFINE r == rs \o u
<1>9. Listed(r) /\ Len(r) = k + Len(u) /\ (\A i \in 1..k : r[i] = rs[i]) /\ \A i \in 1..Len(u) : r[k + i] = u[i]
  BY <1>7, <1>8
<1> HIDE DEF r
<1>10. (Len(r) = k /\ calls # <<>>) \/ (Len(r) = k + 1 /\ r[k + 1] = User("text"))
  BY <1>1, <1>5, <1>9
<1> QED
  BY <1>1, <1>2, <1>6, <1>9, <1>10 DEF r, k

(* A table of a conversion goes on for some messages, and is sound at the end. *)
Walks(d, t, p, ms) ==
    /\ \A i \in 1..Len(ms) : t[p + i] = Convert(d, t[p + i - 1], ms[i])
    /\ t[p + Len(ms)].ok

(* The turns after the results, before a remark. *)
WithResults(d, turns, calls, names) ==
    IF calls = <<>> THEN turns ELSE Append(turns, Turn("user", ResultBlocks(d, calls, names)))

EndsWith(c, mid) ==
    /\ c = Settled(c.turns, c.system, c.callNames) \/ c = Merging(c.turns, c.system, c.callNames)
    /\ c.turns = mid \/ c.turns = Append(mid, RemarkedTurn)
    /\ Listed(mid)

LEMMA RestConverted ==
  ASSUME NEW d, NEW t, NEW p \in Nat, NEW calls, Listed(calls), NEW remark,
         Walks(d, t, p, Rest(calls, remark)),
         NEW turns, Listed(turns), NEW system, NEW names, t[p] = Settled(turns, system, names)
  PROVE  EndsWith(t[p + Len(Rest(calls, remark))], WithResults(d, turns, calls, names))
<1> DEFINE rest == Rest(calls, remark)
           n == Len(rest)
           k == Len(calls)
           mid == WithResults(d, turns, calls, names)
           c == t[p + n]
<1>1. /\ Listed(rest) /\ k \in Nat /\ \A i \in 1..k : rest[i] = Result(calls[i])
      /\ (n = k /\ calls # <<>>) \/ (n = k + 1 /\ rest[k + 1] = User("text"))
  BY RestListed
<1>2. calls # <<>> <=> k # 0
  BY DEF Listed
<1>3. (\A i \in 1..n : t[p + i] = Convert(d, t[p + i - 1], rest[i])) /\ c.ok
  BY DEF Walks
<1>4. n \in Nat /\ p \in Nat
  BY <1>1
<1> HIDE DEF rest, n, k, c
<1>5. t[p + k].ok
  <2>1. k \in 0..n
    BY <1>1, <1>4
  <2>2. t[p + n].ok
    BY <1>3 DEF c
  <2>3. Walked(d, t, p, n, rest)
    BY <1>3 DEF Walked
  <2> QED
    BY ONLY <1>4, <2>1, <2>2, <2>3, StillOK
<1>6. t[p + k] = Settled(mid, system, names) \/ t[p + k] = Merging(mid, system, names)
  <2>1. CASE calls = <<>>
    BY <1>2, <2>1 DEF WithResults
  <2>2. CASE calls # <<>>
    <3>1. mid = Append(turns, Turn("user", ResultBlocks(d, calls, names)))
      BY <2>2 DEF WithResults
    <3>2. \A i \in 1..k : t[p + i] = Convert(d, t[p + i - 1], Result(calls[i]))
      <4>1. \A i \in 1..k : i \in 1..n
        BY <1>1, <1>4
      <4> QED
        BY <1>1, <1>3, <4>1
    <3>3. k # 0 /\ Len(calls) = k /\ k \in Nat /\ Listed(calls) /\ Listed(turns) /\ t[p] = Settled(turns, system, names)
      BY <1>1, <1>2, <2>2 DEF k
    <3>4. t[p + k] = Merging(Append(turns, Turn("user", ResultBlocks(d, calls, names))), system, names)
      BY ONLY <1>4, <1>5, <3>2, <3>3, RunOfResults
    <3> QED
      BY <3>1, <3>4
  <2> QED
    BY <2>1, <2>2
<1>7. Listed(mid)
  BY ListedAppend DEF WithResults
<1> HIDE DEF mid
<1>8. CASE n = k
  <2>1. c = Settled(mid, system, names) \/ c = Merging(mid, system, names)
    BY <1>6, <1>8 DEF c
  <2>2. c.turns = mid /\ c.system = system /\ c.callNames = names
    BY <2>1 DEF Settled, Merging
  <2>3. c = Settled(c.turns, c.system, c.callNames) \/ c = Merging(c.turns, c.system, c.callNames)
    BY <2>1, <2>2
  <2> QED
    BY <1>7, <2>2, <2>3 DEF c, mid, n, rest, EndsWith
<1>9. CASE n = k + 1 /\ rest[k + 1] = User("text")
  <2>1. c = Convert(d, t[p + k], User("text"))
    <3>1. k + 1 \in 1..n /\ p + (k + 1) - 1 = p + k /\ p + (k + 1) = p + n
      BY <1>1, <1>4, <1>9
    <3>2. t[p + (k + 1)] = Convert(d, t[p + (k + 1) - 1], rest[k + 1])
      BY <1>3, <3>1
    <3> QED
      BY <1>9, <3>1, <3>2 DEF c
  <2>2. t[p + k].ok = TRUE /\ User("text").role = "user"
    BY <1>6 DEF Settled, Merging, User
  <2>3. c = AddTurn(t[p + k], "user", contentToBlocks(User("text").content))
    <3> DEFINE b == t[p + k]
               m == User("text")
    <3>1. Convert(d, b, m).ok /\ b.ok = TRUE /\ m.role = "user" /\ c = Convert(d, b, m)
      BY <1>3, <2>1, <2>2
    <3> HIDE DEF b, m
    <3>2. Convert(d, b, m) = AddTurn(b, "user", contentToBlocks(m.content))
      BY ONLY <3>1, ConvertUser
    <3> QED
      BY <3>1, <3>2 DEF b, m
  <2>4. c = Settled(Append(mid, RemarkedTurn), system, names)
    BY <1>6, <2>3, TurnAdded DEF RemarkedTurn
  <2>5. c.turns = Append(mid, RemarkedTurn) /\ c.system = system /\ c.callNames = names
    BY <2>4 DEF Settled
  <2>6. c = Settled(c.turns, c.system, c.callNames)
    BY <2>4, <2>5
  <2> QED
    BY <1>7, <2>5, <2>6 DEF c, mid, n, rest, EndsWith
<1> QED
  BY <1>1, <1>8, <1>9

LEMMA RestSound ==
  ASSUME NEW d, NEW t, NEW p \in Nat, NEW calls, Listed(calls), NEW remark,
         Walks(d, t, p, Rest(calls, remark)),
         NEW turns, Listed(turns), NEW system, NEW names, t[p] = Settled(turns, system, names), NEW told,
         Followed(d, WithResults(d, turns, calls, names)), Repeats(WithResults(d, turns, calls, names), told)
  PROVE  Sound(d, t[p + Len(Rest(calls, remark))], told)
<1> DEFINE c == t[p + Len(Rest(calls, remark))]
           mid == WithResults(d, turns, calls, names)
<1>1. /\ c = Settled(c.turns, c.system, c.callNames) \/ c = Merging(c.turns, c.system, c.callNames)
      /\ c.turns = mid \/ c.turns = Append(mid, RemarkedTurn)
      /\ Listed(mid)
  <2>1. EndsWith(t[p + Len(Rest(calls, remark))], WithResults(d, turns, calls, names))
    BY RestConverted
  <2> QED
    BY <2>1 DEF EndsWith
<1>2. Followed(d, mid) /\ Repeats(mid, told)
  OBVIOUS
<1> HIDE DEF c, mid
<1>3. ToolCalls(RemarkedTurn.blocks) = <<>> /\ Results(RemarkedTurn) = <<>> /\ RemarkedTurn.role # "assistant"
  BY RemarkTurn DEF RemarkedTurn
<1>4. Followed(d, Append(mid, RemarkedTurn)) /\ Repeats(Append(mid, RemarkedTurn), told)
      /\ Listed(Append(mid, RemarkedTurn))
  BY <1>1, <1>2, <1>3, FollowedOther, RepeatsOther, ListedAppend
<1>5. Listed(c.turns) /\ Followed(d, c.turns) /\ Repeats(c.turns, told)
  BY <1>1, <1>2, <1>4
<1> QED
  BY <1>1, <1>5 DEF Sound, c

-----------------------------------------------------------------------------
(* A conversation that was sound is so after one more answer. *)
LEMMA RoundSound ==
  ASSUME NEW d, NEW ms, Listed(ms), NEW told, Listed(told), Sound(d, Converted(d, ms), told),
         NEW text \in Words, NEW calls, Listed(calls), SameName(calls), NEW remark,
         NEW meaning, Meaning(BackBlocks(d, text, calls)) = meaning \/ SaidJSON(meaning)
  PROVE  Sound(d, Converted(d, Append(ms, Assistant(text, calls)) \o Rest(calls, remark)), Append(told, meaning))
<1> DEFINE a == Assistant(text, calls)
           q == Append(ms, a)
           rest == Rest(calls, remark)
           more == q \o rest
           m == Len(ms)
           n == Len(rest)
<1>1. m \in Nat /\ Listed(q) /\ Len(q) = m + 1 /\ q[m + 1] = a /\ \A i \in 1..m : q[i] = ms[i]
  BY ListedAppend
<1>2. Listed(rest)
  BY RestListed
<1> HIDE DEF a, q, rest
<1>3. /\ Listed(more) /\ n \in Nat /\ Len(more) = Len(q) + n /\ (\A i \in 1..Len(q) : more[i] = q[i])
      /\ \A i \in 1..n : more[Len(q) + i] = rest[i]
  <2>1. Listed(q) /\ Listed(rest)
    BY <1>1, <1>2
  <2> QED
    BY ONLY <2>1, ListedConcat
<1> HIDE DEF more, m, n
<1>4. /\ Len(more) = m + 1 + n /\ (\A i \in 1..m : ms[i] = more[i]) /\ more[m + 1] = a
      /\ \A i \in 1..n : more[m + 1 + i] = rest[i]
  BY <1>1, <1>3
<1>5. PICK t : /\ t[0] = Unconverted /\ t[m] = Converted(d, ms) /\ t[Len(more)] = Converted(d, more)
               /\ \A i \in 1..Len(more) : t[i] = Convert(d, t[i - 1], more[i])
  <2>1. m <= Len(more)
    BY <1>1, <1>3, <1>4
  <2>2. \A i \in 1..Len(ms) : ms[i] = more[i]
    BY <1>4 DEF m
  <2>3. Len(ms) <= Len(more)
    BY <2>1 DEF m
  <2>4. Listed(ms) /\ Listed(more)
    BY <1>3
  <2>5. PICK t : Continued(d, ms, more, t)
    BY ONLY <2>2, <2>3, <2>4, ConvertedOn
  <2> QED
    BY <2>5 DEF m, Continued
<1>6. SUFFICES ASSUME t[m + 1 + n].ok PROVE Sound(d, t[m + 1 + n], Append(told, meaning))
  BY <1>4, <1>5 DEF Sound, more, q, a, rest
<1>7. /\ t[m + 1] = Convert(d, t[m], a)
      /\ \A i \in 1..n : t[m + 1 + i] = Convert(d, t[m + 1 + i - 1], rest[i])
  <2> DEFINE j == m + 1
  <2>1. j \in 1..Len(more) /\ j - 1 = m
    BY <1>1, <1>3, <1>4
  <2>2. t[m + 1] = Convert(d, t[m], more[m + 1])
    <3> HIDE DEF j
    <3>1. t[j] = Convert(d, t[j - 1], more[j])
      BY <1>5, <2>1
    <3>2. t[j] = Convert(d, t[m], more[j])
      BY <2>1, <3>1
    <3> QED
      BY <3>2 DEF j
  <2>3. \A i \in 1..n : m + 1 + i \in 1..Len(more)
    BY <1>1, <1>3, <1>4
  <2> QED
    BY <1>4, <1>5, <2>1, <2>2, <2>3
<1>8. t[m + 1].ok
  <2> DEFINE j == m + 1
  <2>1. j \in Nat /\ n \in Nat /\ 0 \in 0..n /\ j + 0 = j
    BY <1>1, <1>3
  <2>2. Walked(d, t, j, n, rest)
    BY <1>7 DEF Walked
  <2>3. t[j + n].ok
    BY <1>6
  <2> HIDE DEF j
  <2>4. t[j + 0].ok
    BY ONLY <2>1, <2>2, <2>3, StillOK
  <2>5. t[j].ok
    BY <2>1, <2>4
  <2> QED
    BY <2>5 DEF j
<1> DEFINE c == t[m]
           turns == c.turns
           answered == Turn("assistant", BackBlocks(d, text, calls))
           names == NameCalls(c.callNames, calls)
<1>9. c.ok
  <2>1. SUFFICES ASSUME ~c.ok PROVE FALSE
    OBVIOUS
  <2>2. Convert(d, c, a).ok
    BY <1>7, <1>8
  <2> QED
    BY ONLY <2>1, <2>2, ConvertRefuses
<1>10. /\ c = Settled(c.turns, c.system, c.callNames) \/ c = Merging(c.turns, c.system, c.callNames)
       /\ Listed(turns) /\ Followed(d, turns) /\ Repeats(turns, told)
  BY <1>5, <1>9 DEF Sound
<1>11. t[m + 1] = Settled(Append(turns, answered), c.system, names)
  <2>1. c.ok = TRUE
    BY <1>10 DEF Settled, Merging
  <2>2. a.role = "assistant" /\ a.calls = calls
        /\ contentToBlocks(a.content) \o CallBlocks(d, a.calls) = BackBlocks(d, text, calls)
    BY DEF a, Assistant, BackBlocks
  <2>3. Convert(d, c, a).ok
    BY <1>7, <1>8
  <2> HIDE DEF c
  <2>4. Convert(d, c, a) = AddAssistant(d, c, a)
    BY ONLY <2>1, <2>2, <2>3, ConvertAssistant
  <2>5. AddAssistant(d, c, a) =
          Settled(Append(c.turns, Turn("assistant", contentToBlocks(a.content) \o CallBlocks(d, a.calls))),
                  c.system, NameCalls(c.callNames, a.calls))
    BY ONLY <1>10, AssistantTurn
  <2> QED
    BY <1>7, <2>2, <2>4, <2>5 DEF c
<1>12. ToolCalls(answered.blocks) = CallBlocks(d, calls) /\ Results(answered) = <<>> /\ answered.role = "assistant"
       /\ answered.blocks = BackBlocks(d, text, calls)
  BY AnswerTurn DEF Turn
<1> DEFINE with == Append(turns, answered)
           mid == WithResults(d, with, calls, names)
<1> HIDE DEF c, turns, answered
<1>13. Listed(with)
  BY <1>10, ListedAppend
<1>14. Repeats(with, Append(told, meaning))
  <2>1. Meaning(answered.blocks) = meaning \/ SaidJSON(meaning)
    BY <1>12
  <2> QED
    BY <1>10, <1>12, <2>1, RepeatsAnswer
<1>15. Followed(d, mid) /\ Repeats(mid, Append(told, meaning))
  <2>1. CASE calls = <<>>
    <3>1. ToolCalls(answered.blocks) = <<>>
      <4>1. Len(CallBlocks(d, calls)) = 0 /\ Listed(CallBlocks(d, calls))
        <5>1. Len(<<>>) = 0
          OBVIOUS
        <5> QED
          BY <2>1, <5>1, CallBlocksRow
      <4> QED
        BY <1>12, <4>1 DEF Listed
    <3>2. Followed(d, with)
      BY <1>10, <1>12, <3>1, FollowedOther
    <3> QED
      BY <1>14, <2>1, <3>2 DEF WithResults
  <2>2. CASE calls # <<>>
    <3> DEFINE u == Turn("user", ResultBlocks(d, calls, names))
    <3>1. ToolCalls(u.blocks) = <<>> /\ Results(u) = ResultBlocks(d, calls, names) /\ u.role # "assistant"
      BY ResultTurn
    <3>2. mid = Append(with, u)
      BY <2>2 DEF WithResults
    <3>3. KeysFor(d, Results(u)) = KeysFor(d, ToolCalls(answered.blocks))
      <4>1. KeysFor(d, ResultBlocks(d, calls, names)) = KeysFor(d, CallBlocks(d, calls))
        BY KeysMatch
      <4> QED
        BY <1>12, <3>1, <4>1
    <3>4. ToolCalls(answered.blocks) # <<>>
      <4>1. Len(CallBlocks(d, calls)) # 0
        <5>1. Len(calls) # 0
          BY <2>2 DEF Listed
        <5> QED
          BY <5>1, CallBlocksRow
      <4>2. Len(<<>>) = 0
        OBVIOUS
      <4> QED
        BY <1>12, <4>1, <4>2
    <3> HIDE DEF u, mid, names
    <3>5. Followed(d, Append(with, u))
      BY <1>10, <1>12, <3>1, <3>3, <3>4, FollowedRound
    <3> HIDE DEF with
    <3>6. Repeats(Append(with, u), Append(told, meaning))
      BY <1>13, <1>14, <3>1, RepeatsOther
    <3> QED
      BY <3>2, <3>5, <3>6
  <2> QED
    BY <2>1, <2>2
<1>16. Walks(d, t, m + 1, Rest(calls, remark)) /\ Len(Rest(calls, remark)) = n
  BY <1>6, <1>7 DEF Walks, rest, n
<1> HIDE DEF with, names
<1>17. m + 1 \in Nat /\ Listed(calls) /\ t[m + 1] = Settled(with, c.system, names)
  BY <1>1, <1>11 DEF with
<1>18. Sound(d, t[m + 1 + Len(Rest(calls, remark))], Append(told, meaning))
  BY ONLY <1>13, <1>15, <1>16, <1>17, RestSound
<1> QED
  BY <1>16, <1>18

LEMMA NothingSound ==
  ASSUME NEW d
  PROVE  /\ Unconverted = Settled(<<>>, <<>>, << >>) /\ Listed(<<>>) /\ Followed(d, <<>>) /\ Repeats(<<>>, <<>>)
<1>1. <<>> \in Seq({}) /\ DOMAIN <<>> = {} /\ Len(<<>>) = 0
  OBVIOUS
<1>2. Listed(<<>>)
  BY <1>1, ListedSeq
<1>3. OfAssistant(<<>>) = <<>>
  BY KeptOfNone DEF OfAssistant
<1> QED
  BY <1>1, <1>2, <1>3 DEF Unconverted, Settled, Followed, Repeats

(* A trimmed context is sound: nothing was said in it, and its results come first. *)
LEMMA TrimSound ==
  ASSUME NEW d, NEW calls, Listed(calls), calls # <<>>, NEW remark
  PROVE  Sound(d, Converted(d, Rest(calls, remark)), <<>>)
<1> DEFINE rest == Rest(calls, remark)
           n == Len(rest)
<1>1. Listed(rest) /\ n \in Nat
  BY RestListed DEF Listed
<1> HIDE DEF rest, n
<1>2. Listed(<<>>) /\ Len(<<>>) = 0
  BY NothingSound
<1>3. PICK t : /\ t[0] = Unconverted /\ t[n] = Converted(d, rest)
               /\ \A i \in 1..n : t[i] = Convert(d, t[i - 1], rest[i])
  <2>1. Len(<<>>) <= Len(rest) /\ \A i \in 1..Len(<<>>) : <<>>[i] = rest[i]
    BY <1>1, <1>2 DEF n
  <2>2. PICK t : Continued(d, <<>>, rest, t)
    BY ONLY <1>1, <1>2, <2>1, ConvertedOn
  <2> QED
    BY <1>2, <2>2 DEF n, Continued
<1>4. SUFFICES ASSUME t[n].ok PROVE Sound(d, t[n], <<>>)
  BY <1>3 DEF Sound, rest
<1> DEFINE u == Turn("user", ResultBlocks(d, calls, << >>))
           mid == WithResults(d, <<>>, calls, << >>)
<1>5. mid = Append(<<>>, u)
  BY DEF WithResults
<1>6. ToolCalls(u.blocks) = <<>> /\ u.role # "assistant"
  BY ResultTurn
<1>7. Followed(d, mid) /\ Repeats(mid, <<>>)
  <2> HIDE DEF u, mid
  <2> QED
    BY <1>5, <1>6, FollowedFirst, NothingSound, RepeatsOther
<1>8. 0 \in Nat /\ Walks(d, t, 0, Rest(calls, remark)) /\ t[0] = Settled(<<>>, <<>>, << >>) /\ Listed(<<>>)
  <2>1. 0 \in Nat /\ 0 + n = n /\ \A i \in 1..n : 0 + i = i
    BY <1>1
  <2>2. Walks(d, t, 0, rest)
    BY <1>3, <1>4, <2>1 DEF Walks, n
  <2> QED
    BY <1>3, <2>1, <2>2, NothingSound DEF rest
<1>9. Listed(calls) /\ Followed(d, WithResults(d, <<>>, calls, << >>)) /\ Repeats(WithResults(d, <<>>, calls, << >>), <<>>)
  BY <1>7
<1>10. Sound(d, t[0 + Len(Rest(calls, remark))], <<>>)
  BY ONLY <1>8, <1>9, RestSound
<1>11. 0 + Len(Rest(calls, remark)) = n
  BY <1>1 DEF n, rest
<1> QED
  BY <1>10, <1>11

-----------------------------------------------------------------------------
(* How a conversation begins. *)
LEMMA OneMoreMessage ==
  ASSUME NEW d, NEW ms, Listed(ms), NEW m
  PROVE  Converted(d, Append(ms, m)) = Convert(d, Converted(d, ms), m)
<1> DEFINE more == Append(ms, m)
           n == Len(ms)
<1>1. Listed(more) /\ n \in Nat /\ Len(more) = n + 1 /\ more[n + 1] = m /\ \A i \in 1..n : more[i] = ms[i]
  BY ListedAppend
<1> HIDE DEF more, n
<1>2. Listed(ms) /\ Len(ms) <= Len(more) /\ \A i \in 1..Len(ms) : ms[i] = more[i]
  BY <1>1 DEF n
<1>3. PICK t : Continued(d, ms, more, t)
  BY ONLY <1>1, <1>2, ConvertedOn
<1> DEFINE j == n + 1
<1>4. j \in 1..Len(more) /\ j - 1 = n /\ j = Len(more)
  BY <1>1
<1> HIDE DEF j
<1>5. t[j] = Convert(d, t[j - 1], more[j])
  BY <1>3, <1>4 DEF Continued
<1>6. t[j] = Converted(d, more) /\ t[j - 1] = Converted(d, ms) /\ more[j] = m
  BY <1>1, <1>3, <1>4 DEF n, j, Continued
<1> QED
  BY <1>5, <1>6 DEF more

LEMMA SystemSaid ==
  ASSUME NEW turns, NEW system, NEW names, NEW content
  PROVE  \E more : AddSystem(Settled(turns, system, names), content) = Settled(turns, more, names)
<1> DEFINE c == Settled(turns, system, names)
           more == IF TextOf(content) = <<>> THEN system ELSE Append(system, TextOf(content))
           u == [c EXCEPT !.merging = FALSE, !.system = more]
           v == Settled(turns, more, names)
<1>1. /\ DOMAIN c = Fields /\ c["ok"] = TRUE /\ c["turns"] = turns /\ c["callNames"] = names
      /\ c.system = system
  BY DEF Settled, Fields
<1>2. /\ Shaped(v) /\ v["ok"] = TRUE /\ v["turns"] = turns /\ v["system"] = more /\ v["merging"] = FALSE
      /\ v["callNames"] = names
  BY DEF Settled, Fields, Shaped
<1>3. AddSystem(c, content) = u
  BY <1>1 DEF AddSystem
<1> HIDE DEF c, v, more
<1>4. u = [f \in DOMAIN c |-> IF f = "merging" THEN FALSE ELSE IF f = "system" THEN more ELSE c[f]]
  BY <1>1 DEF Fields
<1> HIDE DEF u
<1>5. Shaped(u) /\ \A f \in Fields : u[f] = v[f]
  BY <1>1, <1>2, <1>4 DEF Fields, Shaped
<1>6. u = v
  BY <1>2, <1>5 DEF Shaped
<1> QED
  BY <1>3, <1>6 DEF v, c

LEMMA ConvertSystem ==
  ASSUME NEW d, NEW c, NEW m, Convert(d, c, m).ok, c.ok = TRUE, m.role = "system"
  PROVE  Convert(d, c, m) = AddSystem(c, m.content)
BY DEF Convert, Refused, MessageOK

LEMMA OpeningSound ==
  ASSUME NEW d, NEW system, NEW names, NEW kind, kind \notin {"call", "result"}
  PROVE  Sound(d, Convert(d, Settled(<<>>, system, names), User(kind)), <<>>)
<1> DEFINE b == Settled(<<>>, system, names)
           m == User(kind)
           t == Turn("user", contentToBlocks(m.content))
           c == Convert(d, b, m)
<1>1. SUFFICES ASSUME c.ok PROVE Sound(d, c, <<>>)
  BY DEF Sound
<1>2. c.ok /\ b.ok = TRUE /\ m.role = "user"
  BY <1>1 DEF Settled, User
<1>3. ToolCalls(t.blocks) = <<>> /\ Results(t) = <<>> /\ t.role # "assistant"
  BY RemarkTurn
<1>4. c = AddTurn(b, "user", contentToBlocks(m.content))
  <2> HIDE DEF b, m
  <2> QED
    BY ONLY <1>2, ConvertUser
<1> HIDE DEF m
<1>5. c = Settled(Append(<<>>, t), system, names)
  <2> DEFINE blocks == contentToBlocks(m.content)
             none == <<>>
  <2>1. b = Settled(none, system, names) \/ b = Merging(none, system, names)
    OBVIOUS
  <2> HIDE DEF b, c, blocks, none
  <2>2. AddTurn(b, "user", blocks) = Settled(Append(none, Turn("user", blocks)), system, names)
    BY ONLY <2>1, TurnAdded
  <2> QED
    BY <1>4, <2>2 DEF blocks, none
<1> HIDE DEF c, t
<1>6. c.turns = Append(<<>>, t) /\ c = Settled(c.turns, c.system, c.callNames)
  BY <1>5 DEF Settled
<1>7. Listed(Append(<<>>, t)) /\ Followed(d, Append(<<>>, t)) /\ Repeats(Append(<<>>, t), <<>>)
  BY <1>3, NothingSound, ListedAppend, FollowedOther, RepeatsOther
<1> QED
  BY <1>6, <1>7 DEF Sound

Openings == {<<User(kind)>> : kind \in {"text", "data", "url", "audio"}}
            \cup {<<[User("text") EXCEPT !.role = "system"], User("text")>>}

LEMMA OpeningsSound ==
  ASSUME NEW d, NEW ms \in Openings
  PROVE  Listed(ms) /\ Sound(d, Converted(d, ms), <<>>)
<1>1. Listed(<<>>) /\ Converted(d, <<>>) = Settled(<<>>, <<>>, << >>)
  BY NothingSound, NoneConverted
<1>2. CASE ms \in {<<User(kind)>> : kind \in {"text", "data", "url", "audio"}}
  <2>1. PICK kind \in {"text", "data", "url", "audio"} : ms = <<User(kind)>>
    BY <1>2
  <2>2. ms = Append(<<>>, User(kind))
    BY <2>1
  <2>3. Listed(ms)
    BY <1>1, <2>2, ListedAppend
  <2>4. Converted(d, ms) = Convert(d, Settled(<<>>, <<>>, << >>), User(kind))
    <3>1. Converted(d, Append(<<>>, User(kind))) = Convert(d, Converted(d, <<>>), User(kind))
      BY <1>1, OneMoreMessage
    <3> QED
      BY <1>1, <2>2, <3>1
  <2>5. kind \notin {"call", "result"}
    BY <2>1
  <2>6. Sound(d, Convert(d, Settled(<<>>, <<>>, << >>), User(kind)), <<>>)
    BY <2>5, OpeningSound
  <2> QED
    BY <2>3, <2>4, <2>6
<1>3. CASE ms = <<[User("text") EXCEPT !.role = "system"], User("text")>>
  <2> DEFINE s == [User("text") EXCEPT !.role = "system"]
             one == Append(<<>>, s)
             c == Converted(d, one)
  <2>1. ms = Append(one, User("text"))
    BY <1>3
  <2>2. s.role = "system"
    BY DEF User
  <2> HIDE DEF s
  <2>3. Listed(one) /\ c = Convert(d, Settled(<<>>, <<>>, << >>), s)
    <3>1. Converted(d, Append(<<>>, s)) = Convert(d, Converted(d, <<>>), s)
      BY <1>1, OneMoreMessage
    <3>2. Listed(Append(<<>>, s))
      BY <1>1, ListedAppend
    <3> QED
      BY <1>1, <3>1, <3>2
  <2> HIDE DEF one, c
  <2>4. Listed(ms) /\ Converted(d, ms) = Convert(d, c, User("text"))
    BY <2>1, <2>3, ListedAppend, OneMoreMessage DEF c
  <2>5. SUFFICES ASSUME Converted(d, ms).ok PROVE Sound(d, Converted(d, ms), <<>>)
    BY <2>4 DEF Sound
  <2>6. c.ok
    <3>1. SUFFICES ASSUME ~c.ok PROVE FALSE
      OBVIOUS
    <3>2. Convert(d, c, User("text")).ok
      BY <2>4, <2>5
    <3> QED
      BY ONLY <3>1, <3>2, ConvertRefuses
  <2>7. \E more : c = Settled(<<>>, more, << >>)
    <3> DEFINE b == Settled(<<>>, <<>>, << >>)
    <3>1. Convert(d, b, s).ok /\ b.ok = TRUE /\ s.role = "system"
      BY <2>2, <2>3, <2>6 DEF Settled
    <3>2. \E more : AddSystem(b, s.content) = Settled(<<>>, more, << >>)
      BY SystemSaid
    <3> HIDE DEF b
    <3>3. Convert(d, b, s) = AddSystem(b, s.content)
      BY ONLY <3>1, ConvertSystem
    <3> QED
      BY <2>3, <3>2, <3>3 DEF b
  <2>8. PICK more : c = Settled(<<>>, more, << >>)
    BY <2>7
  <2>9. Sound(d, Convert(d, Settled(<<>>, more, << >>), User("text")), <<>>)
    BY OpeningSound
  <2> QED
    BY <2>4, <2>8, <2>9
<1> QED
  BY <1>2, <1>3 DEF Openings

-----------------------------------------------------------------------------
(* What the client understood of an answer, and gives back. *)
LEMMA KeptSome ==
  ASSUME NEW S, NEW s \in Seq(S), NEW P, NEW x \in 1..Len(s), x \in P
  PROVE  Kept(s, P) # <<>>
<1> DEFINE n == Len(s)
           t == KeptSoFar(s, P, n)
           Fits(i) == t[i] \in Seq(S) /\ (x <= i => Len(t[i]) # 0)
           Bad == {i \in 0..n : ~Fits(i)}
<1>1. n \in Nat /\ Kept(s, P) = t[n] /\ x \in 1..n /\ \A i \in 1..n : s[i] \in S
  BY KeptByTable DEF KeptSoFar
<1>2. KeptTable(s, P, n, t)
  BY <1>1, KeptTableExists
<1> HIDE DEF n, t
<1>3. SUFFICES ASSUME Bad # {} PROVE FALSE
  <2>1. SUFFICES Fits(n)
    BY <1>1
  <2> QED
    BY <1>1, <1>3
<1>4. PICK i \in Bad : \A j \in Bad : i <= j
  <2> Bad \in SUBSET Nat
    BY <1>1
  <2> HIDE DEF Bad
  <2> QED
    BY <1>3, LeastOf
<1>5. CASE i = 0
  <2>1. t[0] = <<>>
    BY <1>1, <1>2 DEF KeptTable
  <2>2. <<>> \in Seq(S)
    OBVIOUS
  <2>3. t[i] \in Seq(S) /\ ~(x <= i)
    BY <1>1, <1>5, <2>1, <2>2
  <2> QED
    BY <2>3
<1>6. CASE i # 0
  <2>1. i - 1 \in 0..n /\ i - 1 \notin Bad /\ i \in 1..n /\ i \in 0..n
    BY <1>1, <1>4, <1>6
  <2>2. Fits(i - 1) /\ s[i] \in S
    BY <1>1, <2>1
  <2>3. t[i] = IF i \in P THEN Append(t[i - 1], s[i]) ELSE t[i - 1]
    BY <1>2, <1>6, <2>1 DEF KeptTable
  <2> DEFINE before == t[i - 1]
             now == t[i]
             e == s[i]
  <2>4. (i \in P /\ now = Append(before, e)) \/ (i \notin P /\ now = before)
    BY <2>3
  <2>5. before \in Seq(S) /\ (x <= i - 1 => Len(before) # 0) /\ e \in S
    BY <2>2
  <2>6. i # x => (x <= i => x <= i - 1)
    BY <1>1, <2>1
  <2> HIDE DEF before, now, e
  <2>7. Append(before, e) \in Seq(S) /\ Len(Append(before, e)) = Len(before) + 1 /\ Len(before) \in Nat
    BY <2>5, AppendProperties
  <2>8. now \in Seq(S)
    BY <2>4, <2>5, <2>7
  <2>9. x <= i => Len(now) # 0
    <3>1. CASE i \in P
      <4>1. Len(now) = Len(before) + 1
        BY <2>4, <2>7, <3>1
      <4> QED
        BY <2>7, <4>1
    <3>2. CASE i \notin P
      BY <2>4, <2>5, <2>6, <3>2
    <3> QED
      BY <3>1, <3>2
  <2> QED
    BY <2>8, <2>9 DEF now
<1> QED
  BY <1>5, <1>6

CalledOf(blocks) == {b \in Range(blocks) : b.type = "call"}

LEMMA CalledTyped ==
  ASSUME NEW blocks \in Seq(AnswerBlock)
  PROVE  ToolCalls(blocks) \in Seq(CalledOf(blocks))
<1> DEFINE S == Range(blocks)
<1>1. blocks \in Seq(S)
  BY ListedSeq DEF Listed
<1> HIDE DEF S
<1>2. OfType(blocks, "call") \in Seq({b \in S : b.type = "call"})
  BY <1>1, OfTypeTyped
<1> QED
  BY <1>2 DEF ToolCalls, CalledOf, S

LEMMA ThirdOfThree == ASSUME NEW a, NEW b, NEW c, NEW e, <<a, b, c>> = <<a, b, e>> PROVE c = e
OBVIOUS

(* An id names one function. *)
LEMMA OneNameAnId ==
  ASSUME NEW blocks \in Seq(AnswerBlock), NEW n, Numbered(blocks, n), NEW s \in Seq(CalledOf(blocks)),
         NEW i \in DOMAIN s, NEW j \in DOMAIN s, s[i].id = s[j].id
  PROVE  s[i].name = s[j].name
<1>1. s[i] \in CalledOf(blocks) /\ s[j] \in CalledOf(blocks)
  OBVIOUS
<1>2. DOMAIN blocks = 1..Len(blocks) /\ Len(blocks) \in Nat
  OBVIOUS
<1>3. PICK x \in DOMAIN blocks : s[i] = blocks[x] /\ blocks[x].type = "call"
  BY <1>1 DEF CalledOf, Range
<1>4. PICK y \in DOMAIN blocks : s[j] = blocks[y] /\ blocks[y].type = "call"
  BY <1>1 DEF CalledOf, Range
<1>5. <<"toolu", n, x - 1>> = <<"toolu", n, y - 1>>
  BY <1>3, <1>4 DEF Numbered
<1> DEFINE p == x - 1
           q == y - 1
<1>6. p = q
  <2> HIDE DEF p, q
  <2>1. <<"toolu", n, p>> = <<"toolu", n, q>>
    BY <1>5 DEF p, q
  <2> QED
    BY ONLY <2>1, ThirdOfThree
<1>7. x = y
  BY <1>2, <1>6
<1> QED
  BY <1>3, <1>4, <1>7

(* Calls kept under their indices, put in order again. *)
LEMMA InOrder ==
  ASSUME NEW g, NEW calls, Listed(calls), g.calls = ZeroBased(calls)
  PROVE  CallsInOrder(g) = calls
<1> DEFINE n == Len(calls)
<1>1. n \in Nat /\ DOMAIN calls = 1..n /\ calls = [i \in 1..n |-> calls[i]]
  BY DEF Listed
<1>2. DOMAIN g.calls = 0..(n - 1)
  BY DEF ZeroBased
<1>3. Cardinality(0..(n - 1)) = n
  <2>1. 0 \in Int /\ n - 1 \in Int
    BY <1>1
  <2>2. Cardinality(0..(n - 1)) = IF 0 > n - 1 THEN 0 ELSE (n - 1) - 0 + 1
    <3> DEFINE k == n - 1
    <3> HIDE DEF k
    <3>1. k \in Int
      BY <2>1 DEF k
    <3>2. Cardinality(0..k) = IF 0 > k THEN 0 ELSE k - 0 + 1
      BY <3>1, FS_Interval
    <3> QED
      BY <3>2 DEF k
  <2> QED
    BY <1>1, <2>2
<1>4. \A i \in 1..n : g.calls[i - 1] = calls[i]
  <2> TAKE i \in 1..n
  <2>1. i - 1 \in 0..(n - 1) /\ (i - 1) + 1 = i
    BY <1>1
  <2> QED
    BY <2>1 DEF ZeroBased
<1>5. CallsInOrder(g) = [i \in 1..n |-> g.calls[i - 1]]
  BY <1>2, <1>3 DEF CallsInOrder
<1> QED
  BY <1>1, <1>4, <1>5

(* The calls of an answer, their arguments as far as a whole object goes. *)
Relayed(calls, named) ==
    /\ DOMAIN calls = DOMAIN named
    /\ \A i \in DOMAIN named :
          /\ calls[i].name = named[i].name
          /\ argumentsToObject(calls[i].args) = argumentsToObject(named[i].input)

LEMMA SameMeaning ==
  ASSUME NEW d, NEW blocks \in Seq(AnswerBlock), NEW calls, Listed(calls), Relayed(calls, ToolCalls(blocks)),
         Texts(blocks) \in Words
  PROVE  Meaning(BackBlocks(d, Texts(blocks), calls)) = Meaning(blocks)
<1> DEFINE named == ToolCalls(blocks)
           text == Texts(blocks)
<1> HIDE DEF named, text
<1>1. Meaning(blocks) = [text |-> text, calls |-> [i \in DOMAIN named |-> <<named[i].name, argumentsToObject(named[i].input)>>]]
  BY DEF Meaning, named, text
<1>2. Meaning(BackBlocks(d, text, calls)) =
        [text |-> text, calls |-> [i \in DOMAIN calls |-> <<calls[i].name, argumentsToObject(calls[i].args)>>]]
  BY MeaningBack DEF text
<1>3. Relayed(calls, named)
  BY DEF named
<1>4. [i \in DOMAIN calls |-> <<calls[i].name, argumentsToObject(calls[i].args)>>]
        = [i \in DOMAIN named |-> <<named[i].name, argumentsToObject(named[i].input)>>]
  BY <1>3 DEF Relayed
<1> QED
  BY <1>1, <1>2, <1>4 DEF text

(* What a client makes of an answer. *)
Understood(g, blocks) ==
    \E calls :
       /\ Listed(calls) /\ SameName(calls) /\ g.calls = ZeroBased(calls) /\ g.text \in Words
       /\ \/ g.text = Texts(blocks) /\ Relayed(calls, ToolCalls(blocks))
          \/ SaidJSON(Meaning(blocks))

LEMMA TextsTyped == ASSUME NEW blocks \in Seq(AnswerBlock) PROVE Texts(blocks) \in Words
<1>1. \A b \in AnswerBlock : b.text \in Words
  BY DEF AnswerBlock
<1> QED
  <2> DEFINE b == Block("text", <<>>, NoID, NoName, <<>>)
  <2>1. b \in AnswerBlock
    BY DEF AnswerBlock, Block, Words, Ids, Names
  <2> HIDE DEF b
  <2> QED
    BY <1>1, <2>1, TextsOfAppend

LEMMA ArgumentsBack == ASSUME NEW x PROVE argumentsToObject(toolArguments(x)) = argumentsToObject(x)
BY DEF argumentsToObject, toolArguments

(* The calls as a stream tells them. *)
LEMMA StreamUnderstood ==
  ASSUME NEW d \in Dialects, NEW blocks \in Seq(AnswerBlock), NEW n, d = "anthropic" => Numbered(blocks, n), NEW g,
         g.text = Texts(blocks), g.calls = ToldCalls(d, ToolCalls(blocks))
  PROVE  Understood(g, blocks)
<1> DEFINE named == ToolCalls(blocks)
           m == Len(named)
           calls == [i \in 1..m |-> ToldCall(d, named, i)]
<1>1. named \in Seq(AnswerBlock) /\ m \in Nat /\ DOMAIN named = 1..m /\ named \in Seq(CalledOf(blocks))
  BY CallsTyped, CalledTyped
<1> HIDE DEF named, m
<1>2. /\ DOMAIN calls = 1..m /\ \A i \in DOMAIN named : calls[i] = ToldCall(d, named, i)
      /\ calls = [i \in 1..m |-> calls[i]]
  BY <1>1
<1> HIDE DEF calls
<1>3. Listed(calls)
  BY <1>1, <1>2, ListedFunction
<1>4. ZeroBased(calls) = ToldCalls(d, named)
  BY <1>1, <1>2, <1>3, CallsZeroBased DEF Listed
<1>5. \A i \in DOMAIN named :
         /\ calls[i].name = named[i].name
         /\ argumentsToObject(calls[i].args) = argumentsToObject(named[i].input)
         /\ calls[i].id = IF d = "anthropic" THEN named[i].id ELSE <<"call", i - 1, named[i].name>>
  <2> TAKE i \in DOMAIN named
  <2> DEFINE b == named[i]
             call == ToldCall(d, named, i)
  <2>1. calls[i] = call
    BY <1>2
  <2>2. call = Call(IF d = "anthropic" THEN b.id ELSE <<"call", i - 1, b.name>>, b.name,
                    IF d = "anthropic" THEN b.input ELSE toolArguments(b.input))
    BY DEF ToldCall, geminiCallID
  <2> HIDE DEF call, b
  <2>3. /\ call.name = b.name /\ call.id = IF d = "anthropic" THEN b.id ELSE <<"call", i - 1, b.name>>
        /\ call.args = IF d = "anthropic" THEN b.input ELSE toolArguments(b.input)
    BY <2>2 DEF Call
  <2>4. argumentsToObject(call.args) = argumentsToObject(b.input)
    BY <2>3, ArgumentsBack
  <2> QED
    BY <2>1, <2>3, <2>4 DEF b
<1>6. Relayed(calls, named)
  BY <1>1, <1>2, <1>5 DEF Relayed
<1>7. SameName(calls)
  <2> SUFFICES ASSUME NEW i \in DOMAIN named, NEW j \in DOMAIN named, calls[i].id = calls[j].id
               PROVE  named[i].name = named[j].name
    <3>1. \A i \in DOMAIN calls : i \in DOMAIN named /\ calls[i].name = named[i].name
      BY <1>1, <1>2, <1>5
    <3> QED
      BY <3>1 DEF SameName
  <2>1. CASE d = "anthropic"
    <3>1. named[i].id = named[j].id
      BY <1>5, <2>1
    <3>2. Numbered(blocks, n)
      BY <2>1
    <3> QED
      BY <1>1, <3>1, <3>2, OneNameAnId
  <2>2. CASE d # "anthropic"
    <3>1. <<"call", i - 1, named[i].name>> = <<"call", j - 1, named[j].name>>
      BY <1>5, <2>2
    <3> QED
      BY <3>1
  <2> QED
    BY <2>1, <2>2
<1>8. g.text \in Words
  BY TextsTyped
<1> QED
  BY <1>3, <1>4, <1>6, <1>7, <1>8 DEF Understood, named

(* A whole answer of Anthropic, with the synthetic tool or without. *)
LEMMA WholeUnderstood ==
  ASSUME NEW blocks \in Seq(AnswerBlock), NEW reason, NEW n, Numbered(blocks, n), NEW g,
         g.text = AnthropicToOpenAI(blocks, reason).text,
         g.calls = ZeroBased(AnthropicToOpenAI(blocks, reason).calls)
  PROVE  Understood(g, blocks)
<1> DEFINE all == ToolCalls(blocks)
           Js == {i \in DOMAIN all : all[i].name = JSONTool}
           Rs == {i \in DOMAIN all : all[i].name # JSONTool}
           synthetic == Kept(all, Js)
           real == Kept(all, Rs)
           calls == [i \in DOMAIN real |-> Call(real[i].id, real[i].name, toolArguments(real[i].input))]
           w == AnthropicToOpenAI(blocks, reason)
<1>1. w = IF synthetic # <<>>
          THEN Message(toolArguments(Last(synthetic).input), calls, "stop")
          ELSE Message(Texts(blocks), calls, finishReason(reason))
  BY DEF AnthropicToOpenAI
<1>2. g.text = w.text /\ g.calls = ZeroBased(w.calls)
  OBVIOUS
<1> HIDE DEF w
<1>3. all \in Seq(AnswerBlock) /\ all \in Seq(CalledOf(blocks)) /\ DOMAIN all = 1..Len(all) /\ Len(all) \in Nat
  BY CallsTyped, CalledTyped
<1>4. \A b \in CalledOf(blocks) : b.input \in Words
  <2>1. \A x \in DOMAIN blocks : blocks[x] \in AnswerBlock
    OBVIOUS
  <2> QED
    BY <2>1 DEF CalledOf, Range, AnswerBlock
<1> HIDE DEF all
<1>5. real \in Seq(CalledOf(blocks))
  <2>1. \A i \in 1..Len(all) : i \in Rs => all[i] \in CalledOf(blocks)
    BY <1>3
  <2> HIDE DEF Rs
  <2> QED
    BY <1>3, <2>1, KeptTyped
<1>6. synthetic \in Seq({b \in CalledOf(blocks) : b.name = JSONTool})
  <2> DEFINE S == {b \in CalledOf(blocks) : b.name = JSONTool}
  <2>1. \A i \in 1..Len(all) : i \in Js => all[i] \in S
    BY <1>3
  <2> HIDE DEF Js, S
  <2> QED
    BY <1>3, <2>1, KeptTyped DEF S
<1>7. w.calls = calls /\ w.text = IF synthetic # <<>> THEN toolArguments(Last(synthetic).input) ELSE Texts(blocks)
  BY <1>1 DEF Message
<1>8. /\ Len(real) \in Nat /\ DOMAIN real = 1..Len(real) /\ DOMAIN calls = 1..Len(real)
      /\ calls = [i \in 1..Len(real) |-> calls[i]]
      /\ \A i \in DOMAIN real : /\ calls[i].name = real[i].name /\ calls[i].id = real[i].id
                                /\ argumentsToObject(calls[i].args) = argumentsToObject(real[i].input)
  <2> HIDE DEF real
  <2>1. Len(real) \in Nat /\ DOMAIN real = 1..Len(real)
    BY <1>5
  <2>2. DOMAIN calls = 1..Len(real) /\ calls = [i \in 1..Len(real) |-> calls[i]]
    BY <2>1
  <2> QED
    BY <2>1, <2>2, ArgumentsBack DEF Call
<1> HIDE DEF real, calls
<1>9. Listed(calls)
  BY <1>8, ListedFunction
<1>10. SameName(calls)
  <2> SUFFICES ASSUME NEW i \in DOMAIN real, NEW j \in DOMAIN real, real[i].id = real[j].id
               PROVE  real[i].name = real[j].name
    BY <1>8 DEF SameName
  <2> QED
    BY <1>5, OneNameAnId
<1>11. CASE synthetic = <<>>
  <2>1. Js = {}
    <3>1. SUFFICES ASSUME NEW i \in Js PROVE FALSE
      OBVIOUS
    <3>2. i \in 1..Len(all)
      BY <1>3
    <3> HIDE DEF Js
    <3> QED
      BY <1>3, <1>11, <3>1, <3>2, KeptSome
  <2>2. \A i \in 1..Len(all) : i \in Rs
    BY <1>3, <2>1
  <2>3. real = all
    <3> HIDE DEF Rs
    <3> QED
      BY <1>3, <2>2, KeptAll DEF real
  <2>4. Relayed(calls, all)
    BY <1>8, <2>3 DEF Relayed
  <2>5. w.text = Texts(blocks) /\ Texts(blocks) \in Words
    BY <1>7, <1>11, TextsTyped
  <2> QED
    BY <1>2, <1>7, <1>9, <1>10, <2>4, <2>5 DEF Understood, all
<1>12. CASE synthetic # <<>>
  <2>1. Last(synthetic) \in CalledOf(blocks)
    <3> HIDE DEF synthetic
    <3> QED
      BY <1>6, <1>12 DEF Last
  <2>2. w.text \in Words
    BY <1>4, <1>7, <1>12, <2>1 DEF toolArguments, EmptyObject, Words
  <2>3. SaidJSON(Meaning(blocks))
    <3>1. PICK i \in DOMAIN all : all[i].name = JSONTool
      <4>1. Js # {}
        <5>1. SUFFICES ASSUME Js = {} PROVE FALSE
          OBVIOUS
        <5>2. \A i \in 1..Len(all) : i \notin Js
          BY <5>1
        <5> HIDE DEF Js
        <5> QED
          BY <1>3, <1>12, <5>2, KeptNothing
      <4> QED
        BY <4>1
    <3> DEFINE said1 == Meaning(blocks).calls
               args == argumentsToObject(all[i].input)
    <3>2. said1 = [j \in DOMAIN all |-> <<all[j].name, argumentsToObject(all[j].input)>>]
      BY DEF Meaning, all
    <3> HIDE DEF said1, args
    <3>3. i \in DOMAIN said1 /\ said1[i] = <<JSONTool, args>>
      BY <3>1, <3>2 DEF args
    <3>4. said1[i][1] = JSONTool
      BY ONLY <3>3, FirstOfTwo
    <3> QED
      BY <3>3, <3>4 DEF SaidJSON, said1
  <2> QED
    BY <1>2, <1>7, <1>9, <1>10, <2>2, <2>3 DEF Understood
<1> QED
  BY <1>11, <1>12

(* The answer as it stands when the client goes on. *)
LEMMA AnswerUnderstood == ASSUME DialogueInv, IdsInv, phase = "answered" PROVE Understood(got, answer.blocks)
<1> DEFINE d == asked.dialect
           blocks == answer.blocks
<1>1. blocks \in Seq(AnswerBlock) /\ d \in Dialects /\ asked.stream \in BOOLEAN
  BY DEF DialogueInv, AnswerInv, ControlInv
<1>2. d = "anthropic" => Numbered(blocks, turn)
  BY DEF IdsInv
<1>3. CASE asked.stream
  <2>1. StreamMatches
    BY <1>3 DEF DialogueInv, ToldInv
  <2>2. got.text = Texts(blocks) /\ got.calls = ToldCalls(d, ToolCalls(blocks))
    BY <2>1 DEF StreamMatches
  <2> HIDE DEF d, blocks
  <2>3. Understood(got, blocks)
    BY <1>1, <1>2, <2>2, StreamUnderstood
  <2> QED
    BY <2>3 DEF blocks
<1>4. CASE ~asked.stream
  <2> DEFINE w == Whole
             reason == answer.reason
  <2>1. got = [role |-> TRUE, text |-> Whole.text, calls |-> ZeroBased(Whole.calls), finish |-> Whole.finish, done |-> TRUE]
    BY <1>4 DEF DialogueInv, ToldInv
  <2>2. reason \in Reasons(d)
    BY <1>4 DEF DialogueInv, AnswerInv
  <2> HIDE DEF w
  <2>3. got.text = w.text /\ got.calls = ZeroBased(w.calls)
    BY <2>1 DEF w
  <2>4. CASE d = "anthropic"
    <3>1. w = AnthropicToOpenAI(blocks, reason)
      BY <2>4 DEF w, Whole, Asking
    <3> HIDE DEF blocks, reason
    <3>2. /\ got.text = AnthropicToOpenAI(blocks, reason).text
          /\ got.calls = ZeroBased(AnthropicToOpenAI(blocks, reason).calls)
      BY <2>3, <3>1
    <3>3. Understood(got, blocks)
      BY <1>1, <1>2, <2>4, <3>2, WholeUnderstood
    <3> QED
      BY <3>3 DEF blocks
  <2>5. CASE d = "gemini"
    <3>1. w = GeminiToOpenAI(blocks, reason)
      BY <2>5 DEF w, Whole, Asking
    <3>2. reason \in Reasons("gemini")
      BY <2>2, <2>5
    <3> HIDE DEF d, blocks, reason
    <3>3. w.text = Texts(blocks) /\ ZeroBased(w.calls) = ToldCalls("gemini", ToolCalls(blocks))
      BY <1>1, <3>1, <3>2, GeminiWhole
    <3>4. got.text = Texts(blocks) /\ got.calls = ToldCalls(d, ToolCalls(blocks))
      BY <2>3, <2>5, <3>3
    <3>5. Understood(got, blocks)
      BY <1>1, <1>2, <3>4, StreamUnderstood
    <3> QED
      BY <3>5 DEF blocks
  <2> QED
    BY <1>1, <2>4, <2>5 DEF Dialects
<1> QED
  BY <1>3, <1>4

-----------------------------------------------------------------------------
(* The invariant of a conversation, step by step. *)
LEMMA StoryKept ==
  ASSUME HistoryInv, SentInv, UNCHANGED <<messages, asked, sent, said>>,
         phase \notin {"idle", "refused"} \/ phase' = phase
  PROVE  HistoryInv' /\ SentInv'
<1>1. HistoryInv'
  BY DEF HistoryInv
<1>2. SentInv'
  BY DEF SentInv
<1> QED
  BY <1>1, <1>2

LEMMA NumberedAppend ==
  ASSUME NEW blocks \in Seq(AnswerBlock), NEW n, Numbered(blocks, n), NEW b \in AnswerBlock,
         b.type = "call" => b.id = <<"toolu", n, Len(blocks)>>
  PROVE  Numbered(Append(blocks, b), n)
<1> DEFINE all == Append(blocks, b)
           k == Len(blocks)
<1>1. k \in Nat /\ DOMAIN blocks = 1..k /\ DOMAIN all = 1..(k + 1) /\ all[k + 1] = b /\ \A x \in 1..k : all[x] = blocks[x]
  BY AppendProperties
<1> HIDE DEF all, k
<1>2. SUFFICES ASSUME NEW x \in 1..(k + 1), all[x].type = "call" PROVE all[x].id = <<"toolu", n, x - 1>>
  BY <1>1 DEF Numbered, all
<1>3. CASE x = k + 1
  <2>1. x - 1 = k
    BY <1>1, <1>3
  <2> QED
    BY <1>1, <1>2, <1>3, <2>1 DEF k
<1>4. CASE x # k + 1
  <2>1. x \in 1..k
    BY <1>1, <1>4
  <2> QED
    BY <1>1, <1>2, <2>1 DEF Numbered
<1> QED
  BY <1>3, <1>4

LEMMA SaysIds ==
  ASSUME DialogueInv, IdsInv, NEW b \in AnswerBlock, Says(b),
         (asked.dialect = "anthropic" /\ b.type = "call") => b.id = <<"toolu", turn, Len(answer.blocks)>>
  PROVE  IdsInv'
<1>1. /\ phase = "answering" /\ phase' = "answering" /\ UNCHANGED <<asked, turn>>
      /\ answer'.blocks = Append(answer.blocks, b) /\ answer.blocks \in Seq(AnswerBlock)
  BY SaysKeeps
<1>2. SUFFICES ASSUME asked.dialect = "anthropic" PROVE Numbered(answer'.blocks, turn)
  BY <1>1 DEF IdsInv, Numbered
<1>3. Numbered(answer.blocks, turn)
  BY <1>1, <1>2 DEF IdsInv
<1> DEFINE blocks == answer.blocks
           n == turn
<1>4. blocks \in Seq(AnswerBlock) /\ Numbered(blocks, n) /\ (b.type = "call" => b.id = <<"toolu", n, Len(blocks)>>)
  BY <1>1, <1>2, <1>3
<1> HIDE DEF blocks, n
<1>5. Numbered(Append(blocks, b), n)
  BY <1>4, NumberedAppend
<1> QED
  BY <1>1, <1>5 DEF blocks, n

LEMMA SameIds ==
  ASSUME IdsInv, UNCHANGED <<asked, turn>>, answer'.blocks = answer.blocks,
         phase \in {"asked", "answering", "stopping", "answered"} \/ phase' = phase
  PROVE  IdsInv'
BY DEF IdsInv, Numbered

LEMMA ToolBlockStartIds ==
  ASSUME DialogueInv, IdsInv, NEW name \in ToolNames \cup {JSONTool}, ToolBlockStart(name)
  PROVE  IdsInv'
<1> DEFINE b == Block("call", <<>>, <<"toolu", turn, ThisIndex>>, name, <<>>)
<1>1. Says(b) /\ turn \in Nat /\ ThisIndex \in Nat /\ ThisIndex = Len(answer.blocks)
  <2>1. Says(b) /\ ThisIndex = Len(answer.blocks)
    BY DEF ToolBlockStart, ThisIndex
  <2>2. turn \in Nat
    BY DialogueAssumption DEF DialogueInv, ControlInv
  <2> QED
    BY <2>1, <2>2, BlocksTyped
<1>2. b \in AnswerBlock /\ b.id = <<"toolu", turn, ThisIndex>>
  <2> DEFINE id == <<"toolu", turn, ThisIndex>>
  <2>1. id \in Ids
    BY <1>1 DEF Ids
  <2> HIDE DEF id
  <2>2. Block("call", <<>>, id, name, <<>>) \in AnswerBlock /\ Block("call", <<>>, id, name, <<>>).id = id
    BY <2>1 DEF AnswerBlock, Block, Words, Names
  <2> QED
    BY <2>2 DEF id
<1> HIDE DEF b
<1> QED
  BY <1>1, <1>2, SaysIds

LEMMA FunctionCallIds ==
  ASSUME DialogueInv, IdsInv, NEW name \in ToolNames, NEW args \in {<<>>, <<1, 2>>}, FunctionCall(name, args)
  PROVE  IdsInv'
<1>1. asked.dialect = "gemini" /\ asked' = asked
  BY DEF FunctionCall, Asking, Says
<1> QED
  BY <1>1 DEF IdsInv

LEMMA InputJSONDeltaIds == ASSUME DialogueInv, IdsInv, InputJSONDelta PROVE IdsInv'
<1>1. /\ phase = "answering" /\ phase' = "answering" /\ asked.dialect = "anthropic" /\ UNCHANGED <<asked, turn>>
      /\ \E s \in Seq(AnswerBlock), b \in AnswerBlock, piece \in Words :
            /\ answer.blocks = Append(s, b) /\ b.type = "call"
            /\ answer' = [blocks |-> Append(s, [b EXCEPT !.input = @ \o piece]), reason |-> ""]
  BY InputJSONDeltaAnswer
<1>2. PICK s \in Seq(AnswerBlock), b \in AnswerBlock, piece \in Words :
         /\ answer.blocks = Append(s, b) /\ b.type = "call"
         /\ answer' = [blocks |-> Append(s, [b EXCEPT !.input = @ \o piece]), reason |-> ""]
  BY <1>1
<1> DEFINE all == Append(s, b)
           longer == [b EXCEPT !.input = @ \o piece]
           k == Len(s)
           n == turn
<1>3. k \in Nat /\ DOMAIN s = 1..k /\ DOMAIN all = 1..(k + 1) /\ all[k + 1] = b /\ \A x \in 1..k : all[x] = s[x]
  BY AppendProperties
<1>4. Numbered(all, n)
  BY <1>1, <1>2 DEF IdsInv
<1>5. longer \in AnswerBlock /\ longer.id = b.id
  <2>1. b.input \o piece \in Words
    BY DEF AnswerBlock, Words
  <2> QED
    BY <2>1 DEF AnswerBlock
<1> HIDE DEF all, k, n, longer
<1>6. Numbered(s, n)
  <2>1. \A x \in 1..k : x \in 1..(k + 1)
    BY <1>3
  <2> QED
    BY <1>3, <1>4, <2>1 DEF Numbered
<1>7. b.id = <<"toolu", n, k>>
  <2>1. k + 1 \in 1..(k + 1) /\ (k + 1) - 1 = k
    BY <1>3
  <2> DEFINE x == k + 1
  <2>2. x \in DOMAIN all /\ all[x] = b /\ x - 1 = k
    BY <1>3, <2>1
  <2> HIDE DEF x
  <2>3. all[x].id = <<"toolu", n, x - 1>>
    BY <1>2, <1>4, <2>2 DEF Numbered
  <2> QED
    BY <2>2, <2>3
<1>8. longer.type = "call" => longer.id = <<"toolu", n, Len(s)>>
  BY <1>5, <1>7 DEF k
<1>9. Numbered(Append(s, longer), n)
  BY <1>5, <1>6, <1>8, NumberedAppend
<1>10. answer'.blocks = Append(s, longer)
  BY <1>2 DEF longer
<1> QED
  BY <1>1, <1>9, <1>10 DEF IdsInv, Numbered, n

(* A request is the conversation, whatever is asked for beside it. *)
LEMMA TranslationTurns ==
  ASSUME NEW d \in Dialects, NEW ms, NEW opts, Translation(d, ms, opts).ok
  PROVE  Converted(d, ms).ok /\ Translation(d, ms, opts).turns = Converted(d, ms).turns
<1> DEFINE c == Converted(d, ms)
           Request(choice) == [ok |-> TRUE, dialect |-> d, turns |-> c.turns, system |-> c.system,
                               tools |-> opts.tools, choice |-> choice, instruction |-> "none"]
           t == Translation(d, ms, opts)
<1>1. ~ Refused.ok
  BY DEF Refused
<1>2. CASE d = "anthropic"
  <2> DEFINE r == Request(anthropicChoice(opts))
  <2>1. t = Refused \/ (c.ok /\ t = applyJSONResponseFormat(opts, r))
    BY <1>2 DEF Translation, OpenAIToAnthropic
  <2> HIDE DEF t
  <2>2. c.ok /\ t = applyJSONResponseFormat(opts, r)
    BY <1>1, <2>1 DEF t
  <2> HIDE DEF c
  <2>3. applyJSONResponseFormat(opts, r).turns = c.turns
    <3>1. r.turns = c.turns
      OBVIOUS
    <3>2. DOMAIN r = {"ok", "dialect", "turns", "system", "tools", "choice", "instruction"}
      OBVIOUS
    <3> HIDE DEF r
    <3> QED
      BY <3>1, <3>2 DEF applyJSONResponseFormat
  <2> QED
    BY <2>2, <2>3 DEF c, t
<1>3. CASE d = "gemini"
  <2> DEFINE r == Request(geminiChoice(opts))
  <2>1. t = Refused \/ (c.ok /\ t = r)
    BY <1>3 DEF Translation, OpenAIToGemini
  <2> HIDE DEF t
  <2>2. c.ok /\ t = r
    BY <1>1, <2>1 DEF t
  <2> QED
    BY <2>2 DEF c, t
<1> QED
  BY <1>2, <1>3 DEF Dialects

LEMMA AskStory ==
  ASSUME ConversationInv, NEW d \in Dialects, NEW stream \in BOOLEAN, NEW opts, Ask(d, stream, opts)
  PROVE  HistoryInv' /\ SentInv' /\ IdsInv'
<1>1. /\ UNCHANGED <<messages, said>> /\ asked'.dialect = d /\ sent' = Translation(d, messages, opts)
      /\ answer' = Empty
  BY DEF Ask
<1>2. HistoryInv'
  BY <1>1 DEF ConversationInv, HistoryInv
<1>3. SentInv'
  <2>1. SUFFICES ASSUME sent'.ok
                 PROVE  Converted(d, messages).ok /\ sent'.turns = Converted(d, messages).turns
    BY <1>1 DEF SentInv
  <2> QED
    BY <1>1, <2>1, TranslationTurns
<1>4. IdsInv'
  <2>1. answer'.blocks = <<>>
    BY <1>1, EmptyAnswer
  <2>2. \A n : Numbered(<<>>, n)
    BY DEF Numbered
  <2>3. Numbered(answer'.blocks, turn')
    BY <2>1, <2>2
  <2> QED
    BY <2>3 DEF IdsInv, Numbered
<1> QED
  BY <1>2, <1>3, <1>4

LEMMA ContinueStory ==
  ASSUME ConversationInv, NEW remark \in BOOLEAN, NEW trim \in BOOLEAN, Continue(remark, trim)
  PROVE  HistoryInv' /\ SentInv' /\ IdsInv'
<1> DEFINE calls == CallsInOrder(got)
           text == got.text
           meaning == Meaning(answer.blocks)
           rest == Rest(calls, remark)
<1>1. /\ phase = "answered" /\ phase' = "idle" /\ (trim => calls # <<>>)
      /\ messages' = IF trim THEN rest ELSE Append(messages, Assistant(text, calls)) \o rest
      /\ said' = IF trim THEN <<>> ELSE Append(said, meaning)
  BY DEF Continue, Rest, Remark
<1>2. SentInv' /\ IdsInv'
  BY <1>1 DEF SentInv, IdsInv
<1>3. Understood(got, answer.blocks)
  BY <1>1, AnswerUnderstood DEF ConversationInv
<1>4. /\ answer.blocks \in Seq(AnswerBlock)
      /\ Listed(messages) /\ Listed(said) /\ \A d \in Dialects : Sound(d, Converted(d, messages), said)
  BY BlocksTyped DEF ConversationInv, HistoryInv
<1>5. /\ Listed(calls) /\ SameName(calls) /\ text \in Words
      /\ \A d : Meaning(BackBlocks(d, text, calls)) = meaning \/ SaidJSON(meaning)
  <2> DEFINE blocks == answer.blocks
  <2>1. PICK cs : /\ Listed(cs) /\ SameName(cs) /\ got.calls = ZeroBased(cs) /\ text \in Words
                  /\ (text = Texts(blocks) /\ Relayed(cs, ToolCalls(blocks))) \/ SaidJSON(meaning)
    BY <1>3 DEF Understood
  <2>2. calls = cs
    BY <2>1, InOrder
  <2>3. blocks \in Seq(AnswerBlock)
    BY <1>4
  <2>4. ASSUME NEW d, ~SaidJSON(meaning) PROVE Meaning(BackBlocks(d, text, cs)) = meaning
    <3>1. text = Texts(blocks) /\ Relayed(cs, ToolCalls(blocks)) /\ Listed(cs) /\ Texts(blocks) \in Words
      BY <2>1, <2>4
    <3> HIDE DEF blocks, text, meaning
    <3>2. Meaning(BackBlocks(d, Texts(blocks), cs)) = Meaning(blocks)
      BY <2>3, <3>1, SameMeaning
    <3> QED
      BY <3>1, <3>2 DEF meaning, blocks
  <2> HIDE DEF calls, text, meaning
  <2> QED
    BY <2>1, <2>2, <2>4
<1> HIDE DEF calls, text, meaning, rest
<1>6. Listed(rest)
  BY <1>5, RestListed DEF rest
<1>7. CASE trim
  <2>1. messages' = rest /\ said' = <<>> /\ calls # <<>>
    BY <1>1, <1>7
  <2>2. \A d \in Dialects : Sound(d, Converted(d, rest), <<>>)
    BY <1>5, <2>1, TrimSound DEF rest
  <2>3. Listed(<<>>)
    BY NothingSound
  <2> QED
    BY <1>2, <1>6, <2>1, <2>2, <2>3 DEF HistoryInv
<1>8. CASE ~trim
  <2> DEFINE longer == Append(messages, Assistant(text, calls)) \o rest
             told == Append(said, meaning)
  <2>1. messages' = longer /\ said' = told
    BY <1>1, <1>8
  <2>2. ASSUME NEW d \in Dialects PROVE Sound(d, Converted(d, longer), told)
    <3> DEFINE ms == messages
               before == said
    <3>1. Listed(ms) /\ Listed(before) /\ Sound(d, Converted(d, ms), before)
      BY <1>4
    <3> HIDE DEF ms, before
    <3>2. /\ text \in Words /\ Listed(calls) /\ SameName(calls)
          /\ Meaning(BackBlocks(d, text, calls)) = meaning \/ SaidJSON(meaning)
      BY <1>5
    <3>3. Sound(d, Converted(d, Append(ms, Assistant(text, calls)) \o Rest(calls, remark)), Append(before, meaning))
      BY ONLY <3>1, <3>2, RoundSound
    <3> QED
      BY <3>3 DEF ms, before, rest
  <2>3. Listed(longer) /\ Listed(told)
    BY <1>4, <1>6, ListedAppend, ListedConcat
  <2> HIDE DEF longer, told
  <2> QED
    BY <1>2, <2>1, <2>2, <2>3 DEF HistoryInv
<1> QED
  BY <1>7, <1>8

LEMMA InitConversation == DialogueInit => ConversationInv
<1> SUFFICES ASSUME DialogueInit PROVE ConversationInv
  OBVIOUS
<1>1. messages \in Openings /\ said = <<>> /\ phase = "idle"
  BY DEF DialogueInit, Openings
<1>2. HistoryInv
  BY <1>1, OpeningsSound, NothingSound DEF HistoryInv
<1>3. SentInv /\ IdsInv
  BY <1>1 DEF SentInv, IdsInv
<1> QED
  BY <1>2, <1>3, InitDialogue DEF ConversationInv

(* What the upstream says or fails to say leaves the conversation as it was. *)
LEMMA UpstreamStory ==
  ASSUME ConversationInv,
         MessageStart \/ TextDelta \/ InputJSONDelta \/ EndOfStream \/ ReadError \/ WholeAnswer
           \/ (\E name \in ToolNames \cup {JSONTool} : ToolBlockStart(name))
           \/ (\E name \in ToolNames, args \in {<<>>, <<1, 2>>} : FunctionCall(name, args))
           \/ (\E reason \in {"end_turn", "tool_use", "max_tokens", "STOP", "MAX_TOKENS"},
                  repeats \in BOOLEAN : MessageDelta(reason, repeats))
  PROVE  HistoryInv' /\ SentInv'
<1>1. UNCHANGED <<messages, asked, sent, said>> /\ phase \in {"asked", "answering", "stopping"}
  <2>1. CASE MessageStart
    BY <2>1 DEF MessageStart
  <2>2. CASE TextDelta
    BY <2>2 DEF TextDelta, Says
  <2>3. CASE InputJSONDelta
    BY <2>3 DEF InputJSONDelta
  <2>4. CASE EndOfStream
    BY <2>4 DEF EndOfStream
  <2>5. CASE ReadError
    BY <2>5 DEF ReadError
  <2>6. CASE WholeAnswer
    BY <2>6 DEF WholeAnswer
  <2>7. ASSUME NEW name, ToolBlockStart(name)
        PROVE  UNCHANGED <<messages, asked, sent, said>> /\ phase \in {"asked", "answering", "stopping"}
    BY <2>7 DEF ToolBlockStart, Says
  <2>8. ASSUME NEW name, NEW args, FunctionCall(name, args)
        PROVE  UNCHANGED <<messages, asked, sent, said>> /\ phase \in {"asked", "answering", "stopping"}
    BY <2>8 DEF FunctionCall, Says
  <2>9. ASSUME NEW reason, NEW repeats, MessageDelta(reason, repeats)
        PROVE  UNCHANGED <<messages, asked, sent, said>> /\ phase \in {"asked", "answering", "stopping"}
    BY <2>9 DEF MessageDelta
  <2> QED
    BY <2>1, <2>2, <2>3, <2>4, <2>5, <2>6, <2>7, <2>8, <2>9
<1> QED
  BY <1>1, StoryKept DEF ConversationInv

LEMMA StepKeepsConversation == ConversationInv /\ [DialogueNext]_dialogueVars => ConversationInv'
<1> SUFFICES ASSUME ConversationInv, [DialogueNext]_dialogueVars PROVE ConversationInv'
  OBVIOUS
<1>1. DialogueInv' /\ DialogueInv /\ IdsInv /\ HistoryInv /\ SentInv
  BY StepKeepsDialogue DEF ConversationInv
<1>2. SUFFICES HistoryInv' /\ SentInv' /\ IdsInv'
  BY <1>1 DEF ConversationInv
<1>3. ASSUME NEW d \in Dialects, NEW stream \in BOOLEAN,
             NEW opts \in IF turn = 0 THEN Options ELSE {Plain}, Ask(d, stream, opts)
      PROVE  HistoryInv' /\ SentInv' /\ IdsInv'
  BY <1>3, AskStory
<1>4. ASSUME NEW remark \in BOOLEAN, NEW trim \in BOOLEAN, Continue(remark, trim)
      PROVE  HistoryInv' /\ SentInv' /\ IdsInv'
  BY <1>4, ContinueStory
<1>5. CASE MessageStart
  <2>1. IdsInv'
    BY <1>1, <1>5, SameIds DEF MessageStart
  <2> QED
    BY <1>5, <2>1, UpstreamStory
<1>6. CASE TextDelta
  <2>1. TextBlock(ThisPiece) \in AnswerBlock /\ TextBlock(ThisPiece).type # "call" /\ Says(TextBlock(ThisPiece))
    BY <1>1, <1>6, BlocksTyped DEF TextDelta, TextBlock, ThisPiece, Block, AnswerBlock, Words, Ids, Names
  <2>2. IdsInv'
    BY <1>1, <2>1, SaysIds
  <2> QED
    BY <1>6, <2>2, UpstreamStory
<1>7. ASSUME NEW name \in ToolNames \cup {JSONTool}, ToolBlockStart(name) PROVE HistoryInv' /\ SentInv' /\ IdsInv'
  BY <1>1, <1>7, ToolBlockStartIds, UpstreamStory
<1>8. CASE InputJSONDelta
  BY <1>1, <1>8, InputJSONDeltaIds, UpstreamStory
<1>9. ASSUME NEW name \in ToolNames, NEW args \in {<<>>, <<1, 2>>}, FunctionCall(name, args)
      PROVE  HistoryInv' /\ SentInv' /\ IdsInv'
  BY <1>1, <1>9, FunctionCallIds, UpstreamStory
<1>10. ASSUME NEW reason \in {"end_turn", "tool_use", "max_tokens", "STOP", "MAX_TOKENS"}, NEW repeats \in BOOLEAN,
              MessageDelta(reason, repeats)
       PROVE  HistoryInv' /\ SentInv' /\ IdsInv'
  <2>1. answer'.blocks = answer.blocks /\ UNCHANGED <<asked, turn>> /\ phase = "answering"
    <3>1. answer' = [answer EXCEPT !.reason = reason] /\ UNCHANGED <<asked, turn>> /\ phase = "answering"
      BY <1>10 DEF MessageDelta
    <3>2. answer = [blocks |-> answer.blocks, reason |-> answer.reason]
      BY <1>1 DEF DialogueInv, AnswerInv
    <3> QED
      BY <3>1, <3>2
  <2>2. IdsInv'
    BY <1>1, <2>1, SameIds
  <2> QED
    BY <1>10, <2>2, UpstreamStory
<1>11. CASE EndOfStream
  <2>1. IdsInv'
    BY <1>1, <1>11, SameIds DEF EndOfStream
  <2> QED
    BY <1>11, <2>1, UpstreamStory
<1>12. CASE ReadError
  <2>1. IdsInv'
    BY <1>1, <1>12, SameIds DEF ReadError
  <2> QED
    BY <1>12, <2>1, UpstreamStory
<1>13. CASE WholeAnswer
  <2>1. IdsInv'
    BY <1>1, <1>13, SameIds DEF WholeAnswer
  <2> QED
    BY <1>13, <2>1, UpstreamStory
<1>14. CASE UNCHANGED dialogueVars
  <2>1. UNCHANGED <<messages, turn, asked, sent, answer, phase, said>>
    BY <1>14 DEF dialogueVars
  <2>2. IdsInv'
    BY <1>1, <2>1, SameIds
  <2>3. HistoryInv' /\ SentInv'
    BY <1>1, <2>1, StoryKept
  <2> QED
    BY <2>2, <2>3
<1>15. CASE Finished
  BY <1>14, <1>15 DEF Finished
<1> QED
  BY <1>3, <1>4, <1>5, <1>6, <1>7, <1>8, <1>9, <1>10, <1>11, <1>12, <1>13, <1>14, <1>15 DEF DialogueNext

LEMMA ConversationKept == DialogueSpec => []ConversationInv
<1>1. DialogueInit => ConversationInv
  BY InitConversation
<1>2. ConversationInv /\ [DialogueNext]_dialogueVars => ConversationInv'
  BY StepKeepsConversation
<1> QED
  BY <1>1, <1>2, PTL DEF DialogueSpec

(* The request under way, as its upstream reads it. *)
LEMMA SentSound ==
  ASSUME ConversationInv, phase \notin {"idle", "refused"}, sent.ok
  PROVE  Followed(asked.dialect, sent.turns) /\ Repeats(sent.turns, said)
<1> DEFINE d == asked.dialect
           c == Converted(d, messages)
<1>1. c.ok /\ sent.turns = c.turns /\ Sound(d, c, said)
  BY DEF ConversationInv, DialogueInv, ControlInv, HistoryInv, SentInv
<1> HIDE DEF c
<1>2. Followed(d, c.turns) /\ Repeats(c.turns, said)
  BY <1>1 DEF Sound
<1> QED
  BY <1>1, <1>2

LEMMA ConversationMeans == ConversationInv => ResultsFollowCalls /\ RoundTrip
<1> SUFFICES ASSUME ConversationInv PROVE ResultsFollowCalls /\ RoundTrip
  OBVIOUS
<1>1. ResultsFollowCalls
  <2>1. SUFFICES ASSUME phase \notin {"idle", "refused"}, sent.ok, NEW i \in DOMAIN sent.turns
                 PROVE  /\ ToolCalls(sent.turns[i].blocks) # <<>> =>
                             /\ i < Len(sent.turns)
                             /\ Keys(Results(sent.turns[i + 1])) = Keys(ToolCalls(sent.turns[i].blocks))
                        /\ (Results(sent.turns[i]) # <<>> /\ i > 1) => ToolCalls(sent.turns[i - 1].blocks) # <<>>
    BY DEF ResultsFollowCalls
  <2>2. Followed(asked.dialect, sent.turns)
    BY <2>1, SentSound
  <2>3. \A blocks : Keys(blocks) = KeysFor(asked.dialect, blocks)
    BY DEF Keys, KeysFor, Key, KeyFor, Asking
  <2> QED
    BY <2>1, <2>2, <2>3 DEF Followed
<1>2. RoundTrip
  <2>1. SUFFICES ASSUME phase \notin {"idle", "refused"}, sent.ok
                 PROVE  /\ Len(AssistantTurns) = Len(said)
                        /\ \A i \in DOMAIN said : Meaning(AssistantTurns[i].blocks) = said[i] \/ SaidJSON(said[i])
    BY DEF RoundTrip, SaidJSON
  <2>2. Repeats(sent.turns, said) /\ AssistantTurns = OfAssistant(sent.turns)
    BY <2>1, SentSound DEF AssistantTurns, OfAssistant
  <2> QED
    BY <2>2 DEF Repeats
<1> QED
  BY <1>1, <1>2

(* However many tools a model calls in one answer, and whichever upstream is asked next,
   the request it is sent holds every call's result in the one turn that follows, in
   order and under the key that upstream knows the call by; no result is there without
   its call, but at the start of a context the client has trimmed. *)
THEOREM ResultsAreAnswered == DialogueSpec => []ResultsFollowCalls
<1>1. ConversationInv => ResultsFollowCalls
  BY ConversationMeans
<1> QED
  BY <1>1, ConversationKept, PTL

(* What was said survives the way to the client and back, to the same upstream or to the
   other: turn by turn the same text and the same calls with the same arguments, through
   any number of turns, streamed or whole. *)
THEOREM ConversationsRoundTrip == DialogueSpec => []RoundTrip
<1>1. ConversationInv => RoundTrip
  BY ConversationMeans
<1> QED
  BY <1>1, ConversationKept, PTL
==================================================================================
