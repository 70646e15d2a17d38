----------------------------- MODULE Ledger_proofs -----------------------------
(***************************************************************************)
(* What the gateway keeps around a request, for all masks, calls, prices   *)
(* and catalogs and any number of requests, edits, saves and restarts: a   *)
(* mask the operator was told about holds for every request that comes     *)
(* later, the file of usage holds what was saved, every failure is in the  *)
(* recent log under its own caller, and every report adds up.  And that a  *)
(* mask blocks what it says, whatever the name.                            *)
(***************************************************************************)
EXTENDS Ledger, FiniteSetTheorems, SequenceTheorems, TLAPS

\* A mask that is written is in force unless it is being adopted; one that is in force is
\* written; what was promised is in both, and in what an edit under way will put there.
ListInv ==
    /\ config \subseteq Masks /\ operator \subseteq Masks /\ masks \subseteq Masks
    /\ edit \in [at : {"idle", "writing", "adopting"}, mask : Masks \cup {NoEdit.mask},
                 next : SUBSET Masks, adding : BOOLEAN]
    /\ up = "down" => edit.at = "idle" /\ answered \subseteq config \cup masks
    /\ up # "down" => answered \subseteq config \cup operator
    /\ up # "down" /\ edit.at # "adopting" => operator \subseteq config \cup masks
    /\ edit.at # "idle" => /\ answered \subseteq config \cup edit.next
                           /\ edit.adding => edit.mask \in edit.next
    /\ edit.at = "adopting" => edit.next \subseteq masks

\* What a request relies on is blocked by the masks it was promised (held), and once a
\* target has passed the blocklist it is not among that.
RequestOK(q, held) ==
    /\ DOMAIN q = DOMAIN NoRequest
    /\ \A name \in q.sure : BlockedBy(held, {name, CanonicalOf(name)})
    /\ ~q.call.handler.checks => q.sure = {}
    /\ q.at = "idle" => q.asked = None
    /\ q.asked \notin q.sure
    /\ q.at = "admitted" => q.targets[1] \notin q.sure
    /\ q.at = "serving" => \A i \in q.open : q.targets[i] \notin q.sure

RequestsInv ==
    /\ req = [r \in Requests |-> req[r]]
    /\ \A r \in Requests : RequestOK(req[r], config \cup answered)

MasksInv == ListInv /\ RequestsInv

LEMMA MoreMasksBlockMore ==
    ASSUME NEW S, NEW T, S \subseteq T, NEW names, BlockedBy(S, names)
    PROVE  BlockedBy(T, names)
  BY DEF BlockedBy

LEMMA NothingBlocksNone ==
    ASSUME NEW S PROVE ~BlockedBy(S, {None, CanonicalOf(None)})
  <1>1. None \notin DOMAIN Canonical
    BY LedgerAssumption DEF Handlers, handleForward
  <1>2. CanonicalOf(None) = None
    BY <1>1 DEF CanonicalOf
  <1> QED
    BY <1>2 DEF BlockedBy, Match, None

LEMMA RequestOKMonotone ==
    ASSUME NEW S, NEW T, S \subseteq T, NEW q, RequestOK(q, S)
    PROVE  RequestOK(q, T)
  BY MoreMasksBlockMore DEF RequestOK

LEMMA NoRequestOK == ASSUME NEW S PROVE RequestOK(NoRequest, S)
  BY DEF RequestOK, NoRequest

LEMMA InitMasks == Init => MasksInv
  <1> SUFFICES ASSUME Init PROVE MasksInv OBVIOUS
  <1>1. ListInv
    BY LedgerAssumption DEF Init, ListInv, NoEdit
  <1>2. RequestsInv
    BY NoRequestOK DEF Init, RequestsInv
  <1> QED BY <1>1, <1>2 DEF MasksInv

\* A step of one request, which leaves the list alone.
LEMMA OneRequest ==
    ASSUME MasksInv, UNCHANGED <<up, config, operator, edit, masks, answered>>,
           NEW r \in Requests, NEW q, req' = [req EXCEPT ![r] = q],
           RequestOK(q, config \cup answered)
    PROVE  MasksInv'
  <1>1. ListInv' BY DEF MasksInv, ListInv
  <1>2. req' = [s \in Requests |-> req'[s]]
    BY DEF MasksInv, RequestsInv
  <1>3. ASSUME NEW s \in Requests PROVE RequestOK(req'[s], config \cup answered)
    BY DEF MasksInv, RequestsInv
  <1>4. RequestsInv'
    BY <1>2, <1>3 DEF RequestsInv
  <1> QED BY <1>1, <1>4 DEF MasksInv

LEMMA RequestsKeepMasks ==
    ASSUME MasksInv, NEW r \in Requests, RequestStep(r)
    PROVE  MasksInv'
  <1> DEFINE held == config \cup answered
  <1>1. req = [s \in Requests |-> req[s]] /\ RequestOK(req[r], held)
    BY DEF MasksInv, RequestsInv
  <1>2. CASE Arrive(r)
    <2>1. PICK call \in CallsOf[r] :
            LET models == IF call.models = <<>> THEN <<call.handler.own>> ELSE call.models
                names  == IF call.handler.checks THEN ToSet(models) ELSE {}
            IN  req' = [req EXCEPT ![r].at = "arrived", ![r].call = call, ![r].targets = models,
                                   ![r].sure = SurelyBlocked(answered, names)]
      BY <1>2 DEF Arrive
    <2> DEFINE models == IF call.models = <<>> THEN <<call.handler.own>> ELSE call.models
               names  == IF call.handler.checks THEN ToSet(models) ELSE {}
               q == [req[r] EXCEPT !.at = "arrived", !.call = call, !.targets = models,
                                   !.sure = SurelyBlocked(answered, names)]
    <2>2. req' = [req EXCEPT ![r] = q]
      BY <2>1
    <2>3. req[r].asked = None
      BY <1>1, <1>2 DEF RequestOK, Arrive, At
    <2>4. q.at = "arrived" /\ q.call = call /\ q.asked = None /\ DOMAIN q = DOMAIN NoRequest
          /\ q.sure = SurelyBlocked(answered, names)
      BY <1>1, <2>3 DEF RequestOK, NoRequest
    <2> HIDE DEF q
    <2>5. \A name \in q.sure : BlockedBy(held, {name, CanonicalOf(name)})
      BY <2>4 DEF SurelyBlocked
    <2>6. ~call.handler.checks => q.sure = {}
      BY <2>4 DEF SurelyBlocked
    <2>7. RequestOK(q, held)
      BY <2>4, <2>5, <2>6, NothingBlocksNone DEF RequestOK
    <2> QED BY <1>2, <2>2, <2>7, OneRequest DEF Arrive, Quiet, list
  <1>3. CASE Refuse(r)
    <2> DEFINE q == [req[r] EXCEPT !.at = "closing", !.status = 400]
    <2>1. RequestOK(q, held)
      BY <1>1 DEF RequestOK, NoRequest
    <2>2. req' = [req EXCEPT ![r] = q]
      <3> DEFINE bad == 400
      <3>1. req' = [req EXCEPT ![r].at = "closing", ![r].status = bad]
        BY <1>3, Zenon DEF Refuse
      <3>2. q = [req[r] EXCEPT !.at = "closing", !.status = bad]
        OBVIOUS
      <3> HIDE DEF bad, q
      <3> QED BY <3>1, <3>2
    <2> QED BY <1>3, <2>1, <2>2, OneRequest DEF Refuse, Quiet, list
  <1>4. CASE Check(r)
    <2> DEFINE name == req[r].targets[1]
               refused == Handler(r).checks /\ Blocked(name)
               q == [req[r] EXCEPT !.at = "admitted"]
    <2>1. CASE refused
      <3> DEFINE event == [NoEvent EXCEPT !.model = CanonicalOf(name), !.error = TRUE,
                                          !.client = ClientOf[r]]
                 forbidden == 403
                 p == [req[r] EXCEPT !.at = "recording", !.status = forbidden, !.stamp = clock,
                                     !.event = event]
      <3>1. req' = [req EXCEPT ![r].at = "recording", ![r].status = forbidden,
                               ![r].stamp = clock, ![r].event = event]
        BY <1>4, <2>1, Zenon DEF Check
      <3> HIDE DEF event, forbidden
      <3>2. req' = [req EXCEPT ![r] = p]
        BY <3>1
      <3>3. RequestOK(p, held)
        BY <1>1 DEF RequestOK, NoRequest
      <3> QED BY <1>4, <3>2, <3>3, OneRequest DEF Check, Quiet, list
    <2>2. CASE ~refused
      <3>1. req' = [req EXCEPT ![r] = q]
        BY <1>4, <2>2 DEF Check
      <3>2. name \in req[r].sure => BlockedBy(InForce, {name, CanonicalOf(name)})
        <4>1. held \subseteq InForce
          BY <1>4 DEF MasksInv, ListInv, Check, Serving, InForce
        <4> QED BY <1>1, <4>1, MoreMasksBlockMore DEF RequestOK
      <3>3. name \notin req[r].sure
        BY <1>1, <2>2, <3>2 DEF RequestOK, Blocked, Handler
      <3>4. RequestOK(q, held)
        BY <1>1, <3>3 DEF RequestOK, NoRequest
      <3> QED BY <1>4, <3>1, <3>4, OneRequest DEF Check, Quiet, list
    <2> QED BY <2>1, <2>2
  <1>5. CASE DropBlocked(r)
    <2> DEFINE targets == req[r].targets
               open == {i \in DOMAIN targets : i = 1 \/ ~Blocked(targets[i])}
               q == [req[r] EXCEPT !.at = "serving", !.open = open]
    <2>1. req' = [req EXCEPT ![r] = q]
      BY <1>5 DEF DropBlocked
    <2>2. held \subseteq InForce
      BY <1>5 DEF MasksInv, ListInv, DropBlocked, Serving, InForce
    <2>3. ASSUME NEW i \in open PROVE targets[i] \notin req[r].sure
      <3>1. CASE i = 1
        BY <1>1, <1>5, <3>1 DEF RequestOK, DropBlocked, At
      <3>2. CASE ~Blocked(targets[i])
        BY <1>1, <2>2, <3>2, MoreMasksBlockMore DEF RequestOK, Blocked
      <3> QED BY <3>1, <3>2
    <2>4. RequestOK(q, held)
      BY <1>1, <2>3 DEF RequestOK, NoRequest
    <2> QED BY <1>5, <2>1, <2>4, OneRequest DEF DropBlocked, Quiet, list
  <1>6. CASE Serve(r)
    <2>1. PICK i \in req[r].open, a \in req[r].call.answers :
            req' = [req EXCEPT ![r].at = IF Counts(r, a) THEN "recording" ELSE "closing",
                               ![r].asked = req[r].targets[i], ![r].status = a.status,
                               ![r].stamp = clock,
                               ![r].event = IF Counts(r, a) THEN EventOf(r, i, a) ELSE NoEvent]
      BY <1>6 DEF Serve
    <2> DEFINE q == [req[r] EXCEPT !.at = IF Counts(r, a) THEN "recording" ELSE "closing",
                                   !.asked = req[r].targets[i], !.status = a.status, !.stamp = clock,
                                   !.event = IF Counts(r, a) THEN EventOf(r, i, a) ELSE NoEvent]
    <2>2. req' = [req EXCEPT ![r] = q]
      BY <2>1
    <2>3. req[r].targets[i] \notin req[r].sure
      BY <1>1, <1>6, <2>1 DEF RequestOK, Serve, At
    <2>4. RequestOK(q, held)
      BY <1>1, <2>1, <2>3 DEF RequestOK, NoRequest
    <2> QED BY <1>6, <2>2, <2>4, OneRequest DEF Serve, Quiet, list
  <1>7. CASE RecordUsage(r)
    <2> DEFINE q == [req[r] EXCEPT !.at = "logging"]
    <2>1. RequestOK(q, held)
      BY <1>1 DEF RequestOK, NoRequest
    <2>2. req' = [req EXCEPT ![r] = q]
      BY <1>7 DEF RecordUsage
    <2> QED BY <1>7, <2>1, <2>2, OneRequest DEF RecordUsage, Quiet, list
  <1>8. ASSUME NEW at \in {"closing", "done"}, NEW seq
        PROVE  RequestOK([Ended(r) EXCEPT !.at = at, !.seq = seq], held)
    BY DEF RequestOK, Ended, NoRequest
  <1>9. CASE LogRequest(r)
    BY <1>8, <1>9, OneRequest DEF LogRequest, Quiet, list
  <1>10. CASE Close(r)
    <2>1. PICK seq : req' = [req EXCEPT ![r] = [Ended(r) EXCEPT !.at = "done", !.seq = seq]]
      BY <1>10 DEF Close
    <2> QED BY <1>8, <1>10, <2>1, OneRequest DEF Close, Quiet, list
  <1> QED
    BY <1>2, <1>3, <1>4, <1>5, <1>6, <1>7, <1>9, <1>10 DEF RequestStep

\* A step of the list or of the process that leaves the requests alone, and takes no
\* promise back.
LEMMA OtherStep ==
    ASSUME MasksInv, ListInv', UNCHANGED <<req, config>>, answered \subseteq answered'
    PROVE  MasksInv'
  <1>1. ASSUME NEW r \in Requests PROVE RequestOK(req[r], config \cup answered')
    BY RequestOKMonotone DEF MasksInv, RequestsInv
  <1>2. RequestsInv'
    BY <1>1 DEF MasksInv, RequestsInv
  <1> QED BY <1>2 DEF MasksInv

LEMMA OperatorKeepsMasks ==
    ASSUME MasksInv, OperatorStep
    PROVE  MasksInv'
  <1>1. ListInv BY DEF MasksInv
  <1> USE DEF EditQuiet, Listening, Unlocked, Serving, InForce, NoEdit
  <1>2. CASE AddKnown
    <2>1. ListInv' BY <1>1, <1>2 DEF ListInv, AddKnown
    <2> QED BY <1>2, <2>1, OtherStep DEF AddKnown
  <1>3. CASE StartAdd
    <2>1. ListInv' BY <1>1, <1>3 DEF ListInv, StartAdd, Bounded
    <2> QED BY <1>3, <2>1, OtherStep DEF StartAdd
  <1>4. CASE StartRemove
    <2>1. ListInv' BY <1>1, <1>4 DEF ListInv, StartRemove, Bounded
    <2> DEFINE q(r) == [req[r] EXCEPT !.sure = SurelyBlocked(answered', @)]
    <2>2. req' = [r \in Requests |-> q(r)] /\ config' = config
      BY <1>4 DEF StartRemove
    <2>3. ASSUME NEW r \in Requests PROVE RequestOK(q(r), config \cup answered')
      <3>1. RequestOK(req[r], config \cup answered)
        BY DEF MasksInv, RequestsInv
      <3>2. DOMAIN q(r) = DOMAIN NoRequest /\ q(r).sure = SurelyBlocked(answered', req[r].sure)
            /\ q(r).call = req[r].call /\ q(r).at = req[r].at /\ q(r).asked = req[r].asked
            /\ q(r).targets = req[r].targets /\ q(r).open = req[r].open
        BY <3>1 DEF RequestOK, NoRequest
      <3>3. q(r).sure \subseteq req[r].sure
            /\ \A name \in q(r).sure : BlockedBy(config \cup answered', {name, CanonicalOf(name)})
        BY <3>2 DEF SurelyBlocked
      <3> HIDE DEF q
      <3> QED BY <3>1, <3>2, <3>3 DEF RequestOK
    <2>4. RequestsInv'
      BY <2>2, <2>3 DEF RequestsInv
    <2> QED BY <2>1, <2>4 DEF MasksInv
  <1>5. CASE WriteMasks
    <2>1. ListInv' BY <1>1, <1>5 DEF ListInv, WriteMasks
    <2> QED BY <1>5, <2>1, OtherStep DEF WriteMasks
  <1>6. CASE WriteMasksFails
    <2>1. ListInv' BY <1>1, <1>6 DEF ListInv, WriteMasksFails
    <2> QED BY <1>6, <2>1, OtherStep DEF WriteMasksFails
  <1>7. CASE Adopt
    <2>1. ListInv' BY <1>1, <1>7 DEF ListInv, Adopt
    <2> QED BY <1>7, <2>1, OtherStep DEF Adopt
  <1> QED BY <1>2, <1>3, <1>4, <1>5, <1>6, <1>7 DEF OperatorStep

LEMMA StopKeepsMasks == ASSUME MasksInv, Stop PROVE MasksInv'
  <1>1. ListInv'
    BY DEF MasksInv, ListInv, Stop, Serving, NoEdit
  <1>2. ASSUME NEW r \in Requests PROVE RequestOK(req'[r], config \cup answered)
    <2>1. CASE At(r, "idle")
      BY <2>1, NoRequestOK DEF Stop
    <2>2. CASE ~At(r, "idle")
      <3>1. req'[r] = [NoRequest EXCEPT !.at = "lost"]
        BY <2>2 DEF Stop
      <3> QED BY <3>1 DEF RequestOK, NoRequest
    <2> QED BY <2>1, <2>2
  <1>3. RequestsInv'
    BY <1>2 DEF RequestsInv, Stop
  <1> QED BY <1>1, <1>3 DEF MasksInv

LEMMA RestartKeepsMasks == ASSUME MasksInv, Restart PROVE MasksInv'
  <1>1. ListInv'
    BY DEF MasksInv, ListInv, Restart, Bounded
  <1> QED BY <1>1, OtherStep DEF Restart

\* Saves, the clock and the signal, which is heard while the process serves.
LEMMA RestKeepsMasks ==
    ASSUME MasksInv, UNCHANGED <<req, list>>, up' = up \/ (up # "down" /\ up' # "down")
    PROVE  MasksInv'
  <1>1. ListInv' BY DEF MasksInv, ListInv, list
  <1> QED BY <1>1, OtherStep DEF list

LEMMA StepKeepsMasks == MasksInv /\ [Next]_ledgerVars => MasksInv'
  <1> SUFFICES ASSUME MasksInv, [Next]_ledgerVars PROVE MasksInv' OBVIOUS
  <1> USE DEF SaveQuiet, Serving, Listening
  <1>1. CASE \E r \in Requests : RequestStep(r)
    BY <1>1, RequestsKeepMasks
  <1>2. CASE OperatorStep
    BY <1>2, OperatorKeepsMasks
  <1>3. CASE TickerSaves
    BY <1>3, RestKeepsMasks DEF TickerSaves
  <1>4. CASE Signal
    BY <1>4, RestKeepsMasks DEF Signal
  <1>5. ASSUME NEW s \in Savers, SaveStep(s) PROVE MasksInv'
    <2>1. CASE Open(s)
      BY <2>1, RestKeepsMasks DEF Open
    <2>2. CASE Write(s)
      BY <2>2, RestKeepsMasks DEF Write
    <2>3. CASE SaveFails(s)
      BY <2>3, RestKeepsMasks DEF SaveFails, Return
    <2>4. CASE Rename(s)
      BY <2>4, RestKeepsMasks DEF Rename, Return
    <2> QED BY <1>5, <2>1, <2>2, <2>3, <2>4 DEF SaveStep
  <1>6. CASE Tick
    BY <1>6, RestKeepsMasks DEF Tick
  <1>7. CASE Stop
    BY <1>7, StopKeepsMasks
  <1>8. CASE Restart
    BY <1>8, RestartKeepsMasks
  <1>9. CASE UNCHANGED ledgerVars
    BY <1>9, RestKeepsMasks DEF ledgerVars
  <1> QED BY <1>1, <1>2, <1>3, <1>4, <1>5, <1>6, <1>7, <1>8, <1>9 DEF Next

(***************************************************************************)
(* A request that came after the operator was told of a mask, or that the  *)
(* configuration covers, is never sent to a model the mask covers, unless  *)
(* a removal has begun since (rejectBlocked, dropBlocked, List.Add).       *)
(***************************************************************************)
THEOREM AnsweredMasksAreKept == Spec => []AnsweredMasksHold
  <1>1. MasksInv => AnsweredMasksHold
    BY DEF MasksInv, RequestsInv, RequestOK, AnsweredMasksHold
  <1> QED BY <1>1, InitMasks, StepKeepsMasks, PTL DEF Spec

-----------------------------------------------------------------------------
(***************************************************************************)
(* usage.json.  Without overlapping saves the open file is the temporary   *)
(* one, which nobody else touches; what is renamed is whole.               *)
(***************************************************************************)
SaverOK(s) ==
    /\ DOMAIN save[s] = DOMAIN NoSave
    /\ save[s].data.totals.requests \in Nat
    /\ save[s].at \in {"idle", "opening", "writing", "renaming"}

Undisturbed(s) ==
    /\ save[s].at # "idle" => save[Other(s)].at = "idle"
    /\ save[s].at = "writing" => save[s].into = "tmp" /\ tmp = Broken
    /\ save[s].at = "renaming" => tmp = Whole(save[s].data)

FileInv ==
    /\ usage.totals.requests \in Nat /\ Recorded(file) \in Nat /\ Recorded(tmp) \in Nat
    /\ save = [s \in Savers |-> save[s]]
    /\ \A s \in Savers : SaverOK(s)
    /\ up \in {"serving", "down"} => save["main"].at = "idle"
    /\ overlapped \in BOOLEAN
    /\ ~overlapped => /\ \A s \in Savers : Undisturbed(s)
                      /\ file.is # "broken" /\ Recorded(file) = promised

LEMMA OtherSaver ==
    ASSUME NEW s \in Savers
    PROVE  /\ Other(s) \in Savers /\ Other(s) # s
           /\ \A t \in Savers : t # s => t = Other(s)
  BY DEF Other, Savers

LEMMA NothingRecorded ==
    /\ NoAggregates.totals.requests = 0 /\ Recorded(Missing) = 0 /\ Recorded(Broken) = 0
    /\ \A data : Recorded(Whole(data)) = data.totals.requests
  BY DEF NoAggregates, NoUsage, Fields, Recorded, Missing, Broken, Whole

LEMMA RecordCounts ==
    ASSUME NEW aggregates, aggregates.totals.requests \in Nat, NEW e, NEW now
    PROVE  Record(aggregates, e, now).totals.requests \in Nat
  <1>1. Record(aggregates, e, now).totals = Plus(aggregates.totals, StatOf(e))
    BY DEF Record
  <1>2. StatOf(e).requests = 1
    BY DEF StatOf, EventStat, NoUsage, Fields
  <1> QED BY <1>1, <1>2 DEF Plus, Fields

LEMMA OverRecords ==
    ASSUME NEW content, NEW data, data.totals.requests \in Nat, Recorded(content) \in Nat
    PROVE  Recorded(Over(content, data)) \in Nat
  BY NothingRecorded DEF Over

LEMMA InitFile == Init => FileInv
  <1> SUFFICES ASSUME Init PROVE FileInv OBVIOUS
  <1>1. usage = NoAggregates /\ file = Missing /\ tmp = Missing /\ promised = 0 /\ overlapped = FALSE
        /\ save = [s \in Savers |-> NoSave]
    BY DEF Init
  <1>2. ASSUME NEW s \in Savers PROVE SaverOK(s) /\ Undisturbed(s)
    BY <1>1, OtherSaver, NothingRecorded DEF SaverOK, Undisturbed, NoSave
  <1>3. file.is # "broken" /\ save["main"].at = "idle"
    BY <1>1 DEF Missing, NoSave, Savers
  <1>4. save = [s \in Savers |-> save[s]] /\ overlapped \in BOOLEAN
    BY <1>1
  <1>5. usage.totals.requests = 0 /\ Recorded(file) = 0 /\ Recorded(tmp) = 0 /\ promised = 0
    BY <1>1, NothingRecorded
  <1> QED BY <1>2, <1>3, <1>4, <1>5 DEF FileInv

LEMMA MarshalKeepsFile ==
    ASSUME FileInv, NEW s \in Savers, Saving(s, "idle"), Marshal(s),
           UNCHANGED <<usage, file, tmp, promised>>,
           (s = "ticker" /\ up' = up) \/ up' = "stopping", up \in {"serving", "stopping"}
    PROVE  FileInv'
  <1> DEFINE q == [at |-> "opening", data |-> usage, into |-> "tmp"]
  <1>1. save' = [save EXCEPT ![s] = q] /\ overlapped' = (overlapped \/ ~Saving(Other(s), "idle"))
    BY DEF Marshal
  <1>2. save'[s] = q /\ save' = [t \in Savers |-> save'[t]]
        /\ \A t \in Savers : t # s => save'[t] = save[t]
    BY <1>1 DEF FileInv
  <1>3. ASSUME NEW t \in Savers PROVE SaverOK(t)'
    BY <1>2 DEF FileInv, SaverOK, NoSave
  <1>4. ASSUME ~overlapped' PROVE save'[Other(s)].at = "idle" /\ save'[s].at = "opening"
    BY <1>1, <1>2, <1>4, OtherSaver DEF Saving
  <1>5. ASSUME NEW t \in Savers, ~overlapped' PROVE Undisturbed(t)'
    <2>1. t = s \/ t = Other(s)
      BY OtherSaver
    <2> QED BY <1>4, <1>5, <2>1 DEF Undisturbed
  <1>6. up' \in {"serving", "down"} => save'["main"].at = "idle"
    BY <1>2 DEF FileInv, Savers
  <1>7. ~overlapped' => ~overlapped
    BY <1>1
  <1> QED BY <1>1, <1>2, <1>3, <1>5, <1>6, <1>7 DEF FileInv, Saving

LEMMA SavesKeepFile ==
    ASSUME FileInv, NEW s \in Savers, SaveStep(s)
    PROVE  FileInv'
  <1>1. save = [t \in Savers |-> save[t]] /\ SaverOK(s)
    BY DEF FileInv
  <1>0. s = "main" => save[s].at = "idle" \/ up \notin {"serving", "down"}
    BY DEF FileInv
  <1>a. save[s].at # "idle"
    BY DEF SaveStep, Open, Write, SaveFails, Rename, Saving
  <1> USE DEF SaveQuiet, tracker
  <1>2. CASE Open(s)
    <2> DEFINE q == [save[s] EXCEPT !.at = "writing", !.into = "tmp"]
    <2>1. save' = [save EXCEPT ![s] = q]
      BY <1>2 DEF Open
    <2>2. save'[s] = q /\ save' = [t \in Savers |-> save'[t]]
          /\ \A t \in Savers : t # s => save'[t] = save[t]
      BY <1>1, <2>1
    <2>3. q.at = "writing" /\ q.into = "tmp" /\ q.data = save[s].data /\ DOMAIN q = DOMAIN NoSave
      BY <1>1 DEF SaverOK, NoSave
    <2> HIDE DEF q
    <2>4. ASSUME NEW t \in Savers PROVE SaverOK(t)'
      BY <2>2, <2>3 DEF FileInv, SaverOK
    <2>5. ASSUME NEW t \in Savers, ~overlapped' PROVE Undisturbed(t)'
      BY <1>2, <2>2, <2>3, <2>5, OtherSaver DEF FileInv, Undisturbed, Open, Saving
    <2>6. up' \in {"serving", "down"} => save'["main"].at = "idle"
      BY <1>0, <1>a, <1>2, <2>2 DEF FileInv, Open, Savers
    <2> QED BY <1>2, <2>2, <2>4, <2>5, <2>6, NothingRecorded DEF FileInv, Open
  <1>3. CASE Write(s)
    <2> DEFINE q == [save[s] EXCEPT !.at = "renaming"]
               data == save[s].data
    <2>1. save' = [save EXCEPT ![s] = q]
      BY <1>3 DEF Write
    <2>2. save'[s] = q /\ save' = [t \in Savers |-> save'[t]]
          /\ \A t \in Savers : t # s => save'[t] = save[t]
      BY <1>1, <2>1
    <2>3. q.at = "renaming" /\ q.data = data /\ DOMAIN q = DOMAIN NoSave
      BY <1>1 DEF SaverOK, NoSave
    <2> HIDE DEF q
    <2>4. ASSUME NEW t \in Savers PROVE SaverOK(t)'
      BY <2>2, <2>3 DEF FileInv, SaverOK
    <2>5. Recorded(tmp') \in Nat /\ Recorded(file') \in Nat
      BY <1>1, <1>3, OverRecords DEF FileInv, Write, SaverOK
    <2>6. ~overlapped => tmp' = Whole(data) /\ file' = file
      <3>1. ~overlapped => save[s].into = "tmp" /\ tmp = Broken
        BY <1>3 DEF FileInv, Undisturbed, Write, Saving
      <3>2. Over(Broken, data) = Whole(data)
        BY <1>1, NothingRecorded DEF Over, SaverOK
      <3> QED BY <1>3, <3>1, <3>2 DEF Write
    <2>7. ASSUME NEW t \in Savers, ~overlapped' PROVE Undisturbed(t)'
      <3>1. save'[Other(s)].at = "idle" /\ save'[s].at = "renaming"
        BY <1>3, <1>a, <2>2, <2>3, <2>7, OtherSaver DEF FileInv, Undisturbed, Write
      <3>2. tmp' = Whole(save'[s].data)
        BY <1>3, <2>2, <2>3, <2>6, <2>7 DEF Write
      <3>3. t = s \/ t = Other(s)
        BY OtherSaver
      <3> QED BY <3>1, <3>2, <3>3 DEF Undisturbed
    <2>8. up' \in {"serving", "down"} => save'["main"].at = "idle"
      BY <1>0, <1>a, <1>3, <2>2 DEF FileInv, Write, Savers
    <2> QED BY <1>3, <2>2, <2>4, <2>5, <2>6, <2>7, <2>8 DEF FileInv, Write
  <1>4. ASSUME save' = [save EXCEPT ![s] = NoSave], Return(s),
               UNCHANGED <<usage, file, tmp, promised, overlapped>>
        PROVE  FileInv'
    <2>1. save'[s] = NoSave /\ save' = [t \in Savers |-> save'[t]]
          /\ \A t \in Savers : t # s => save'[t] = save[t]
      BY <1>1, <1>4
    <2>2. ASSUME NEW t \in Savers PROVE SaverOK(t)'
      BY <2>1, NothingRecorded DEF FileInv, SaverOK, NoSave
    <2>3. ASSUME NEW t \in Savers, ~overlapped PROVE Undisturbed(t)'
      BY <1>4, <2>1, <2>3, OtherSaver DEF FileInv, Undisturbed, NoSave
    <2>4. up' \in {"serving", "down"} => save'["main"].at = "idle"
      BY <1>4, <2>1 DEF FileInv, Return, Savers
    <2> QED BY <1>4, <2>1, <2>2, <2>3, <2>4 DEF FileInv
  <1>5. CASE SaveFails(s)
    BY <1>4, <1>5 DEF SaveFails
  <1>6. CASE Rename(s) /\ tmp = Missing
    BY <1>4, <1>6 DEF Rename
  <1>7. CASE Rename(s) /\ tmp # Missing
    <2>1. /\ file' = tmp /\ tmp' = Missing /\ promised' = save[s].data.totals.requests
          /\ save' = [save EXCEPT ![s] = NoSave, ![Other(s)].into = Moved[@]]
          /\ save[s].at = "renaming" /\ UNCHANGED <<usage, overlapped>>
      BY <1>7 DEF Rename, Saving
    <2>2. save' = [t \in Savers |-> save'[t]] /\ save'[s] = NoSave
          /\ \E into : save'[Other(s)] = [save[Other(s)] EXCEPT !.into = into]
      BY <1>1, <2>1, OtherSaver
    <2>3. save'[Other(s)].at = save[Other(s)].at /\ save'[Other(s)].data = save[Other(s)].data
          /\ DOMAIN save'[Other(s)] = DOMAIN NoSave
      BY <2>2, OtherSaver DEF FileInv, SaverOK, NoSave
    <2>4. ASSUME NEW t \in Savers PROVE SaverOK(t)'
      <3>1. CASE t = s
        BY <2>2, <3>1, NothingRecorded DEF SaverOK, NoSave
      <3>2. CASE t = Other(s)
        BY <2>3, <3>2 DEF FileInv, SaverOK
      <3> QED BY <3>1, <3>2, OtherSaver
    <2>5. ASSUME ~overlapped
          PROVE  /\ \A t \in Savers : save'[t].at = "idle"
                 /\ file'.is = "whole" /\ Recorded(file') = promised'
      <3>1. Undisturbed(s)
        BY <2>5 DEF FileInv
      <3>2. save'[s].at = "idle" /\ save'[Other(s)].at = "idle"
        BY <2>1, <2>2, <2>3, <3>1 DEF Undisturbed, NoSave
      <3>3. file' = Whole(save[s].data)
        BY <2>1, <3>1 DEF Undisturbed
      <3>4. file'.is = "whole"
        BY <3>3 DEF Whole
      <3>5. Recorded(file') = promised'
        BY <2>1, <3>3, NothingRecorded
      <3> QED BY <3>2, <3>4, <3>5, OtherSaver
    <2>6. up' \in {"serving", "down"} => save'["main"].at = "idle"
      BY <1>7, <2>2, <2>3, OtherSaver DEF FileInv, Rename, Return, Savers
    <2> QED BY <2>1, <2>2, <2>4, <2>5, <2>6, NothingRecorded DEF FileInv, Undisturbed
  <1> QED BY <1>2, <1>3, <1>5, <1>6, <1>7 DEF SaveStep

LEMMA StepKeepsFile == FileInv /\ [Next]_ledgerVars => FileInv'
  <1> SUFFICES ASSUME FileInv, [Next]_ledgerVars PROVE FileInv' OBVIOUS
  <1>1. ASSUME UNCHANGED <<file, tmp, save, promised, overlapped>>, usage'.totals.requests \in Nat,
               up' = up \/ up = "down"
        PROVE  FileInv'
    BY <1>1 DEF FileInv, SaverOK, Undisturbed
  <1>2. ASSUME UNCHANGED <<usage, disk, up>> PROVE FileInv'
    BY <1>1, <1>2 DEF disk, FileInv
  <1>3. ASSUME NEW r \in Requests, RequestStep(r) PROVE FileInv'
    <2>1. CASE RecordUsage(r)
      BY <1>1, <2>1, RecordCounts DEF RecordUsage, Quiet, disk, FileInv
    <2>2. CASE ~RecordUsage(r)
      BY <1>2, <1>3, <2>2 DEF RequestStep, Arrive, Refuse, Check, DropBlocked, Serve, LogRequest, Close,
                              Quiet, tracker
    <2> QED BY <2>1, <2>2
  <1>4. CASE OperatorStep
    BY <1>2, <1>4 DEF OperatorStep, AddKnown, StartAdd, StartRemove, WriteMasks, WriteMasksFails, Adopt,
                      EditQuiet, tracker
  <1>5. CASE TickerSaves
    BY <1>5, MarshalKeepsFile DEF TickerSaves, SaveQuiet, tracker, Savers, Listening
  <1>6. CASE Signal
    BY <1>6, MarshalKeepsFile DEF Signal, SaveQuiet, tracker, Savers, FileInv, Saving
  <1>7. ASSUME NEW s \in Savers, SaveStep(s) PROVE FileInv'
    BY <1>7, SavesKeepFile
  <1>8. CASE Tick
    BY <1>2, <1>8 DEF Tick, tracker
  <1>9. CASE Stop
    <2>1. usage' = NoAggregates /\ save' = [s \in Savers |-> NoSave]
          /\ UNCHANGED <<file, tmp, promised, overlapped>>
      BY <1>9 DEF Stop
    <2>2. ASSUME NEW s \in Savers PROVE SaverOK(s)' /\ Undisturbed(s)' /\ save'[s].at = "idle"
      BY <2>1, OtherSaver, NothingRecorded DEF SaverOK, Undisturbed, NoSave
    <2> QED BY <2>1, <2>2, NothingRecorded DEF FileInv, Savers
  <1>10. CASE Restart
    BY <1>1, <1>10 DEF Restart, disk, FileInv, Recorded
  <1>11. CASE UNCHANGED ledgerVars
    BY <1>2, <1>11 DEF ledgerVars, tracker
  <1> QED BY <1>3, <1>4, <1>5, <1>6, <1>7, <1>8, <1>9, <1>10, <1>11 DEF Next

(***************************************************************************)
(* As long as no two saves were under way at once, usage.json is whole and *)
(* holds all the last completed save held, wherever a write failed or the  *)
(* process died (Tracker.Save, loadUsage).                                 *)
(***************************************************************************)
THEOREM SavedUsageIsKept == Spec => []UsageKept
  <1>1. FileInv => UsageKept
    BY DEF FileInv, UsageKept
  <1> QED BY <1>1, InitFile, StepKeepsFile, PTL DEF Spec

-----------------------------------------------------------------------------
(***************************************************************************)
(* The recent log.  An event belongs to the request that has its number,   *)
(* which has been logged and, if the event carries a status, answered.  A  *)
(* request that is about to attach its status owns the event of its        *)
(* number, if the ring still has one.                                      *)
(***************************************************************************)
EntryOK(e) ==
    LET own == req[e.by] IN
    /\ DOMAIN e = {"seq", "by", "error", "status"}
    /\ e.seq \in 1..log.seq /\ e.by \in Requests /\ e.error \in BOOLEAN /\ e.status \in Nat
    /\ own.seq = e.seq /\ own.at \in {"closing", "done"}
    /\ e.status # 0 => own.at = "done" /\ e.status = own.status

\* The event of a request is in the ring, unless RecentCap later ones are.
Logged(r) ==
    req[r].seq > log.seq - RecentCap =>
        \E e \in log.recent :
            /\ e.seq = req[r].seq /\ e.by = r
            /\ At(r, "done") => e.status = req[r].status /\ e.error

ProgressTyped(q) ==
    /\ DOMAIN q = DOMAIN NoRequest /\ q.at \in Steps /\ q.status \in Nat
    /\ q.event.error \in BOOLEAN /\ q.call.answers \subseteq Answer

ProgressOK(r) ==
    /\ ProgressTyped(req[r]) /\ req[r].seq \in 0..log.seq
    /\ req[r].at \notin {"closing", "done"} => req[r].seq = 0
    /\ At(r, "closing") => \A e \in log.recent : e.seq = req[r].seq => e.by = r
    /\ At(r, "closing") /\ req[r].seq # 0 => Logged(r)
    /\ At(r, "done") /\ req[r].status >= 400 => Logged(r)

LogInv ==
    /\ DOMAIN log = {"recent", "seq"} /\ log.seq \in Nat
    /\ req = [r \in Requests |-> req[r]]
    /\ \A e \in log.recent : EntryOK(e)
    /\ \A e, f \in log.recent : e.seq = f.seq => e = f
    /\ \A r \in Requests : ProgressOK(r)

LEMMA NothingUnderWay ==
    ASSUME NEW q, q = NoRequest \/ q = [NoRequest EXCEPT !.at = "lost"]
    PROVE  ProgressTyped(q) /\ q.seq = 0 /\ q.at \in {"idle", "lost"}
  <1>1. DOMAIN q = DOMAIN NoRequest /\ q.at \in {"idle", "lost"}
        /\ q.seq = 0 /\ q.status = 0 /\ q.event = NoEvent /\ q.call = Idle
    <2>1. CASE q = NoRequest
      BY <2>1 DEF NoRequest
    <2>2. CASE q = [NoRequest EXCEPT !.at = "lost"]
      BY <2>2 DEF NoRequest
    <2> QED BY <2>1, <2>2
  <1>2. NoEvent.error = FALSE /\ Idle.answers = {}
    BY DEF NoEvent, Idle
  <1>3. q.at \in Steps /\ q.status \in Nat
    BY <1>1 DEF Steps
  <1>4. q.event.error \in BOOLEAN
    BY <1>1, <1>2
  <1>5. q.call.answers \subseteq Answer
    BY <1>1, <1>2
  <1> QED BY <1>1, <1>3, <1>4, <1>5 DEF ProgressTyped

LEMMA InitLog == Init => LogInv
  <1> SUFFICES ASSUME Init PROVE LogInv OBVIOUS
  <1>1. log = [recent |-> {}, seq |-> 0] /\ req = [r \in Requests |-> NoRequest]
    BY DEF Init, EmptyLog
  <1>2. ASSUME NEW r \in Requests PROVE ProgressOK(r)
    <2>1. req[r] = NoRequest
      BY <1>1
    <2> QED BY <1>1, <2>1, NothingUnderWay DEF ProgressOK, At
  <1> QED BY <1>1, <1>2 DEF LogInv

\* A step of a request that has not been logged and is not now.
LEMMA UnloggedStep ==
    ASSUME LogInv, UNCHANGED log, NEW r \in Requests, NEW q, req' = [req EXCEPT ![r] = q],
           req[r].seq = 0, ProgressTyped(q), q.at # "done", q.seq = 0
    PROVE  LogInv'
  <1>1. req' = [s \in Requests |-> req'[s]] /\ req'[r] = q
        /\ \A s \in Requests : s # r => req'[s] = req[s]
    BY DEF LogInv
  <1>2. ASSUME NEW e \in log.recent PROVE EntryOK(e)' /\ e.seq # 0
    <2>1. EntryOK(e) BY DEF LogInv
    <2>2. e.by # r /\ e.by \in Requests /\ e.seq # 0
      BY <2>1 DEF EntryOK, LogInv
    <2> QED BY <1>1, <2>1, <2>2 DEF EntryOK
  <1>3. ASSUME NEW s \in Requests PROVE ProgressOK(s)'
    <2>1. CASE s = r
      BY <1>1, <1>2, <2>1 DEF ProgressOK, LogInv, At
    <2>2. CASE s # r
      <3>1. ProgressOK(s) /\ req'[s] = req[s] BY <1>1, <2>2 DEF LogInv
      <3> QED BY <3>1 DEF ProgressOK, Logged, At
    <2> QED BY <2>1, <2>2
  <1> QED BY <1>1, <1>2, <1>3 DEF LogInv

\* What the ring holds when an event has come.
LEMMA RingAfter ==
    ASSUME NEW ring, NEW event, NEW numbered, numbered = [event EXCEPT !.seq = ring.seq + 1]
    PROVE  RecordRequest(ring, event)
             = [recent |-> {e \in ring.recent \cup {numbered} : e.seq > ring.seq + 1 - RecentCap},
                seq |-> ring.seq + 1]
  BY Zenon DEF RecordRequest

\* RecordRequest, for a request without an event so far.
LEMMA NewEvent ==
    ASSUME LogInv, NEW r \in Requests, req[r].seq = 0,
           NEW error \in BOOLEAN, NEW status \in Nat,
           log' = RecordRequest(log, NewEntry(r, error, status)),
           NEW q, req' = [req EXCEPT ![r] = q], ProgressTyped(q), q.seq = log'.seq,
           \/ q.at = "closing" /\ status = 0
           \/ q.at = "done" /\ status = q.status /\ error
    PROVE  LogInv'
  <1> DEFINE n == log.seq + 1
             new == [seq |-> n, by |-> r, error |-> error, status |-> status]
  <1>1. log.seq \in Nat /\ n \in Nat /\ RecentCap \in Nat \ {0}
    BY TrackerAssumption DEF LogInv
  <1>2. log' = [recent |-> {e \in log.recent \cup {new} : e.seq > log.seq + 1 - RecentCap}, seq |-> n]
    <2>1. [NewEntry(r, error, status) EXCEPT !.seq = log.seq + 1] = new
      BY DEF NewEntry
    <2> HIDE DEF new
    <2> HIDE DEF new
    <2> QED BY <2>1, RingAfter
  <1>3. log'.seq = n /\ DOMAIN log' = {"recent", "seq"}
        /\ log'.recent = {e \in log.recent \cup {new} : e.seq > log.seq + 1 - RecentCap}
    BY <1>2
  <1>4. req' = [s \in Requests |-> req'[s]] /\ req'[r] = q
        /\ \A s \in Requests : s # r => req'[s] = req[s]
    BY DEF LogInv
  <1>5. ASSUME NEW e \in log.recent
        PROVE  EntryOK(e) /\ e.seq \in 1..log.seq /\ e.by \in Requests /\ e.by # r
    <2>1. EntryOK(e) BY DEF LogInv
    <2> QED BY <2>1 DEF EntryOK, LogInv
  <1>6. new.seq = n /\ new.by = r /\ new.error = error /\ new.status = status
        /\ DOMAIN new = {"seq", "by", "error", "status"}
    OBVIOUS
  <1>7. new \in log'.recent
    BY <1>1, <1>3, <1>6
  <1> HIDE DEF new
  <1>8. ASSUME NEW e \in log'.recent PROVE EntryOK(e)'
    <2>1. CASE e = new
      BY <1>1, <1>3, <1>4, <1>6, <2>1 DEF EntryOK
    <2>2. CASE e \in log.recent
      <3>1. EntryOK(e) /\ req'[e.by] = req[e.by] BY <1>4, <1>5, <2>2
      <3> QED BY <1>1, <1>3, <3>1 DEF EntryOK
    <2> QED BY <1>3, <2>1, <2>2
  <1>9. ASSUME NEW e \in log'.recent, NEW f \in log'.recent, e.seq = f.seq PROVE e = f
    <2>1. \A g \in log.recent : g.seq # n
      BY <1>1, <1>5
    <2> QED BY <1>3, <1>6, <1>9, <2>1 DEF LogInv
  <1>10. ASSUME NEW s \in Requests PROVE ProgressOK(s)'
    <2>1. CASE s = r
      <3>1. ASSUME NEW e \in log'.recent, e.seq = n PROVE e.by = r
        BY <1>6, <1>7, <1>9, <3>1
      <3>2. \E e \in log'.recent : e.seq = n /\ e.by = r /\ (q.at = "done" => e.status = q.status /\ e.error)
        BY <1>6, <1>7
      <3>3. Logged(r)'
        BY <1>3, <1>4, <3>2 DEF Logged, At
      <3> QED BY <1>1, <1>3, <1>4, <2>1, <3>1, <3>3 DEF ProgressOK, At
    <2>2. CASE s # r
      <3>1. ProgressOK(s) /\ req'[s] = req[s] /\ req[s].seq \in 0..log.seq
        BY <1>4, <2>2 DEF LogInv, ProgressOK
      <3>2. ASSUME NEW e \in log'.recent, e.seq = req[s].seq PROVE e \in log.recent
        BY <1>1, <1>3, <1>6, <3>1, <3>2
      <3>3. Logged(s) => Logged(s)'
        <4>1. SUFFICES ASSUME Logged(s), req[s].seq > log.seq + 1 - RecentCap
                       PROVE  \E e \in log'.recent :
                                 /\ e.seq = req[s].seq /\ e.by = s
                                 /\ req[s].at = "done" => e.status = req[s].status /\ e.error
          BY <1>1, <1>3, <3>1 DEF Logged, At
        <4>2. req[s].seq > log.seq - RecentCap
          BY <1>1, <3>1, <4>1
        <4>3. PICK e \in log.recent : /\ e.seq = req[s].seq /\ e.by = s
                                      /\ req[s].at = "done" => e.status = req[s].status /\ e.error
          BY <4>1, <4>2 DEF Logged, At
        <4>4. e \in log'.recent
          BY <1>3, <4>1, <4>3
        <4> QED BY <4>3, <4>4
      <3> QED BY <1>1, <1>3, <3>1, <3>2, <3>3 DEF ProgressOK, At
    <2> QED BY <2>1, <2>2
  <1> QED BY <1>1, <1>3, <1>4, <1>8, <1>9, <1>10 DEF LogInv

\* logRequests leaves the log alone: the answer was a success, and no event of this
\* request carries a status.
LEMMA Unannotated ==
    ASSUME LogInv, UNCHANGED log, NEW r \in Requests, req[r].at = "closing",
           NEW q, req' = [req EXCEPT ![r] = q], ProgressTyped(q), q.at = "done", q.status < 400,
           q.seq = IF req[r].seq = 0 THEN log.seq ELSE req[r].seq
    PROVE  LogInv'
  <1>1. req' = [s \in Requests |-> req'[s]] /\ req'[r] = q
        /\ \A s \in Requests : s # r => req'[s] = req[s]
    BY DEF LogInv
  <1>2. ASSUME NEW e \in log.recent PROVE EntryOK(e)'
    <2>1. EntryOK(e) BY DEF LogInv
    <2>2. CASE e.by = r
      <3>1. e.seq = req[r].seq /\ e.seq # 0 /\ e.status = 0
        BY <2>1, <2>2 DEF EntryOK, LogInv
      <3> QED BY <1>1, <2>1, <2>2, <3>1 DEF EntryOK
    <2>3. CASE e.by # r
      BY <1>1, <2>1, <2>3 DEF EntryOK
    <2> QED BY <2>2, <2>3
  <1>3. ASSUME NEW s \in Requests PROVE ProgressOK(s)'
    <2>1. CASE s = r
      <3>1. req[r].seq \in 0..log.seq /\ log.seq \in 0..log.seq /\ q.status \in Nat
        BY DEF LogInv, ProgressOK, ProgressTyped
      <3>2. ~(q.status >= 400)
        BY <3>1
      <3> QED BY <1>1, <2>1, <3>1, <3>2 DEF ProgressOK, At
    <2>2. CASE s # r
      <3>1. ProgressOK(s) /\ req'[s] = req[s] BY <1>1, <2>2 DEF LogInv
      <3> QED BY <3>1 DEF ProgressOK, Logged, At
    <2> QED BY <2>1, <2>2
  <1> QED BY <1>1, <1>2, <1>3 DEF LogInv

\* AnnotateRequest, for the event of this request or, if the ring has dropped it, for none.
LEMMA OwnAnnotated ==
    ASSUME LogInv, NEW r \in Requests, req[r].at = "closing", req[r].seq # 0,
           NEW q, req' = [req EXCEPT ![r] = q], ProgressTyped(q), q.at = "done", q.status >= 400,
           q.seq = req[r].seq, log' = AnnotateRequest(log, q.seq, q.status)
    PROVE  LogInv'
  <1> DEFINE n == q.seq
             With(e) == IF e.seq = n THEN Attach(e, q.status) ELSE e
  <1>1. DOMAIN log' = {"recent", "seq"} /\ log'.seq = log.seq /\ log.seq \in Nat
        /\ log'.recent = {With(e) : e \in log.recent}
    BY DEF AnnotateRequest, LogInv
  <1>2. req' = [s \in Requests |-> req'[s]] /\ req'[r] = q
        /\ \A s \in Requests : s # r => req'[s] = req[s]
    BY DEF LogInv
  <1>3. q.status \in Nat /\ n \in 0..log.seq
    BY DEF ProgressTyped, ProgressOK, LogInv
  <1>4. ASSUME NEW e \in log.recent
        PROVE  /\ EntryOK(e) /\ e.by \in Requests
               /\ e.seq = n <=> e.by = r
    <2>1. EntryOK(e) /\ ProgressOK(r) BY DEF LogInv
    <2> QED BY <2>1 DEF EntryOK, ProgressOK, At
  <1>5. ASSUME NEW e \in log.recent
        PROVE  /\ With(e).seq = e.seq /\ With(e).by = e.by
               /\ DOMAIN With(e) = {"seq", "by", "error", "status"}
               /\ e.by = r => With(e).status = q.status /\ With(e).error = TRUE
               /\ e.by # r => With(e) = e
    <2>1. DOMAIN e = {"seq", "by", "error", "status"} /\ e.error \in BOOLEAN
      BY <1>4 DEF EntryOK
    <2>2. CASE e.by # r
      BY <1>4, <2>1, <2>2
    <2>3. CASE e.by = r
      <3>1. With(e) = [e EXCEPT !.status = q.status, !.error = @ \/ q.status >= 400]
        BY <1>4, <2>3 DEF Attach
      <3>2. (e.error \/ q.status >= 400) = TRUE
        BY <2>1
      <3>3. With(e) = [e EXCEPT !.status = q.status, !.error = TRUE]
        BY <3>1, <3>2
      <3> HIDE DEF With
      <3> QED BY <2>1, <2>3, <3>3
    <2> QED BY <2>2, <2>3
  <1> HIDE DEF With
  <1>6. ASSUME NEW f \in log'.recent PROVE EntryOK(f)'
    <2>1. PICK e \in log.recent : f = With(e)
      BY <1>1
    <2>2. EntryOK(e) BY <1>4
    <2>3. CASE e.by = r
      BY <1>1, <1>2, <1>3, <1>5, <2>1, <2>2, <2>3 DEF EntryOK
    <2>4. CASE e.by # r
      <3>1. f = e /\ req'[e.by] = req[e.by]
        BY <1>2, <1>4, <1>5, <2>1, <2>4
      <3> QED BY <1>1, <2>2, <3>1 DEF EntryOK
    <2> QED BY <2>3, <2>4
  <1>7. ASSUME NEW e \in log'.recent, NEW f \in log'.recent, e.seq = f.seq PROVE e = f
    <2>1. PICK d \in log.recent : e = With(d)
      BY <1>1
    <2>2. PICK g \in log.recent : f = With(g)
      BY <1>1
    <2>3. d.seq = g.seq
      BY <1>5, <1>7, <2>1, <2>2
    <2> QED BY <2>1, <2>2, <2>3 DEF LogInv
  <1>8. ASSUME NEW s \in Requests PROVE ProgressOK(s)'
    <2>0. ProgressOK(s) /\ ProgressOK(r) BY DEF LogInv
    <2>1. CASE s = r
      <3>1. Logged(r)'
        <4>1. SUFFICES ASSUME n > log.seq - RecentCap
                       PROVE  \E f \in log'.recent : f.seq = n /\ f.by = r /\ f.status = q.status /\ f.error
          BY <1>1, <1>2 DEF Logged, At
        <4>2. PICK e \in log.recent : e.seq = n /\ e.by = r
          BY <2>0, <4>1 DEF ProgressOK, Logged, At
        <4>3. With(e) \in log'.recent
          BY <1>1
        <4>4. With(e).seq = n /\ With(e).by = r /\ With(e).status = q.status /\ With(e).error = TRUE
          BY <1>5, <4>2
        <4> QED BY <4>3, <4>4
      <3> QED BY <1>1, <1>2, <1>3, <2>1, <3>1 DEF ProgressOK, At
    <2>2. CASE s # r
      <3>1. req'[s] = req[s]
        BY <1>2, <2>2
      <3>2. Logged(s) => Logged(s)'
        <4>1. SUFFICES ASSUME Logged(s), req[s].seq > log.seq - RecentCap
                       PROVE  \E e \in log'.recent :
                                 /\ e.seq = req[s].seq /\ e.by = s
                                 /\ req[s].at = "done" => e.status = req[s].status /\ e.error
          BY <1>1, <3>1 DEF Logged, At
        <4>2. PICK e \in log.recent : /\ e.seq = req[s].seq /\ e.by = s
                                      /\ req[s].at = "done" => e.status = req[s].status /\ e.error
          BY <4>1 DEF Logged, At
        <4>3. e \in log'.recent
          <5>1. With(e) = e
            BY <1>5, <2>2, <4>2
          <5>2. With(e) \in log'.recent
            BY <1>1
          <5> QED BY <5>1, <5>2
        <4> QED BY <4>2, <4>3
      <3>3. ASSUME At(s, "closing"), NEW f \in log'.recent, f.seq = req[s].seq PROVE f.by = s
        <4>1. PICK e \in log.recent : f = With(e)
          BY <1>1
        <4> QED BY <1>5, <2>0, <3>3, <4>1 DEF ProgressOK
      <3> QED BY <1>1, <2>0, <3>1, <3>2, <3>3 DEF ProgressOK, At
    <2> QED BY <2>1, <2>2
  <1> QED BY <1>1, <1>2, <1>6, <1>7, <1>8 DEF LogInv

\* What of a request the recent log is about is as it was.
LEMMA SameProgress ==
    ASSUME LogInv, UNCHANGED log, req' = [r \in Requests |-> req'[r]],
           \A r \in Requests : /\ DOMAIN req'[r] = DOMAIN req[r] /\ req'[r].at = req[r].at
                               /\ req'[r].status = req[r].status /\ req'[r].seq = req[r].seq
                               /\ req'[r].event = req[r].event /\ req'[r].call = req[r].call
    PROVE  LogInv'
  <1>1. ASSUME NEW e \in log.recent PROVE EntryOK(e)'
    <2>1. EntryOK(e) BY DEF LogInv
    <2> QED BY <2>1 DEF EntryOK
  <1>2. ASSUME NEW r \in Requests PROVE ProgressOK(r)'
    <2>1. ProgressOK(r) BY DEF LogInv
    <2> QED BY <2>1 DEF ProgressOK, ProgressTyped, Logged, At
  <1> QED BY <1>1, <1>2 DEF LogInv

LEMMA RequestsKeepLog ==
    ASSUME LogInv, NEW r \in Requests, RequestStep(r)
    PROVE  LogInv'
  <1> USE DEF tracker
  <1>1. req = [s \in Requests |-> req[s]] /\ ProgressOK(r) /\ ProgressTyped(req[r]) /\ log.seq \in Nat
    BY DEF LogInv, ProgressOK
  <1>2. req[r].at \notin {"closing", "done"} => req[r].seq = 0
    BY <1>1 DEF ProgressOK
  <1>3. Ended(r).status = req[r].status /\ Ended(r).seq = req[r].seq /\ DOMAIN Ended(r) = DOMAIN NoRequest
        /\ Ended(r).event.error = FALSE /\ Ended(r).call.answers = {}
    BY DEF Ended, NoRequest, NoEvent, Idle
  <1>4. CASE Arrive(r)
    <2>1. PICK call \in CallsOf[r] :
            LET models == IF call.models = <<>> THEN <<call.handler.own>> ELSE call.models
                names  == IF call.handler.checks THEN ToSet(models) ELSE {}
            IN  req' = [req EXCEPT ![r].at = "arrived", ![r].call = call, ![r].targets = models,
                                   ![r].sure = SurelyBlocked(answered, names)]
      BY <1>4 DEF Arrive
    <2> DEFINE models == IF call.models = <<>> THEN <<call.handler.own>> ELSE call.models
               sure == SurelyBlocked(answered, IF call.handler.checks THEN ToSet(models) ELSE {})
               q == [req[r] EXCEPT !.at = "arrived", !.call = call, !.targets = models, !.sure = sure]
    <2>2. req' = [req EXCEPT ![r] = q]
      BY <2>1
    <2>3. q.at = "arrived" /\ q.call = call /\ q.status = req[r].status /\ q.event = req[r].event
          /\ q.seq = req[r].seq /\ DOMAIN q = DOMAIN NoRequest
      BY <1>1 DEF ProgressTyped, NoRequest
    <2>4. call.answers \subseteq Answer
      BY <2>1, LedgerAssumption DEF Calls
    <2> HIDE DEF q
    <2>5. ProgressTyped(q) /\ q.seq = 0
      BY <1>1, <1>2, <1>4, <2>3, <2>4 DEF ProgressTyped, Steps, Arrive, At
    <2> QED BY <1>2, <1>4, <2>2, <2>3, <2>5, UnloggedStep DEF Arrive, At
  <1>5. CASE Refuse(r)
    <2> DEFINE q == [req[r] EXCEPT !.at = "closing", !.status = 400]
    <2>1. req' = [req EXCEPT ![r] = q]
      <3> DEFINE bad == 400
      <3>1. req' = [req EXCEPT ![r].at = "closing", ![r].status = bad]
        BY <1>5, Zenon DEF Refuse
      <3>2. q = [req[r] EXCEPT !.at = "closing", !.status = bad]
        OBVIOUS
      <3> HIDE DEF bad, q
      <3> QED BY <3>1, <3>2
    <2>2. ProgressTyped(q) /\ q.at = "closing" /\ q.seq = req[r].seq
      BY <1>1 DEF ProgressTyped, NoRequest, Steps
    <2> HIDE DEF q
    <2> QED BY <1>2, <1>5, <2>1, <2>2, UnloggedStep DEF Refuse, At
  <1>6. CASE Check(r)
    <2> DEFINE name == req[r].targets[1]
               refused == Handler(r).checks /\ Blocked(name)
               q == [req[r] EXCEPT !.at = "admitted"]
    <2>1. CASE refused
      <3> DEFINE event == [NoEvent EXCEPT !.model = CanonicalOf(name), !.error = TRUE,
                                          !.client = ClientOf[r]]
                 forbidden == 403
                 p == [req[r] EXCEPT !.at = "recording", !.status = forbidden, !.stamp = clock,
                                     !.event = event]
      <3>0. event.error = TRUE /\ forbidden \in Nat
        BY DEF NoEvent
      <3>1. req' = [req EXCEPT ![r].at = "recording", ![r].status = forbidden,
                               ![r].stamp = clock, ![r].event = event]
        BY <1>6, <2>1, Zenon DEF Check
      <3> HIDE DEF event, forbidden
      <3>2. req' = [req EXCEPT ![r] = p]
        BY <3>1
      <3>3. ProgressTyped(p) /\ p.at = "recording" /\ p.seq = req[r].seq
        BY <1>1, <3>0 DEF ProgressTyped, NoRequest, Steps
      <3> HIDE DEF p
      <3> QED BY <1>2, <1>6, <3>2, <3>3, UnloggedStep DEF Check, At
    <2>2. CASE ~refused
      <3>1. req' = [req EXCEPT ![r] = q]
        BY <1>6, <2>2 DEF Check
      <3>2. ProgressTyped(q) /\ q.at = "admitted" /\ q.seq = req[r].seq
        BY <1>1 DEF ProgressTyped, NoRequest, Steps
      <3> HIDE DEF q
      <3> QED BY <1>2, <1>6, <3>1, <3>2, UnloggedStep DEF Check, At
    <2> QED BY <2>1, <2>2
  <1>7. CASE DropBlocked(r)
    <2>1. PICK open : req' = [req EXCEPT ![r].at = "serving", ![r].open = open]
      BY <1>7 DEF DropBlocked
    <2> DEFINE q == [req[r] EXCEPT !.at = "serving", !.open = open]
    <2>2. req' = [req EXCEPT ![r] = q]
      BY <2>1
    <2>3. ProgressTyped(q) /\ q.at = "serving" /\ q.seq = req[r].seq
      BY <1>1 DEF ProgressTyped, NoRequest, Steps
    <2> HIDE DEF q
    <2> QED BY <1>2, <1>7, <2>2, <2>3, UnloggedStep DEF DropBlocked, At
  <1>8. CASE Serve(r)
    <2>1. PICK i \in req[r].open, a \in req[r].call.answers :
            req' = [req EXCEPT ![r].at = IF Counts(r, a) THEN "recording" ELSE "closing",
                               ![r].asked = req[r].targets[i], ![r].status = a.status,
                               ![r].stamp = clock,
                               ![r].event = IF Counts(r, a) THEN EventOf(r, i, a) ELSE NoEvent]
      BY <1>8 DEF Serve
    <2> DEFINE at == IF Counts(r, a) THEN "recording" ELSE "closing"
               event == IF Counts(r, a) THEN EventOf(r, i, a) ELSE NoEvent
               q == [req[r] EXCEPT !.at = at, !.asked = req[r].targets[i], !.status = a.status,
                                   !.stamp = clock, !.event = event]
    <2>2. a \in Answer
      BY <1>1 DEF ProgressTyped
    <2>3. a.status \in Nat /\ a.error \in BOOLEAN
      BY <2>2 DEF Answer
    <2>4. event.error \in BOOLEAN
      <3>1. EventOf(r, i, a).error = a.error
        BY DEF EventOf, NoEvent
      <3>2. NoEvent.error = FALSE
        BY DEF NoEvent
      <3> QED BY <2>3, <3>1, <3>2
    <2>5. at \in {"recording", "closing"}
      OBVIOUS
    <2> HIDE DEF at, event
    <2>6. req' = [req EXCEPT ![r] = q]
      BY <2>1 DEF at, event
    <2>7. ProgressTyped(q) /\ q.at = at /\ q.seq = req[r].seq
      BY <1>1, <2>3, <2>4, <2>5 DEF ProgressTyped, NoRequest, Steps
    <2> HIDE DEF q
    <2> QED BY <1>2, <1>8, <2>5, <2>6, <2>7, UnloggedStep DEF Serve, At
  <1>9. CASE RecordUsage(r)
    <2> DEFINE q == [req[r] EXCEPT !.at = "logging"]
    <2>1. req' = [req EXCEPT ![r] = q]
      BY <1>9 DEF RecordUsage
    <2>2. ProgressTyped(q) /\ q.at = "logging" /\ q.seq = req[r].seq
      BY <1>1 DEF ProgressTyped, NoRequest, Steps
    <2> HIDE DEF q
    <2> QED BY <1>2, <1>9, <2>1, <2>2, UnloggedStep DEF RecordUsage, At
  <1>11. CASE LogRequest(r)
    <2>1. PICK q : q = [Ended(r) EXCEPT !.at = "closing", !.seq = log'.seq] /\ req' = [req EXCEPT ![r] = q]
      BY <1>11 DEF LogRequest
    <2>2. ProgressTyped(q) /\ q.at = "closing" /\ q.seq = log'.seq
      BY <1>1, <1>3, <2>1 DEF ProgressTyped, NoRequest, Steps
    <2>3. req[r].seq = 0
      BY <1>2, <1>11 DEF LogRequest, At
    <2>4. PICK error \in BOOLEAN : error = req[r].event.error
      BY <1>1 DEF ProgressTyped
    <2>5. log' = RecordRequest(log, NewEntry(r, error, 0))
      BY <1>11, <2>4 DEF LogRequest
    <2>6. 0 \in Nat OBVIOUS
    <2> QED BY <2>1, <2>2, <2>3, <2>5, <2>6, NewEvent
  <1>12. CASE Close(r)
    <2> DEFINE seq == IF req[r].seq = 0 THEN log'.seq ELSE req[r].seq
    <2>1. PICK q : q = [Ended(r) EXCEPT !.at = "done", !.seq = seq] /\ req' = [req EXCEPT ![r] = q]
      BY <1>3, <1>12 DEF Close
    <2>2. ProgressTyped(q) /\ q.at = "done" /\ q.seq = seq /\ q.status = req[r].status /\ q.status \in Nat
      BY <1>1, <1>3, <2>1 DEF ProgressTyped, NoRequest, Steps
    <2>3. req[r].at = "closing" /\ req[r].seq \in 0..log.seq
      BY <1>1, <1>12 DEF Close, At, ProgressOK
    <2>4. CASE q.status < 400
      <3>1. log' = log
        BY <1>12, <2>2, <2>4 DEF Close
      <3> QED BY <2>1, <2>2, <2>3, <2>4, <3>1, Unannotated
    <2>5. CASE ~(q.status < 400) /\ req[r].seq # 0
      <3>1. log' = AnnotateRequest(log, q.seq, q.status) /\ q.status >= 400
        BY <1>12, <2>2, <2>5 DEF Close
      <3> QED BY <2>1, <2>2, <2>3, <2>5, <3>1, OwnAnnotated
    <2>6. CASE ~(q.status < 400) /\ req[r].seq = 0
      <3>1. log' = RecordRequest(log, NewEntry(r, TRUE, q.status))
        BY <1>12, <2>2, <2>6 DEF Close
      <3> QED BY <2>1, <2>2, <2>6, <3>1, NewEvent
    <2> QED BY <2>4, <2>5, <2>6
  <1> QED
    BY <1>4, <1>5, <1>6, <1>7, <1>8, <1>9, <1>11, <1>12 DEF RequestStep

LEMMA StepKeepsLog == LogInv /\ [Next]_ledgerVars => LogInv'
  <1> SUFFICES ASSUME LogInv, [Next]_ledgerVars PROVE LogInv' OBVIOUS
  <1> USE DEF tracker
  <1>1. ASSUME UNCHANGED <<req, log>> PROVE LogInv'
    BY <1>1, SameProgress DEF LogInv
  <1>2. CASE \E r \in Requests : RequestStep(r)
    BY <1>2, RequestsKeepLog
  <1>3. CASE OperatorStep
    <2>1. CASE StartRemove
      <3> DEFINE q(r) == [req[r] EXCEPT !.sure = SurelyBlocked(answered', @)]
      <3>1. req' = [r \in Requests |-> q(r)] /\ log' = log
        BY <2>1 DEF StartRemove, EditQuiet
      <3>2. ASSUME NEW r \in Requests
            PROVE  /\ DOMAIN q(r) = DOMAIN req[r] /\ q(r).at = req[r].at
                   /\ q(r).status = req[r].status /\ q(r).seq = req[r].seq
                   /\ q(r).event = req[r].event /\ q(r).call = req[r].call
        <4>1. DOMAIN req[r] = DOMAIN NoRequest
          BY DEF LogInv, ProgressOK, ProgressTyped
        <4> QED BY <4>1 DEF NoRequest
      <3> HIDE DEF q
      <3> QED BY <3>1, <3>2, SameProgress
    <2>2. CASE ~StartRemove
      BY <1>1, <1>3, <2>2 DEF OperatorStep, AddKnown, StartAdd, WriteMasks, WriteMasksFails, Adopt, EditQuiet
    <2> QED BY <2>1, <2>2
  <1>4. CASE TickerSaves \/ Signal \/ Tick \/ Restart
    BY <1>1, <1>4 DEF TickerSaves, Signal, SaveQuiet, Tick, Restart
  <1>5. ASSUME NEW s \in Savers, SaveStep(s) PROVE LogInv'
    BY <1>1, <1>5 DEF SaveStep, Open, Write, SaveFails, Rename, SaveQuiet
  <1>6. CASE Stop
    <2>1. log' = [recent |-> {}, seq |-> 0]
          /\ req' = [r \in Requests |-> IF At(r, "idle") THEN NoRequest ELSE [NoRequest EXCEPT !.at = "lost"]]
      BY <1>6 DEF Stop, EmptyLog
    <2>2. ASSUME NEW r \in Requests
          PROVE  ProgressTyped(req'[r]) /\ req'[r].seq = 0 /\ req'[r].at \in {"idle", "lost"}
      <3>1. req'[r] = NoRequest \/ req'[r] = [NoRequest EXCEPT !.at = "lost"]
        BY <2>1
      <3> QED BY <3>1, NothingUnderWay
    <2> QED BY <2>1, <2>2 DEF LogInv, ProgressOK, At
  <1>7. CASE UNCHANGED ledgerVars
    BY <1>1, <1>7 DEF ledgerVars
  <1> QED BY <1>2, <1>3, <1>4, <1>5, <1>6, <1>7 DEF Next

(***************************************************************************)
(* Every failed request has its own event in the recent log, with the      *)
(* status its client got, until RecentCap later events have come, and no   *)
(* event carries the status of another request, however many requests are  *)
(* logged and answered in between (logRequests, AnnotateRequest).          *)
(***************************************************************************)
THEOREM FailuresAreLogged == Spec => []FailuresLogged
  <1>1. LogInv => FailuresLogged
    BY DEF LogInv, EntryOK, ProgressOK, Logged, FailuresLogged, At
  <1> QED BY <1>1, InitLog, StepKeepsLog, PTL DEF Spec

-----------------------------------------------------------------------------
(***************************************************************************)
(* Type correctness.  Every aggregate there is, in memory, in a save under *)
(* way and in the files, has its hourly entries under hours of its own;    *)
(* no mask is both the operator's and the configuration's.                 *)
(***************************************************************************)
SeriesOK(aggregates) == \A d \in Dimensions : DOMAIN aggregates.hourly[d] \subseteq DOMAIN aggregates.hours

\* The aggregates there are: in memory, in the files, on their way there.
Around == {usage, file.usage, tmp.usage} \cup {save[s].data : s \in Savers}

FilesTyped ==
    file.is \in {"missing", "broken", "whole"} /\ tmp.is \in {"missing", "broken", "whole"}

OwnMasksInv ==
    /\ operator \cap config = {}
    /\ edit.at # "idle" => edit.next \cap config = {}

RestInv ==
    /\ clock \in Times /\ up \in {"serving", "stopping", "draining", "down"}
    /\ FilesTyped /\ OwnMasksInv /\ \A a \in Around : SeriesOK(a)

LEMMA NoSeries == SeriesOK(NoAggregates)
  BY DEF SeriesOK, NoAggregates

LEMMA EmptyFiles ==
    /\ Missing.usage = NoAggregates /\ Broken.usage = NoAggregates /\ NoSave.data = NoAggregates
    /\ Missing.is = "missing" /\ Broken.is = "broken"
    /\ \A data : Whole(data).is = "whole" /\ Whole(data).usage = data
  BY DEF Missing, Broken, Whole, NoSave

\* An hour that is new takes away what is too old from all the series alike.
LEMMA RecordKeepsSeries ==
    ASSUME NEW aggregates, SeriesOK(aggregates), NEW e, NEW now
    PROVE  SeriesOK(Record(aggregates, e, now))
  <1> DEFINE hour == HourOf(now)
             fresh == hour \notin DOMAIN aggregates.hours
             hours == Pruned(aggregates.hours, fresh, now)
             kept(d) == Pruned(aggregates.hourly[d], fresh, now)
             after == Record(aggregates, e, now)
  <1>1. ASSUME NEW d \in Dimensions PROVE DOMAIN kept(d) \subseteq DOMAIN hours
    <2>1. DOMAIN aggregates.hourly[d] \subseteq DOMAIN aggregates.hours
      BY DEF SeriesOK
    <2> QED BY <2>1 DEF Pruned, Since
  <1>2. DOMAIN after.hours = DOMAIN hours \cup {hour}
    <2>1. after.hours = AddTo(hours, hour, StatOf(e))
      BY DEF Record
    <2> QED BY <2>1 DEF AddTo, Put
  <1>3. ASSUME NEW d \in Dimensions PROVE DOMAIN after.hourly[d] \subseteq DOMAIN kept(d) \cup {hour}
    <2>1. \E value : after.hourly[d] = IF Counted(d, e) THEN Put(kept(d), hour, value) ELSE kept(d)
      BY DEF Record
    <2> QED BY <2>1 DEF Put
  <1> QED BY <1>1, <1>2, <1>3 DEF SeriesOK

LEMMA InitAround == Init => Around = {NoAggregates} /\ FilesTyped
  BY EmptyFiles DEF Init, Around, FilesTyped, Savers

LEMMA InitRest == Init => RestInv
  <1> SUFFICES ASSUME Init PROVE RestInv OBVIOUS
  <1>1. clock \in Times
    <2>1. \E t \in Times : \A u \in Times : t <= u
      BY LedgerAssumption
    <2> QED BY <2>1, Zenon DEF Init, Min
  <1>2. OwnMasksInv
    BY DEF Init, OwnMasksInv, NoEdit
  <1>3. up = "serving"
    BY DEF Init
  <1> QED BY <1>1, <1>2, <1>3, InitAround, NoSeries DEF RestInv

\* A save makes no aggregates but empty ones: it moves those there are.
LEMMA SavesMakeNone ==
    ASSUME FileInv, FilesTyped, NEW s \in Savers, SaveStep(s)
    PROVE  FilesTyped' /\ Around' \subseteq Around \cup {NoAggregates}
  <1>1. save = [t \in Savers |-> save[t]] /\ SaverOK(s) /\ save[s].data \in Around /\ Other(s) \in Savers
    BY OtherSaver DEF FileInv, Around
  <1> USE DEF SaveQuiet, tracker
  <1> DEFINE Kept == Around \cup {NoAggregates}
  <1>2. ASSUME NEW q, save' = [save EXCEPT ![s] = q], q.data \in Kept, usage' = usage,
               FilesTyped', file'.usage \in Kept, tmp'.usage \in Kept
        PROVE  FilesTyped' /\ Around' \subseteq Kept
    <2>1. \A t \in Savers : save'[t] = IF t = s THEN q ELSE save[t]
      BY <1>1, <1>2
    <2>2. \A t \in Savers : save'[t].data \in Kept
      BY <1>2, <2>1 DEF Around
    <2>3. usage' \in Kept
      BY <1>2 DEF Around
    <2> HIDE DEF Kept
    <2> QED BY <1>2, <2>2, <2>3 DEF Around
  <1>3. CASE Open(s)
    <2>1. PICK q : q = [save[s] EXCEPT !.at = "writing", !.into = "tmp"]
      OBVIOUS
    <2>2. save' = [save EXCEPT ![s] = q]
      BY <1>3, <2>1 DEF Open
    <2>3. q.data = save[s].data
      BY <1>1, <2>1 DEF SaverOK, NoSave
    <2>4. usage' = usage /\ file' = file /\ tmp' = Broken
      BY <1>3 DEF Open
    <2>5. FilesTyped' /\ file'.usage \in Kept /\ tmp'.usage \in Kept
      BY <2>4, EmptyFiles DEF FilesTyped, Around
    <2> QED BY <1>1, <1>2, <2>2, <2>3, <2>4, <2>5
  <1>4. CASE Write(s)
    <2>1. PICK q : q = [save[s] EXCEPT !.at = "renaming"]
      OBVIOUS
    <2>2. save' = [save EXCEPT ![s] = q]
      BY <1>4, <2>1 DEF Write
    <2>3. q.data = save[s].data
      BY <1>1, <2>1 DEF SaverOK, NoSave
    <2>4. ASSUME NEW content
          PROVE  /\ Over(content, save[s].data).is \in {"broken", "whole"}
                 /\ Over(content, save[s].data).usage \in Kept
      BY <1>1, EmptyFiles DEF Over
    <2>5. tmp' \in {tmp, Over(tmp, save[s].data)} /\ file' \in {file, Over(file, save[s].data)}
      BY <1>4 DEF Write
    <2>6. file.usage \in Kept /\ tmp.usage \in Kept /\ usage' = usage
      BY <1>4 DEF Around, Write
    <2>7. FilesTyped' /\ file'.usage \in Kept /\ tmp'.usage \in Kept
      BY <2>4, <2>5, <2>6 DEF FilesTyped
    <2> QED BY <1>1, <1>2, <2>2, <2>3, <2>6, <2>7
  <1>5. CASE SaveFails(s) \/ (Rename(s) /\ tmp = Missing)
    <2>1. usage' = usage /\ file' = file /\ tmp' = tmp /\ save' = [save EXCEPT ![s] = NoSave]
      BY <1>5 DEF SaveFails, Rename
    <2>2. FilesTyped' /\ file'.usage \in Kept /\ tmp'.usage \in Kept /\ NoSave.data \in Kept
      BY <2>1, EmptyFiles DEF FilesTyped, Around
    <2> QED BY <1>2, <2>1, <2>2
  <1>6. CASE Rename(s) /\ tmp # Missing
    <2>1. file' = tmp /\ tmp' = Missing /\ usage' = usage
          /\ save' = [save EXCEPT ![s] = NoSave, ![Other(s)].into = Moved[@]]
      BY <1>6 DEF Rename
    <2>2. save'[s] = NoSave /\ \E into : save'[Other(s)] = [save[Other(s)] EXCEPT !.into = into]
      BY <1>1, <2>1, OtherSaver
    <2>3. save'[Other(s)].data = save[Other(s)].data
      BY <1>1, <2>2 DEF FileInv, SaverOK, NoSave
    <2>4. ASSUME NEW t \in Savers PROVE save'[t].data \in Kept
      <3>1. CASE t = s
        BY <2>2, <3>1, EmptyFiles
      <3>2. CASE t = Other(s)
        BY <2>3, <3>2 DEF Around
      <3> QED BY <3>1, <3>2, OtherSaver
    <2>5. usage' \in Kept /\ file'.usage \in Kept /\ tmp'.usage \in Kept
      BY <2>1, EmptyFiles DEF Around
    <2>6. FilesTyped'
      BY <2>1, EmptyFiles DEF FilesTyped
    <2> HIDE DEF Kept
    <2>7. Around' \subseteq Kept
      BY <2>4, <2>5 DEF Around
    <2> QED BY <2>6, <2>7 DEF Kept
  <1> QED BY <1>3, <1>4, <1>5, <1>6 DEF SaveStep

\* Only Record makes new aggregates, from those of memory.
LEMMA OnlyRecordMakes ==
    ASSUME FileInv, FilesTyped, [Next]_ledgerVars
    PROVE  /\ FilesTyped'
           /\ \/ Around' \subseteq Around \cup {NoAggregates}
              \/ \E r \in Requests :
                    /\ RecordUsage(r)
                    /\ Around' \subseteq Around \cup {Record(usage, req[r].event, req[r].stamp)}
  <1> USE DEF tracker
  <1> DEFINE Kept == Around \cup {NoAggregates}
  <1>1. ASSUME UNCHANGED disk PROVE FilesTyped' /\ Around' \subseteq Around \cup {usage'}
    BY <1>1 DEF FilesTyped, Around, disk
  <1>2. ASSUME UNCHANGED <<usage, disk>> PROVE FilesTyped' /\ Around' \subseteq Around
    BY <1>1, <1>2 DEF Around
  <1>3. ASSUME NEW r \in Requests, RecordUsage(r)
        PROVE  FilesTyped' /\ Around' \subseteq Around \cup {Record(usage, req[r].event, req[r].stamp)}
    BY <1>1, <1>3 DEF RecordUsage, Quiet
  <1>4. ASSUME NEW r \in Requests, RequestStep(r), ~RecordUsage(r) PROVE UNCHANGED <<usage, disk>>
    BY <1>4 DEF RequestStep, Arrive, Refuse, Check, DropBlocked, Serve, LogRequest, Close, Quiet
  <1>5. CASE OperatorStep
    <2>1. UNCHANGED <<usage, disk>>
      BY <1>5 DEF OperatorStep, AddKnown, StartAdd, StartRemove, WriteMasks, WriteMasksFails, Adopt, EditQuiet
    <2> QED BY <1>2, <2>1
  <1>6. ASSUME NEW s \in Savers, Marshal(s), UNCHANGED <<usage, file, tmp>>
        PROVE  FilesTyped' /\ Around' \subseteq Around
    <2>1. \A t \in Savers : save'[t].data = IF t = s THEN usage ELSE save[t].data
      BY <1>6 DEF Marshal, FileInv
    <2> QED BY <1>6, <2>1 DEF FilesTyped, Around
  <1>7. CASE TickerSaves \/ Signal
    <2>1. \E s \in Savers : Marshal(s) /\ UNCHANGED <<usage, file, tmp>>
      BY <1>7 DEF TickerSaves, Signal, SaveQuiet, Savers
    <2> QED BY <1>6, <2>1
  <1>8. ASSUME NEW s \in Savers, SaveStep(s) PROVE FilesTyped' /\ Around' \subseteq Kept
    BY <1>8, SavesMakeNone
  <1>9. CASE Tick \/ UNCHANGED ledgerVars
    <2>1. UNCHANGED <<usage, disk>>
      BY <1>9 DEF Tick, ledgerVars
    <2> QED BY <1>2, <2>1
  <1>10. CASE Stop
    <2>1. /\ usage' = NoAggregates /\ save' = [s \in Savers |-> NoSave] /\ UNCHANGED <<file, tmp>>
      BY <1>10 DEF Stop
    <2>2. \A s \in Savers : save'[s].data = NoAggregates
      BY <2>1, EmptyFiles
    <2> QED BY <2>1, <2>2 DEF FilesTyped, Around
  <1>11. CASE Restart
    <2>1. usage' = file.usage /\ UNCHANGED disk
      BY <1>11 DEF Restart
    <2> QED BY <1>1, <2>1 DEF Around
  <1> QED BY <1>2, <1>3, <1>4, <1>5, <1>7, <1>8, <1>9, <1>10, <1>11 DEF Next

LEMMA StepKeepsRest == FileInv /\ ListInv /\ RestInv /\ [Next]_ledgerVars => RestInv'
  <1> SUFFICES ASSUME FileInv, ListInv, RestInv, [Next]_ledgerVars PROVE RestInv' OBVIOUS
  <1> USE DEF tracker
  <1>1. FilesTyped' /\ \A a \in Around' : SeriesOK(a)
    <2>1. SeriesOK(usage) /\ \A a \in Around : SeriesOK(a)
      BY DEF RestInv, Around
    <2>2. CASE Around' \subseteq Around \cup {NoAggregates}
      BY <2>1, <2>2, NoSeries, OnlyRecordMakes DEF RestInv
    <2>3. ASSUME NEW r \in Requests,
                 Around' \subseteq Around \cup {Record(usage, req[r].event, req[r].stamp)}
          PROVE  \A a \in Around' : SeriesOK(a)
      <3>1. SeriesOK(Record(usage, req[r].event, req[r].stamp))
        BY <2>1, RecordKeepsSeries
      <3> QED BY <2>1, <2>3, <3>1
    <2> QED BY <2>2, <2>3, OnlyRecordMakes DEF RestInv
  <1>2. clock' \in Times /\ up' \in {"serving", "stopping", "draining", "down"} /\ OwnMasksInv'
    <2>1. ASSUME UNCHANGED list PROVE OwnMasksInv'
      BY <2>1 DEF RestInv, OwnMasksInv, list
    <2>2. ASSUME NEW r \in Requests, RequestStep(r) PROVE UNCHANGED <<clock, up, list>>
      BY <2>2 DEF RequestStep, Arrive, Refuse, Check, DropBlocked, Serve, RecordUsage, LogRequest, Close, Quiet
    <2>3. CASE OperatorStep
      <3>1. UNCHANGED <<clock, up, config>>
        BY <2>3 DEF OperatorStep, AddKnown, StartAdd, StartRemove, WriteMasks, WriteMasksFails, Adopt, EditQuiet
      <3>2. operator \cap config = {} /\ (edit.at # "idle" => edit.next \cap config = {})
        BY DEF RestInv, OwnMasksInv
      <3>3. CASE AddKnown
        BY <3>1, <3>2, <3>3 DEF AddKnown, OwnMasksInv, RestInv
      <3>4. CASE StartAdd
        BY <3>1, <3>2, <3>4 DEF StartAdd, InForce, OwnMasksInv, RestInv
      <3>5. CASE StartRemove
        BY <3>1, <3>2, <3>5 DEF StartRemove, OwnMasksInv, RestInv
      <3>6. CASE WriteMasks
        <4>1. edit.at = "writing" /\ edit'.next = edit.next /\ operator' = operator
          BY <3>6 DEF WriteMasks, ListInv
        <4> QED BY <3>1, <3>2, <4>1 DEF OwnMasksInv, RestInv
      <3>7. CASE WriteMasksFails
        BY <3>1, <3>2, <3>7 DEF WriteMasksFails, NoEdit, OwnMasksInv, RestInv
      <3>8. CASE Adopt
        BY <3>1, <3>2, <3>8 DEF Adopt, NoEdit, OwnMasksInv, RestInv
      <3> QED BY <2>3, <3>3, <3>4, <3>5, <3>6, <3>7, <3>8 DEF OperatorStep
    <2>4. CASE TickerSaves
      BY <2>1, <2>4 DEF TickerSaves, SaveQuiet, RestInv
    <2>5. CASE Signal
      BY <2>1, <2>5 DEF Signal, SaveQuiet, RestInv
    <2>6. ASSUME NEW s \in Savers, SaveStep(s) PROVE UNCHANGED <<clock, list>> /\ up' \in {up, "draining"}
      BY <2>6 DEF SaveStep, Open, Write, SaveFails, Rename, Return, SaveQuiet
    <2>7. CASE Tick
      BY <2>1, <2>7 DEF Tick, RestInv
    <2>8. CASE Stop
      BY <2>8 DEF Stop, RestInv, OwnMasksInv, NoEdit
    <2>9. CASE Restart
      BY <2>9 DEF Restart, RestInv, OwnMasksInv, ListInv
    <2>10. CASE UNCHANGED ledgerVars
      BY <2>1, <2>10 DEF ledgerVars, RestInv
    <2> QED BY <2>1, <2>2, <2>3, <2>4, <2>5, <2>6, <2>7, <2>8, <2>9, <2>10 DEF Next, RestInv
  <1> QED BY <1>1, <1>2 DEF RestInv

(***************************************************************************)
(* Every variable has its type: no mask is both the operator's and the     *)
(* configuration's, the numbers of the recent log are each used once and   *)
(* by a request, and no hourly entry is left when its hour is pruned       *)
(* (List.Add, Tracker.RecordRequest, pruneBuckets).                        *)
(***************************************************************************)
THEOREM LedgerTypeCorrect == Spec => []LedgerTypeOK
  <1>1. MasksInv => ListInv
    BY DEF MasksInv
  <1>2. ASSUME FileInv, ListInv, LogInv, RestInv PROVE LedgerTypeOK
    <2>1. \A e \in log.recent : e.seq \in 1..log.seq /\ e.by \in Requests
      BY <1>2 DEF LogInv, EntryOK
    <2>2. \A e, f \in log.recent : e.seq = f.seq => e = f
      BY <1>2 DEF LogInv
    <2>3. \A r \in Requests : req[r].at \in Steps /\ req[r].seq \in 0..log.seq
      BY <1>2 DEF LogInv, ProgressOK, ProgressTyped
    <2>4. /\ config \subseteq Masks /\ operator \subseteq Masks \ config /\ masks \subseteq Masks
          /\ edit.at \in {"idle", "writing", "adopting"}
      BY <1>2 DEF ListInv, RestInv, OwnMasksInv
    <2>5. \A s \in Savers : save[s].at \in {"idle", "opening", "writing", "renaming"}
      BY <1>2 DEF FileInv, SaverOK
    <2>6. clock \in Times /\ up \in {"serving", "stopping", "draining", "down"}
          /\ file.is \in {"missing", "broken", "whole"} /\ tmp.is \in {"missing", "broken", "whole"}
      BY <1>2 DEF RestInv, FilesTyped
    <2>7. \A d \in Dimensions : DOMAIN usage.hourly[d] \subseteq DOMAIN usage.hours
      BY <1>2 DEF RestInv, Around, SeriesOK
    <2> QED BY <2>1, <2>2, <2>3, <2>4, <2>5, <2>6, <2>7, Zenon DEF LedgerTypeOK
  <1> QED
    BY <1>1, <1>2, InitMasks, InitFile, InitLog, InitRest, StepKeepsMasks, StepKeepsFile,
       StepKeepsLog, StepKeepsRest, PTL DEF Spec

-----------------------------------------------------------------------------
(***************************************************************************)
(* Sums.  SumFunctionOnSet is a fold in an order CHOOSE takes.  That it    *)
(* obeys its recursion, and that the order does not matter, is shown for   *)
(* every finite set by its smallest part for which it would not hold.      *)
(***************************************************************************)
(* A table of the sums over every part of a set. *)
SumsOver(f, D, table) ==
  table = [S \in SUBSET D |-> IF S = {} THEN 0
                              ELSE LET x == CHOOSE x \in S : TRUE IN f[x] + table[S \ {x}]]

LEMMA SumIsTable ==
  ASSUME NEW f, NEW D
  PROVE  SumFunctionOnSet(f, D) = (CHOOSE table : SumsOver(f, D, table))[D]
BY DEF SumFunctionOnSet, FoldFunctionOnSet, MapThenFoldSet, SumsOver

(* Of the parts of a finite set there is a smallest in every family. *)
LEMMA SmallestPart ==
  ASSUME NEW D, IsFiniteSet(D), NEW Bad \in SUBSET SUBSET D, Bad # {}
  PROVE  \E S \in Bad : \A T \in Bad : T \subseteq S => T = S
<1>1. Bad \subseteq FiniteSubsetsOf(D)
  BY FS_Subset DEF FiniteSubsetsOf
<1>2. PICK S \in Bad : \A T \in Bad : <<T, S>> \notin StrictSubsetOrdering(D)
  BY <1>1, FS_StrictSubsetOrderingWellFounded, WFMin
<1>3. ASSUME NEW T \in Bad, T \subseteq S, T # S PROVE FALSE
  <2>1. <<T, S>> \in StrictSubsetOrdering(D)
    BY <1>3 DEF StrictSubsetOrdering
  <2> QED
    BY <1>2, <2>1
<1> QED
  BY <1>2, <1>3

(* Two tables agree on a part of both, if what they sum does. *)
LEMMA TablesAgree ==
  ASSUME NEW f, NEW g, NEW D, NEW E, NEW t, NEW u, SumsOver(f, D, t), SumsOver(g, E, u),
         NEW S, S \subseteq D, S \subseteq E, IsFiniteSet(S), \A x \in S : f[x] = g[x]
  PROVE  t[S] = u[S]
<1> DEFINE Bad == {T \in SUBSET S : t[T] # u[T]}
<1>1. SUFFICES ASSUME Bad # {} PROVE FALSE
  OBVIOUS
<1>2. PICK T \in Bad : \A U \in Bad : U \subseteq T => U = T
  <2> Bad \in SUBSET SUBSET S
    OBVIOUS
  <2> HIDE DEF Bad
  <2> QED
    BY <1>1, SmallestPart
<1> DEFINE c == CHOOSE x \in T : TRUE
<1>3. T \in SUBSET D /\ T \in SUBSET E
  OBVIOUS
<1>4. CASE T = {}
  BY <1>3, <1>4 DEF SumsOver
<1>5. CASE T # {}
  <2>1. c \in T
    BY <1>5
  <2>2. T \ {c} \notin Bad
    BY <1>2, <2>1
  <2>3. t[T \ {c}] = u[T \ {c}] /\ f[c] = g[c]
    BY <2>1, <2>2
  <2>4. t[T] = f[c] + t[T \ {c}]
    BY <1>3, <1>5 DEF SumsOver
  <2>5. u[T] = g[c] + u[T \ {c}]
    BY <1>3, <1>5 DEF SumsOver
  <2> QED
    BY <2>3, <2>4, <2>5
<1> QED
  BY <1>4, <1>5

Table(f, D) == CHOOSE table : SumsOver(f, D, table)

(* Every finite set has its table. *)
LEMMA TableExists ==
  ASSUME NEW f, NEW D, IsFiniteSet(D)
  PROVE  SumsOver(f, D, Table(f, D))
<1> DEFINE Has(S) == \E t : SumsOver(f, S, t)
           Bad == {S \in SUBSET D : ~Has(S)}
<1>1. SUFFICES ASSUME Bad # {} PROVE FALSE
  BY DEF Table
<1>2. PICK S \in Bad : \A T \in Bad : T \subseteq S => T = S
  <2> Bad \in SUBSET SUBSET D
    OBVIOUS
  <2> HIDE DEF Bad
  <2> QED
    BY <1>1, SmallestPart
<1>3. ASSUME NEW T \in SUBSET S, T # S
      PROVE  SumsOver(f, T, Table(f, T))
  <2>1. T \notin Bad
    BY <1>2, <1>3
  <2>2. Has(T)
    BY <2>1
  <2> QED
    BY <2>2 DEF Table
<1> DEFINE c(T) == CHOOSE x \in T : TRUE
           part(T) == IF T = {} THEN 0 ELSE f[c(T)] + Table(f, T \ {c(T)})[T \ {c(T)}]
           t == [T \in SUBSET S |-> part(T)]
<1>4. ASSUME NEW T \in SUBSET S, T # S
      PROVE  t[T] = Table(f, T)[T]
  <2>0. SumsOver(f, T, Table(f, T)) /\ T \in SUBSET T
    BY <1>3, <1>4
  <2>1. CASE T = {}
    BY <2>0, <2>1 DEF SumsOver
  <2>2. CASE T # {}
    <3>1. c(T) \in T /\ T \ {c(T)} \in SUBSET S /\ T \ {c(T)} # S /\ T \ {c(T)} \subseteq T
      BY <1>4, <2>2
    <3>2. SumsOver(f, T \ {c(T)}, Table(f, T \ {c(T)}))
      BY <1>3, <3>1
    <3>3. IsFiniteSet(T \ {c(T)})
      BY <3>1, FS_Subset
    <3> DEFINE U == T \ {c(T)}
    <3>4. Table(f, T)[U] = Table(f, U)[U]
      <4> HIDE DEF U, c
      <4> QED
        BY <2>0, <3>1, <3>2, <3>3, TablesAgree DEF U
    <3>5. Table(f, T)[T] = f[c(T)] + Table(f, T)[U]
      BY <2>0, <2>2 DEF SumsOver
    <3> QED
      BY <2>2, <3>4, <3>5
  <2> QED
    BY <2>1, <2>2
<1>5. ASSUME NEW T \in SUBSET S
      PROVE  t[T] = IF T = {} THEN 0 ELSE LET x == CHOOSE x \in T : TRUE IN f[x] + t[T \ {x}]
  <2>1. CASE T = {}
    BY <2>1
  <2>2. CASE T # {}
    <3>1. c(T) \in T /\ T \ {c(T)} \in SUBSET S /\ T \ {c(T)} # S
      BY <2>2
    <3>2. t[T \ {c(T)}] = Table(f, T \ {c(T)})[T \ {c(T)}]
      BY <3>1, <1>4
    <3>3. t[T] = f[c(T)] + Table(f, T \ {c(T)})[T \ {c(T)}]
      BY <2>2
    <3> QED
      BY <2>2, <3>2, <3>3
  <2> QED
    BY <2>1, <2>2
<1>6. SumsOver(f, S, t)
  <2> HIDE DEF part
  <2> QED BY <1>5 DEF SumsOver
<1> QED
  BY <1>6

(* Nothing sums to zero. *)
LEMMA SumOfNone == ASSUME NEW f PROVE SumFunctionOnSet(f, {}) = 0
<1>1. SumsOver(f, {}, Table(f, {})) /\ {} \in SUBSET {}
  BY TableExists, FS_EmptySet
<1>2. Table(f, {})[{}] = 0
  BY <1>1 DEF SumsOver
<1> QED
  BY <1>2, SumIsTable DEF Table

(* The sum over a set, by the element the fold takes first. *)
LEMMA SumByChoice ==
  ASSUME NEW f, NEW D, IsFiniteSet(D), D # {}
  PROVE  \E x \in D : SumFunctionOnSet(f, D) = f[x] + SumFunctionOnSet(f, D \ {x})
<1> DEFINE c == CHOOSE x \in D : TRUE
           E == D \ {c}
<1>1. c \in D /\ E \subseteq D /\ E \subseteq E
  OBVIOUS
<1>2. IsFiniteSet(E)
  BY FS_Subset
<1>3. SumsOver(f, D, Table(f, D)) /\ SumsOver(f, E, Table(f, E))
  BY <1>2, TableExists
<1>4. Table(f, D)[D] = f[c] + Table(f, D)[E]
  BY <1>3 DEF SumsOver
<1>5. Table(f, D)[E] = Table(f, E)[E]
  <2> HIDE DEF E
  <2> QED
    BY <1>1, <1>2, <1>3, TablesAgree
<1> QED
  BY <1>1, <1>4, <1>5, SumIsTable DEF Table

(* Only the values summed matter. *)
LEMMA SumOfSame ==
  ASSUME NEW D, IsFiniteSet(D), NEW f, NEW g, \A x \in D : f[x] = g[x]
  PROVE  SumFunctionOnSet(f, D) = SumFunctionOnSet(g, D)
<1>1. SumsOver(f, D, Table(f, D)) /\ SumsOver(g, D, Table(g, D)) /\ D \subseteq D
  BY TableExists
<1>2. Table(f, D)[D] = Table(g, D)[D]
  BY <1>1, TablesAgree
<1> QED
  BY <1>2, SumIsTable DEF Table

(* A sum of integers is one. *)
LEMMA SumTyped ==
  ASSUME NEW D, IsFiniteSet(D), NEW f, \A x \in D : f[x] \in Int
  PROVE  SumFunctionOnSet(f, D) \in Int
<1> DEFINE Bad == {S \in SUBSET D : SumFunctionOnSet(f, S) \notin Int}
<1>1. SUFFICES ASSUME Bad # {} PROVE FALSE
  OBVIOUS
<1>2. PICK S \in Bad : \A T \in Bad : T \subseteq S => T = S
  <2> Bad \in SUBSET SUBSET D
    OBVIOUS
  <2> HIDE DEF Bad
  <2> QED
    BY <1>1, SmallestPart
<1>3. S # {}
  BY SumOfNone
<1>4. PICK x \in S : SumFunctionOnSet(f, S) = f[x] + SumFunctionOnSet(f, S \ {x})
  BY <1>3, SumByChoice, FS_Subset
<1>5. S \ {x} \notin Bad
  BY <1>2
<1> QED
  BY <1>4, <1>5

(* Any element may be taken first. *)
LEMMA SumTakeOut ==
  ASSUME NEW D, IsFiniteSet(D), NEW f, \A x \in D : f[x] \in Int, NEW d \in D
  PROVE  SumFunctionOnSet(f, D) = f[d] + SumFunctionOnSet(f, D \ {d})
<1> DEFINE Bad == {S \in SUBSET D : \E x \in S :
                     SumFunctionOnSet(f, S) # f[x] + SumFunctionOnSet(f, S \ {x})}
<1>1. SUFFICES ASSUME Bad # {} PROVE FALSE
  OBVIOUS
<1>2. PICK S \in Bad : \A T \in Bad : T \subseteq S => T = S
  <2> Bad \in SUBSET SUBSET D
    OBVIOUS
  <2> HIDE DEF Bad
  <2> QED
    BY <1>1, SmallestPart
<1>3. PICK x \in S : SumFunctionOnSet(f, S) # f[x] + SumFunctionOnSet(f, S \ {x})
  OBVIOUS
<1>4. PICK c \in S : SumFunctionOnSet(f, S) = f[c] + SumFunctionOnSet(f, S \ {c})
  BY SumByChoice, FS_Subset
<1>5. c # x
  BY <1>3, <1>4
<1>6. S \ {c} \notin Bad /\ S \ {x} \notin Bad
  BY <1>2
<1>7. SumFunctionOnSet(f, S \ {c}) = f[x] + SumFunctionOnSet(f, (S \ {c}) \ {x})
  BY <1>5, <1>6
<1>8. SumFunctionOnSet(f, S \ {x}) = f[c] + SumFunctionOnSet(f, (S \ {x}) \ {c})
  BY <1>5, <1>6
<1>9. (S \ {c}) \ {x} = (S \ {x}) \ {c}
  OBVIOUS
<1>10. SumFunctionOnSet(f, (S \ {x}) \ {c}) \in Int /\ f[x] \in Int /\ f[c] \in Int
  <2>1. (S \ {x}) \ {c} \subseteq D
    OBVIOUS
  <2> QED BY <2>1, SumTyped, FS_Subset
<1> DEFINE rest == SumFunctionOnSet(f, (S \ {x}) \ {c})
<1>11. /\ rest \in Int /\ f[x] \in Int /\ f[c] \in Int
       /\ SumFunctionOnSet(f, S \ {c}) = f[x] + rest
       /\ SumFunctionOnSet(f, S \ {x}) = f[c] + rest
  BY <1>7, <1>8, <1>9, <1>10
<1> HIDE DEF rest
<1> QED
  BY <1>3, <1>4, <1>11

(* Sums add up. *)
LEMMA SumOfPairs ==
  ASSUME NEW D, IsFiniteSet(D), NEW f, NEW g, NEW h,
         \A x \in D : f[x] \in Int /\ g[x] \in Int /\ h[x] = f[x] + g[x]
  PROVE  SumFunctionOnSet(h, D) = SumFunctionOnSet(f, D) + SumFunctionOnSet(g, D)
<1> DEFINE Bad == {S \in SUBSET D :
               SumFunctionOnSet(h, S) # SumFunctionOnSet(f, S) + SumFunctionOnSet(g, S)}
<1>1. SUFFICES ASSUME Bad # {} PROVE FALSE
  OBVIOUS
<1>2. PICK S \in Bad : \A T \in Bad : T \subseteq S => T = S
  <2> Bad \in SUBSET SUBSET D
    OBVIOUS
  <2> HIDE DEF Bad
  <2> QED
    BY <1>1, SmallestPart
<1>3. S # {}
  <2>1. SumFunctionOnSet(h, {}) = SumFunctionOnSet(f, {}) + SumFunctionOnSet(g, {})
    BY SumOfNone
  <2> QED
    BY <2>1
<1>4. PICK x \in S : TRUE
  BY <1>3
<1>5. IsFiniteSet(S) /\ IsFiniteSet(S \ {x})
  BY FS_Subset
<1>6. /\ SumFunctionOnSet(f, S) = f[x] + SumFunctionOnSet(f, S \ {x})
      /\ SumFunctionOnSet(g, S) = g[x] + SumFunctionOnSet(g, S \ {x})
      /\ SumFunctionOnSet(h, S) = h[x] + SumFunctionOnSet(h, S \ {x})
  <2>1. \A y \in S : f[y] \in Int /\ g[y] \in Int /\ h[y] \in Int
    OBVIOUS
  <2> QED
    BY <1>5, <2>1, SumTakeOut
<1>7. SumFunctionOnSet(f, S \ {x}) \in Int /\ SumFunctionOnSet(g, S \ {x}) \in Int
  BY <1>5, SumTyped
<1>8. S \ {x} \notin Bad
  BY <1>2
<1> QED
  BY <1>6, <1>7, <1>8

(* Zeros change no sum. *)
LEMMA SumOverZeros ==
  ASSUME NEW E, IsFiniteSet(E), NEW f, \A x \in E : f[x] \in Int,
         NEW D \in SUBSET E, \A x \in E \ D : f[x] = 0
  PROVE  SumFunctionOnSet(f, E) = SumFunctionOnSet(f, D)
<1> DEFINE Bad == {S \in SUBSET E : D \subseteq S /\ SumFunctionOnSet(f, S) # SumFunctionOnSet(f, D)}
<1>1. SUFFICES ASSUME Bad # {} PROVE FALSE
  OBVIOUS
<1>2. PICK S \in Bad : \A T \in Bad : T \subseteq S => T = S
  <2> Bad \in SUBSET SUBSET E
    OBVIOUS
  <2> HIDE DEF Bad
  <2> QED
    BY <1>1, SmallestPart
<1>3. PICK x \in S : x \notin D
  OBVIOUS
<1>4. SumFunctionOnSet(f, S) = f[x] + SumFunctionOnSet(f, S \ {x})
  BY SumTakeOut, FS_Subset
<1>5. f[x] = 0 /\ SumFunctionOnSet(f, S \ {x}) \in Int
  BY <1>3, SumTyped, FS_Subset
<1>6. S \ {x} \notin Bad
  BY <1>2
<1> QED
  BY <1>3, <1>4, <1>5, <1>6

(* A table of integers adds up to the same by rows and by columns. *)
LEMMA SumByRowsAndColumns ==
  ASSUME NEW R, IsFiniteSet(R), NEW C, IsFiniteSet(C),
         NEW t, \A r \in R, c \in C : t[r][c] \in Int
  PROVE  SumFunctionOnSet([c \in C |-> SumFunctionOnSet([r \in R |-> t[r][c]], R)], C)
           = SumFunctionOnSet([r \in R |-> SumFunctionOnSet(t[r], C)], R)
<1> DEFINE column(c) == [r \in R |-> t[r][c]]
           down(S) == [c \in C |-> SumFunctionOnSet(column(c), S)]
           across == [r \in R |-> SumFunctionOnSet(t[r], C)]
           Bad == {S \in SUBSET R : SumFunctionOnSet(down(S), C) # SumFunctionOnSet(across, S)}
<1>1. SUFFICES ASSUME Bad # {} PROVE FALSE
  OBVIOUS
<1>2. PICK S \in Bad : \A T \in Bad : T \subseteq S => T = S
  <2> Bad \in SUBSET SUBSET R
    OBVIOUS
  <2> HIDE DEF Bad
  <2> QED
    BY <1>1, SmallestPart
<1>3. S # {}
  <2> SUFFICES ASSUME S = {} PROVE FALSE
    OBVIOUS
  <2>1. \A c \in C : down(S)[c] = 0
    BY SumOfNone
  <2>2. SumFunctionOnSet(down(S), C) = SumFunctionOnSet(down(S), {})
    <3> HIDE DEF down
    <3> QED
      BY <2>1, SumOverZeros
  <2> QED
    BY <2>2, SumOfNone
<1>4. PICK r \in S : TRUE
  BY <1>3
<1>5. IsFiniteSet(S) /\ IsFiniteSet(S \ {r}) /\ r \in R
  BY FS_Subset
<1>6. ASSUME NEW c \in C
      PROVE  /\ down(S)[c] = t[r][c] + down(S \ {r})[c]
             /\ down(S \ {r})[c] \in Int
  <2>1. \A x \in R : column(c)[x] \in Int /\ column(c)[r] = t[r][c]
    BY <1>5
  <2>2. SumFunctionOnSet(column(c), S) = column(c)[r] + SumFunctionOnSet(column(c), S \ {r})
    <3> HIDE DEF column
    <3> QED
      BY <1>5, <2>1, SumTakeOut
  <2>3. SumFunctionOnSet(column(c), S \ {r}) \in Int
    <3> HIDE DEF column
    <3> QED
      BY <1>5, <2>1, SumTyped
  <2> QED
    BY <2>1, <2>2, <2>3, <1>5
<1>7. SumFunctionOnSet(down(S), C) = SumFunctionOnSet(t[r], C) + SumFunctionOnSet(down(S \ {r}), C)
  <2> DEFINE a == down(S)
             b == down(S \ {r})
  <2> HIDE DEF a, b
  <2>1. \A c \in C : a[c] = t[r][c] + b[c] /\ b[c] \in Int /\ t[r][c] \in Int
    BY <1>5, <1>6 DEF a, b
  <2>2. SumFunctionOnSet(a, C) = SumFunctionOnSet(t[r], C) + SumFunctionOnSet(b, C)
    BY <2>1, SumOfPairs
  <2> QED
    BY <2>2 DEF a, b
<1>8. /\ \A x \in R : across[x] \in Int
      /\ across[r] = SumFunctionOnSet(t[r], C)
  BY <1>5, SumTyped
<1>9. SumFunctionOnSet(across, S) = across[r] + SumFunctionOnSet(across, S \ {r})
  <2> HIDE DEF across
  <2> QED
    BY <1>5, <1>8, SumTakeOut
<1>10. S \ {r} \notin Bad
  BY <1>2, <1>4
<1>11. SumFunctionOnSet(down(S \ {r}), C) = SumFunctionOnSet(across, S \ {r})
  BY <1>10
<1> QED
  BY <1>7, <1>8, <1>9, <1>11

-----------------------------------------------------------------------------
(***************************************************************************)
(* Prices.  What a Stat costs is linear in it as long as cached tokens are *)
(* part of the input, so costs can be taken before or after Stats are      *)
(* added up.                                                               *)
(***************************************************************************)
(* What a Stat can hold: cached tokens are part of the input. *)
Stats == {s \in [Fields -> Int] : s.read >= 0 /\ s.write >= 0 /\ s.read + s.write <= s.input}

(* A finite map to values of S. *)
MapTo(S, m) == IsFiniteSet(DOMAIN m) /\ m \in [DOMAIN m -> S]

LEMMA NoUsageTyped == NoUsage \in Stats
BY DEF NoUsage, Stats, Fields

LEMMA PlusTyped ==
  ASSUME NEW a \in Stats, NEW b \in Stats
  PROVE  Plus(a, b) \in Stats
<1>1. Plus(a, b) \in [Fields -> Int]
  BY DEF Plus, Stats
<1>2. /\ Plus(a, b).read = a.read + b.read
      /\ Plus(a, b).write = a.write + b.write
      /\ Plus(a, b).input = a.input + b.input
  BY DEF Plus, Fields
<1>3. /\ a.read \in Int /\ a.write \in Int /\ a.input \in Int
      /\ b.read \in Int /\ b.write \in Int /\ b.input \in Int
  BY DEF Stats, Fields
<1> QED
  BY <1>1, <1>2, <1>3 DEF Stats

(* Of finitely many names one is the longest. *)
LEMMA LongestExists ==
  ASSUME NEW names, names # {}, IsFiniteSet(names), names \subseteq Seq(STRING)
  PROVE  Longest(names) \in names
<1> DEFINE Best(T, n) == n \in T /\ \A other \in T : Len(other) <= Len(n)
           Bad == {T \in SUBSET names : T # {} /\ ~ \E n \in T : Best(T, n)}
<1>1. SUFFICES ASSUME Bad # {} PROVE FALSE
  BY DEF Longest
<1>2. PICK T \in Bad : \A U \in Bad : U \subseteq T => U = T
  <2> Bad \in SUBSET SUBSET names
    OBVIOUS
  <2> HIDE DEF Bad
  <2> QED
    BY <1>1, SmallestPart
<1>3. PICK x \in T : TRUE
  OBVIOUS
<1>4. \A n \in T : Len(n) \in Nat
  OBVIOUS
<1>5. CASE T \ {x} = {}
  <2>1. Best(T, x)
    BY <1>3, <1>4, <1>5
  <2> QED
    BY <1>3, <2>1
<1>6. CASE T \ {x} # {}
  <2>1. T \ {x} \notin Bad
    BY <1>2, <1>3
  <2>2. PICK y \in T \ {x} : Best(T \ {x}, y)
    BY <1>6, <2>1
  <2>3. \A n \in T : n = x \/ Len(n) <= Len(y)
    BY <2>2
  <2>4. CASE Len(x) <= Len(y)
    <3>1. Best(T, y)
      BY <2>2, <2>3, <2>4
    <3> QED
      BY <2>2, <3>1
  <2>5. CASE ~(Len(x) <= Len(y))
    <3>1. Len(x) \in Nat /\ Len(y) \in Nat /\ Len(y) <= Len(x)
      BY <1>3, <1>4, <2>2, <2>5
    <3>2. \A n \in T : Len(n) <= Len(x)
      <4> SUFFICES ASSUME NEW n \in T PROVE Len(n) <= Len(x)
        OBVIOUS
      <4>1. Len(n) \in Nat
        BY <1>4
      <4>2. n = x \/ Len(n) <= Len(y)
        BY <2>3
      <4> DEFINE a == Len(n)
                 b == Len(x)
                 c == Len(y)
      <4>3. a \in Nat /\ b \in Nat /\ c \in Nat /\ c <= b /\ (a = b \/ a <= c)
        BY <3>1, <4>1, <4>2
      <4> HIDE DEF a, b, c
      <4>4. a <= b
        BY <4>3
      <4> QED
        BY <4>4 DEF a, b
    <3>3. Best(T, x)
      BY <1>3, <3>2
    <3> QED
      BY <1>3, <3>3
  <2> QED
    BY <2>4, <2>5
<1> QED
  BY <1>5, <1>6

LEMMA PriceTyped ==
  ASSUME NEW model, PricedAs(model) # {}
  PROVE  PriceFor(model) \in Rates
<1>1. PricedAs(model) \subseteq DOMAIN Pricing
  BY DEF PricedAs
<1>2. IsFiniteSet(PricedAs(model))
  BY <1>1, FS_Subset, TrackerAssumption
<1>3. Longest(PricedAs(model)) \in PricedAs(model)
  BY <1>1, <1>2, LongestExists, TrackerAssumption
<1> QED
  BY <1>1, <1>3, TrackerAssumption DEF PriceFor

(* What is charged for the tokens of a Stat is a sum of products, one for each field. *)
LEMMA CostOfStat ==
  ASSUME NEW model, PricedAs(model) # {}
  PROVE  \E i, o, r, w \in Int : \A s \in Stats :
           ModelCost(model, s) = (s.input - s.read - s.write) * i + s.read * r + s.write * w
                                   + s.output * o + s.extra
<1> DEFINE price == PriceFor(model)
           r == Rate(price.cacheRead, price.input \div 10)
           w == Rate(price.cacheWrite, (price.input * 5) \div 4)
<1>1. price \in Rates
  BY PriceTyped
<1>2. price.input \in Int /\ price.output \in Int /\ r \in Int /\ w \in Int
  BY <1>1 DEF Rates, Rate
<1>3. ASSUME NEW s \in Stats
      PROVE  ModelCost(model, s) = (s.input - s.read - s.write) * price.input + s.read * r + s.write * w
                                   + s.output * price.output + s.extra
  <2>1. s.read \in Int /\ s.write \in Int /\ s.input \in Int
    BY DEF Stats, Fields
  <2>2. Between(0, s.read, s.input) = s.read
    BY <2>1 DEF Between, Stats
  <2>3. Between(0, s.write, s.input - s.read) = s.write
    BY <2>1 DEF Between, Stats
  <2> QED
    BY <2>2, <2>3 DEF ModelCost, InputCost
<1> DEFINE i == price.input
           o == price.output
<1> HIDE DEF price, r, w
<1>4. \A s \in Stats :
        ModelCost(model, s) = (s.input - s.read - s.write) * i + s.read * r + s.write * w
                                   + s.output * o + s.extra
  BY <1>3
<1>5. i \in Int /\ o \in Int /\ r \in Int /\ w \in Int
  BY <1>2
<1> HIDE DEF i, o
<1> DEFINE Charged(a, b, c, e) ==
             \A s \in Stats :
               ModelCost(model, s) = (s.input - s.read - s.write) * a + s.read * c + s.write * e
                                          + s.output * b + s.extra
<1>6. SUFFICES \E a, b, c, e \in Int : Charged(a, b, c, e)
  OBVIOUS
<1>7. Charged(i, o, r, w)
  BY <1>4
<1> HIDE DEF Charged
<1> QED
  BY <1>5, <1>7

LEMMA Distribute == \A a, b, c \in Int : (a + b) * c = a * c + b * c
OBVIOUS

LEMMA FieldsOfPlus ==
  ASSUME NEW a \in Stats, NEW b \in Stats, NEW field \in Fields
  PROVE  a[field] \in Int /\ b[field] \in Int /\ Plus(a, b)[field] = a[field] + b[field]
BY DEF Stats, Plus

LEMMA CostTyped ==
  ASSUME NEW model, NEW s \in Stats
  PROVE  ModelCost(model, s) \in Int
<1>1. /\ s.read \in Int /\ s.write \in Int /\ s.input \in Int
      /\ s.output \in Int /\ s.extra \in Int
  BY DEF Stats, Fields
<1>2. CASE PricedAs(model) = {}
  BY <1>1, <1>2 DEF ModelCost
<1>3. CASE PricedAs(model) # {}
  <2>1. PICK i, o, r, w \in Int :
           ModelCost(model, s) = (s.input - s.read - s.write) * i + s.read * r + s.write * w
                                   + s.output * o + s.extra
    BY <1>3, CostOfStat
  <2> QED
    BY <1>1, <2>1
<1> QED
  BY <1>2, <1>3

(* The cost of what two Stats hold together is what they cost. *)
LEMMA CostOfPlus ==
  ASSUME NEW model, NEW a \in Stats, NEW b \in Stats
  PROVE  ModelCost(model, Plus(a, b)) = ModelCost(model, a) + ModelCost(model, b)
<1> DEFINE c == Plus(a, b)
<1>1. c \in Stats
  BY PlusTyped
<1>2. /\ a.read \in Int /\ a.write \in Int /\ a.input \in Int /\ a.output \in Int /\ a.extra \in Int
      /\ b.read \in Int /\ b.write \in Int /\ b.input \in Int /\ b.output \in Int /\ b.extra \in Int
      /\ c.read = a.read + b.read /\ c.write = a.write + b.write /\ c.input = a.input + b.input
      /\ c.output = a.output + b.output /\ c.extra = a.extra + b.extra
  BY FieldsOfPlus DEF Fields
<1> HIDE DEF c
<1>3. CASE PricedAs(model) = {}
  BY <1>2, <1>3 DEF ModelCost, c
<1>4. CASE PricedAs(model) # {}
  <2>1. PICK i, o, r, w \in Int : \A s \in Stats :
           ModelCost(model, s) = (s.input - s.read - s.write) * i + s.read * r + s.write * w
                                   + s.output * o + s.extra
    BY <1>4, CostOfStat
  <2> DEFINE plain(s) == s.input - s.read - s.write
  <2>2. plain(c) = plain(a) + plain(b) /\ plain(a) \in Int /\ plain(b) \in Int
    BY <1>2
  <2>3. /\ plain(c) * i = plain(a) * i + plain(b) * i
        /\ c.read * r = a.read * r + b.read * r
        /\ c.write * w = a.write * w + b.write * w
        /\ c.output * o = a.output * o + b.output * o
    BY <1>2, <2>1, <2>2, Distribute
  <2>4. /\ ModelCost(model, a) = plain(a) * i + a.read * r + a.write * w + a.output * o + a.extra
        /\ ModelCost(model, b) = plain(b) * i + b.read * r + b.write * w + b.output * o + b.extra
        /\ ModelCost(model, c) = plain(c) * i + c.read * r + c.write * w + c.output * o + c.extra
    BY <1>1, <2>1
  <2>5. /\ plain(a) * i \in Int /\ a.read * r \in Int /\ a.write * w \in Int /\ a.output * o \in Int
        /\ plain(b) * i \in Int /\ b.read * r \in Int /\ b.write * w \in Int /\ b.output * o \in Int
    BY <1>2, <2>1, <2>2
  <2> HIDE DEF plain
  <2>6. ModelCost(model, c) = ModelCost(model, a) + ModelCost(model, b)
    <3> DEFINE p1 == plain(a) * i
               p2 == plain(b) * i
               r1 == a.read * r
               r2 == b.read * r
               w1 == a.write * w
               w2 == b.write * w
               o1 == a.output * o
               o2 == b.output * o
    <3>1. /\ p1 \in Int /\ p2 \in Int /\ r1 \in Int /\ r2 \in Int
          /\ w1 \in Int /\ w2 \in Int /\ o1 \in Int /\ o2 \in Int
      BY <2>5
    <3>2. /\ ModelCost(model, a) = p1 + r1 + w1 + o1 + a.extra
          /\ ModelCost(model, b) = p2 + r2 + w2 + o2 + b.extra
          /\ ModelCost(model, c) = (p1 + p2) + (r1 + r2) + (w1 + w2) + (o1 + o2) + (a.extra + b.extra)
      BY <1>2, <2>3, <2>4
    <3> HIDE DEF p1, p2, r1, r2, w1, w2, o1, o2
    <3> QED
      BY <1>2, <3>1, <3>2
  <2> QED
    BY <2>6 DEF c
<1> QED
  BY <1>3, <1>4

LEMMA CostOfNothing ==
  ASSUME NEW model
  PROVE  ModelCost(model, NoUsage) = 0
<1>1. NoUsage \in Stats /\ \A field \in Fields : NoUsage[field] = 0
  BY NoUsageTyped DEF NoUsage
<1>2. Plus(NoUsage, NoUsage) = NoUsage
  BY DEF Plus, NoUsage
<1> DEFINE n == ModelCost(model, NoUsage)
<1>3. n \in Int /\ n = n + n
  BY <1>1, <1>2, CostOfPlus, CostTyped
<1> HIDE DEF n
<1>4. n = 0
  BY <1>3
<1> QED
  BY <1>4 DEF n

-----------------------------------------------------------------------------
(* What an event is when it is recorded. *)
EventOK(e) ==
  /\ e.input \in Nat /\ e.output \in Nat /\ e.read \in Nat /\ e.write \in Nat
  /\ e.read + e.write <= e.input
  /\ e.reported \in Nat

(* A Stat after some of its fields were set. *)
LEMMA FieldsSet ==
  ASSUME NEW s \in [Fields -> Int], NEW a \in Int, NEW b \in Int, NEW c \in Int, NEW d \in Int
  PROVE  /\ [s EXCEPT !.input = a, !.output = b, !.read = c, !.write = d] \in [Fields -> Int]
         /\ [s EXCEPT !.requests = a, !.errors = b, !.extra = c] \in [Fields -> Int]
OBVIOUS

LEMMA EventStatTyped ==
  ASSUME NEW e, EventOK(e)
  PROVE  EventStat(e) \in Stats /\ EventCost(e) \in Int
<1> DEFINE s == EventStat(e)
<1>1. s \in Stats
  <2>1. s \in [Fields -> Int]
    <3>1. NoUsage \in [Fields -> Int]
      BY DEF NoUsage
    <3>2. e.input \in Int /\ e.output \in Int /\ e.read \in Int /\ e.write \in Int
      BY DEF EventOK
    <3> QED
      BY <3>1, <3>2, FieldsSet DEF EventStat
  <2>2. s.read = e.read /\ s.write = e.write /\ s.input = e.input
    BY DEF EventStat, NoUsage, Fields
  <2> HIDE DEF s
  <2> QED
    BY <2>1, <2>2 DEF Stats, EventOK
<1>2. ModelCost(e.model, s) \in Int
  BY <1>1, CostTyped
<1>3. PricedAs(e.model) # {} => PriceFor(e.model).request \in Int
  BY PriceTyped DEF Rates
<1> HIDE DEF s
<1>4. EventCost(e) \in Int
  BY <1>2, <1>3 DEF EventCost, EventOK, s
<1> QED
  BY <1>1, <1>4 DEF s

(* The extra part makes up for what the tokens do not cost. *)
LEMMA StatTyped ==
  ASSUME NEW e, EventOK(e)
  PROVE  /\ StatOf(e) \in Stats
         /\ ModelCost(e.model, StatOf(e)) = EventCost(e)
<1> DEFINE s == EventStat(e)
           x == EventCost(e) - ModelCost(e.model, s)
           count == IF e.error THEN 1 ELSE 0
           t == [s EXCEPT !.requests = 1, !.errors = count, !.extra = x]
           rest == [field \in Fields |-> CASE field = "requests" -> 1 [] field = "errors" -> count
                                            [] field = "extra" -> x [] OTHER -> 0]
<1>1. s \in Stats /\ EventCost(e) \in Int
  BY EventStatTyped
<1>2. ModelCost(e.model, s) \in Int /\ x \in Int /\ count \in Int
  BY <1>1, CostTyped
<1>3. StatOf(e) = t
  BY DEF StatOf
<1>4. s.extra = 0 /\ s.requests = 0 /\ s.errors = 0
  BY DEF EventStat, NoUsage, Fields
<1> HIDE DEF x, count, s
<1>5. rest \in Stats
  BY <1>2 DEF Stats, Fields
<1>6. \A field \in Fields : s[field] \in Int
  BY <1>1 DEF Stats
<1>7. t = Plus(s, rest)
  <2>1. s \in [Fields -> Int]
    BY <1>1 DEF Stats
  <2>2. t \in [Fields -> Int]
    BY <1>2, <2>1, 1 \in Int, FieldsSet, Zenon
  <2>3. ASSUME NEW field \in Fields PROVE t[field] = s[field] + rest[field]
    <3>1. CASE field = "requests"
      BY <1>2, <1>4, <2>1, <3>1
    <3>2. CASE field = "errors"
      BY <1>2, <1>4, <2>1, <3>2
    <3>3. CASE field = "extra"
      BY <1>2, <1>4, <2>1, <3>3
    <3>4. CASE field \notin {"requests", "errors", "extra"}
      <4>1. t[field] = s[field] /\ rest[field] = 0
        BY <2>1, <3>4
      <4> QED
        BY <1>6, <4>1
    <3> QED
      BY <3>1, <3>2, <3>3, <3>4
  <2> HIDE DEF t, rest
  <2> QED
    BY <2>2, <2>3 DEF Plus
<1>8. ModelCost(e.model, rest) = x
  <2>0. rest.input = 0 /\ rest.read = 0 /\ rest.write = 0 /\ rest.output = 0 /\ rest.extra = x
    BY DEF Fields
  <2> HIDE DEF rest
  <2>1. CASE PricedAs(e.model) = {}
    BY <2>0, <2>1 DEF ModelCost
  <2>2. CASE PricedAs(e.model) # {}
    <3>1. PICK i, o, r, w \in Int : \A z \in Stats :
           ModelCost(e.model, z) = (z.input - z.read - z.write) * i + z.read * r + z.write * w
                                   + z.output * o + z.extra
      BY <2>2, CostOfStat
    <3>2. ModelCost(e.model, rest) = (0 - 0 - 0) * i + 0 * r + 0 * w + 0 * o + x
      BY <1>5, <2>0, <3>1
    <3> QED
      BY <1>2, <3>2
  <2> QED
    BY <2>1, <2>2
<1> HIDE DEF t, rest
<1>9. t \in Stats
  BY <1>1, <1>5, <1>7, PlusTyped
<1>10. ModelCost(e.model, t) = ModelCost(e.model, s) + x
  BY <1>1, <1>5, <1>7, <1>8, CostOfPlus
<1> QED
  BY <1>1, <1>2, <1>3, <1>9, <1>10 DEF x

-----------------------------------------------------------------------------
(* A sum after one entry has grown. *)
LEMMA SumOfGrown ==
  ASSUME NEW D, IsFiniteSet(D), NEW f, \A x \in D : f[x] \in Int,
         NEW key, NEW v \in Int, NEW g,
         \A x \in D : x # key => g[x] = f[x],
         g[key] = (IF key \in D THEN f[key] ELSE 0) + v
  PROVE  SumFunctionOnSet(g, D \cup {key}) = SumFunctionOnSet(f, D) + v
<1> DEFINE E == D \cup {key}
           rest == D \ {key}
<1>1. IsFiniteSet(E) /\ IsFiniteSet(rest)
  BY FS_AddElement, FS_Subset
<1>2. \A x \in E : g[x] \in Int
  <2> SUFFICES ASSUME NEW x \in E PROVE g[x] \in Int
    OBVIOUS
  <2>1. CASE x = key
    BY <2>1
  <2>2. CASE x # key
    BY <2>2
  <2> QED
    BY <2>1, <2>2
<1>3. SumFunctionOnSet(g, E) = g[key] + SumFunctionOnSet(g, E \ {key})
  <2> HIDE DEF E
  <2>1. key \in E
    BY DEF E
  <2> QED
    BY <1>1, <1>2, <2>1, SumTakeOut
<1>4. E \ {key} = rest
  OBVIOUS
<1>5. SumFunctionOnSet(g, rest) = SumFunctionOnSet(f, rest)
  <2>1. \A x \in rest : g[x] = f[x]
    OBVIOUS
  <2> HIDE DEF rest
  <2> QED
    BY <1>1, <2>1, SumOfSame
<1>6. SumFunctionOnSet(f, rest) \in Int
  <2>1. \A x \in rest : f[x] \in Int
    OBVIOUS
  <2> HIDE DEF rest
  <2> QED
    BY <1>1, <2>1, SumTyped
<1>7. SumFunctionOnSet(f, D) = (IF key \in D THEN f[key] ELSE 0) + SumFunctionOnSet(f, rest)
  <2>1. CASE key \in D
    BY <2>1, SumTakeOut
  <2>2. CASE key \notin D
    <3>1. rest = D
      BY <2>2
    <3> QED
      BY <1>6, <2>2, <3>1
  <2> QED
    BY <2>1, <2>2
<1> DEFINE old == IF key \in D THEN f[key] ELSE 0
           sum == SumFunctionOnSet(f, rest)
<1>8. old \in Int /\ sum \in Int
  BY <1>6
<1>9. SumFunctionOnSet(g, E) = (old + v) + sum /\ SumFunctionOnSet(f, D) = old + sum
  BY <1>3, <1>4, <1>5, <1>7
<1> HIDE DEF old, sum
<1> QED
  BY <1>8, <1>9

-----------------------------------------------------------------------------
(***************************************************************************)
(* Maps of Stats: what adding to one entry does to the sum and the cost of *)
(* all of them.                                                            *)
(***************************************************************************)
(* One field of the entries of a map. *)
Column(m, field) == [key \in DOMAIN m |-> m[key][field]]

LEMMA SumByColumn ==
  ASSUME NEW m
  PROVE  Sum(m) = [field \in Fields |-> SumFunctionOnSet(Column(m, field), DOMAIN m)]
BY DEF Sum, Column, SumFunction

LEMMA CostByKey ==
  ASSUME NEW d, NEW m
  PROVE  CostBy(d, m) = SumFunctionOnSet([key \in DOMAIN m |-> ModelCost(ModelOf(d, key), m[key])], DOMAIN m)
BY DEF CostBy, SumFunction

LEMMA ColumnTyped ==
  ASSUME NEW m, MapTo(Stats, m), NEW field \in Fields
  PROVE  \A key \in DOMAIN m : Column(m, field)[key] \in Int
BY DEF MapTo, Stats, Column

LEMMA NothingAddsUp ==
  /\ MapTo(Stats, Nothing) /\ Sum(Nothing) = NoUsage
  /\ \A d : CostBy(d, Nothing) = 0
<1>1. DOMAIN Nothing = {} /\ Nothing \in [DOMAIN Nothing -> Stats]
  BY DEF Nothing
<1>2. MapTo(Stats, Nothing)
  BY <1>1, FS_EmptySet DEF MapTo
<1>3. Sum(Nothing) = NoUsage
  BY <1>1, SumByColumn, SumOfNone DEF NoUsage
<1>4. ASSUME NEW d PROVE CostBy(d, Nothing) = 0
  BY <1>1, CostByKey, SumOfNone
<1> QED
  BY <1>2, <1>3, <1>4

(* What a Stat is added to, and the maps of Stats after it. *)
LEMMA AddToTyped ==
  ASSUME NEW m, MapTo(Stats, m), NEW key, NEW stat \in Stats
  PROVE  /\ MapTo(Stats, AddTo(m, key, stat))
         /\ DOMAIN AddTo(m, key, stat) = DOMAIN m \cup {key}
         /\ \A k \in DOMAIN m : k # key => AddTo(m, key, stat)[k] = m[k]
         /\ AddTo(m, key, stat)[key] = Plus(GetOr(m, key, NoUsage), stat)
         /\ GetOr(m, key, NoUsage) \in Stats
<1> DEFINE new == Plus(GetOr(m, key, NoUsage), stat)
<1>1. GetOr(m, key, NoUsage) \in Stats
  BY NoUsageTyped DEF GetOr, MapTo
<1>2. new \in Stats
  BY <1>1, PlusTyped
<1>3. AddTo(m, key, stat) = [k \in DOMAIN m \cup {key} |-> IF k = key THEN new ELSE m[k]]
  BY DEF AddTo, Put
<1>4. IsFiniteSet(DOMAIN m \cup {key})
  BY FS_AddElement DEF MapTo
<1> HIDE DEF new
<1>5. AddTo(m, key, stat) \in [DOMAIN m \cup {key} -> Stats]
  BY <1>2, <1>3 DEF MapTo
<1>6. MapTo(Stats, AddTo(m, key, stat))
  BY <1>4, <1>5 DEF MapTo
<1> QED
  BY <1>1, <1>3, <1>6 DEF new

LEMMA AddToElsewhere ==
  ASSUME NEW m, NEW key, NEW stat, NEW k \in DOMAIN m, k # key
  PROVE  AddTo(m, key, stat)[k] = m[k]
BY DEF AddTo, Put

LEMMA SumAfterAdd ==
  ASSUME NEW m, MapTo(Stats, m), NEW key, NEW stat \in Stats
  PROVE  Sum(AddTo(m, key, stat)) = Plus(Sum(m), stat)
<1> DEFINE n == AddTo(m, key, stat)
<1>1. ASSUME NEW field \in Fields
      PROVE  SumFunctionOnSet(Column(n, field), DOMAIN n)
               = SumFunctionOnSet(Column(m, field), DOMAIN m) + stat[field]
  <2> DEFINE f == Column(m, field)
             g == Column(n, field)
             D == DOMAIN m
  <2>1. DOMAIN n = D \cup {key} /\ IsFiniteSet(D)
    BY AddToTyped DEF MapTo
  <2>2. \A x \in D : f[x] \in Int
    BY ColumnTyped
  <2>3. ASSUME NEW x \in D, x # key PROVE g[x] = f[x]
    <3>1. n[x] = m[x]
      BY <2>3, AddToElsewhere
    <3> QED
      BY <2>1, <3>1 DEF Column
  <2>4. stat[field] \in Int
    BY DEF Stats
  <2>5. g[key] = (IF key \in D THEN f[key] ELSE 0) + stat[field]
    <3>1. n[key] = Plus(GetOr(m, key, NoUsage), stat)
      BY AddToTyped
    <3>2. g[key] = GetOr(m, key, NoUsage)[field] + stat[field]
      BY <2>1, <3>1 DEF Column, Plus
    <3> QED
      BY <3>2 DEF GetOr, NoUsage, Column
  <2> HIDE DEF f, g, D, n
  <2> DEFINE v == stat[field]
  <2>6. SumFunctionOnSet(g, D \cup {key}) = SumFunctionOnSet(f, D) + v
    <3> HIDE DEF v
    <3>1. v \in Int /\ g[key] = (IF key \in D THEN f[key] ELSE 0) + v
      BY <2>4, <2>5 DEF v
    <3>2. \A x \in D : x # key => g[x] = f[x]
      BY <2>3
    <3>3. IsFiniteSet(D)
      BY <2>1
    <3> QED
      BY ONLY <2>2, <3>1, <3>2, <3>3, SumOfGrown
  <2> QED
    BY <2>1, <2>6 DEF f, g, D
<1> HIDE DEF n
<1>2. Sum(n) = [field \in Fields |-> SumFunctionOnSet(Column(n, field), DOMAIN n)]
  BY SumByColumn
<1>3. Sum(m) = [field \in Fields |-> SumFunctionOnSet(Column(m, field), DOMAIN m)]
  BY SumByColumn
<1> QED
  BY <1>1, <1>2, <1>3 DEF Plus, n

LEMMA CostAfterAdd ==
  ASSUME NEW d, NEW m, MapTo(Stats, m), NEW key, NEW stat \in Stats
  PROVE  CostBy(d, AddTo(m, key, stat)) = CostBy(d, m) + ModelCost(ModelOf(d, key), stat)
<1> DEFINE n == AddTo(m, key, stat)
           D == DOMAIN m
           f == [k \in D |-> ModelCost(ModelOf(d, k), m[k])]
           g == [k \in DOMAIN n |-> ModelCost(ModelOf(d, k), n[k])]
           v == ModelCost(ModelOf(d, key), stat)
           old == GetOr(m, key, NoUsage)
<1>1. DOMAIN n = D \cup {key} /\ IsFiniteSet(D) /\ old \in Stats /\ n[key] = Plus(old, stat)
  BY AddToTyped DEF MapTo
<1>2. \A x \in D : f[x] \in Int
  BY CostTyped DEF MapTo
<1>3. ASSUME NEW x \in D, x # key PROVE g[x] = f[x]
  <2>1. n[x] = m[x]
    BY <1>3, AddToElsewhere
  <2> HIDE DEF n
  <2> QED
    BY <1>1, <2>1
<1>4. v \in Int
  BY CostTyped
<1>5. g[key] = ModelCost(ModelOf(d, key), old) + v
  <2> HIDE DEF n, old
  <2>1. g[key] = ModelCost(ModelOf(d, key), Plus(old, stat))
    BY <1>1
  <2> QED
    BY <1>1, <2>1, CostOfPlus
<1>6. ModelCost(ModelOf(d, key), old) = IF key \in D THEN f[key] ELSE 0
  BY CostOfNothing DEF GetOr
<1>7. CostBy(d, m) = SumFunctionOnSet(f, D) /\ CostBy(d, n) = SumFunctionOnSet(g, D \cup {key})
  BY <1>1, CostByKey
<1> HIDE DEF f, g, D, n, v, old
<1>8. \A x \in D : x # key => g[x] = f[x]
  BY <1>3
<1>9. SumFunctionOnSet(g, D \cup {key}) = SumFunctionOnSet(f, D) + v
  BY <1>1, <1>2, <1>4, <1>5, <1>6, <1>8, SumOfGrown
<1> QED
  BY <1>7, <1>9 DEF n, v

LEMMA CostByTyped ==
  ASSUME NEW d, NEW m, MapTo(Stats, m)
  PROVE  CostBy(d, m) \in Int
<1> DEFINE f == [k \in DOMAIN m |-> ModelCost(ModelOf(d, k), m[k])]
<1>1. \A x \in DOMAIN m : f[x] \in Int
  BY CostTyped DEF MapTo
<1>2. CostBy(d, m) = SumFunctionOnSet(f, DOMAIN m)
  BY CostByKey
<1> HIDE DEF f
<1> QED
  BY <1>1, <1>2, SumTyped DEF MapTo

(* The sum of a map of Stats is one, and costs what its entries cost. *)
Amount(m, S) == [field \in Fields |-> SumFunctionOnSet(Column(m, field), S)]

LEMMA AmountTakeOut ==
  ASSUME NEW m, MapTo(Stats, m), NEW S \in SUBSET DOMAIN m, NEW x \in S
  PROVE  Amount(m, S) = Plus(m[x], Amount(m, S \ {x}))
<1>1. IsFiniteSet(S)
  BY FS_Subset DEF MapTo
<1>2. ASSUME NEW field \in Fields
      PROVE  SumFunctionOnSet(Column(m, field), S) = m[x][field] + SumFunctionOnSet(Column(m, field), S \ {x})
  <2>1. \A k \in S : Column(m, field)[k] \in Int
    BY ColumnTyped
  <2>2. Column(m, field)[x] = m[x][field]
    BY DEF Column
  <2> QED
    BY <1>1, <2>1, <2>2, SumTakeOut
<1> QED
  BY <1>2 DEF Amount, Plus

LEMMA AmountOfMap ==
  ASSUME NEW m, MapTo(Stats, m), NEW model
  PROVE  /\ Sum(m) \in Stats
         /\ ModelCost(model, Sum(m)) = SumFunctionOnSet([k \in DOMAIN m |-> ModelCost(model, m[k])], DOMAIN m)
<1> DEFINE D == DOMAIN m
           f == [k \in D |-> ModelCost(model, m[k])]
           Right(S) == Amount(m, S) \in Stats /\ ModelCost(model, Amount(m, S)) = SumFunctionOnSet(f, S)
           Bad == {S \in SUBSET D : ~Right(S)}
<1>1. SUFFICES ASSUME Bad # {} PROVE FALSE
  <2>1. D \in SUBSET D /\ Sum(m) = Amount(m, D)
    BY SumByColumn DEF Amount
  <2> QED
    BY <2>1
<1>2. PICK S \in Bad : \A T \in Bad : T \subseteq S => T = S
  <2>1. Bad \in SUBSET SUBSET D /\ IsFiniteSet(D)
    BY DEF MapTo
  <2> HIDE DEF Bad, D
  <2> QED
    BY <1>1, <2>1, SmallestPart
<1>3. S # {}
  <2> SUFFICES ASSUME S = {} PROVE FALSE
    OBVIOUS
  <2>1. Amount(m, {}) = NoUsage
    BY SumOfNone DEF Amount, NoUsage
  <2>2. Right({})
    BY <2>1, SumOfNone, CostOfNothing, NoUsageTyped
  <2> QED
    BY <2>2
<1>4. PICK x \in S : TRUE
  BY <1>3
<1>5. S \ {x} \notin Bad
  BY <1>2, <1>4
<1>6. Right(S \ {x})
  BY <1>5
<1>7. m[x] \in Stats /\ Amount(m, S) = Plus(m[x], Amount(m, S \ {x}))
  BY <1>4, AmountTakeOut DEF MapTo
<1>8. SumFunctionOnSet(f, S) = f[x] + SumFunctionOnSet(f, S \ {x})
  <2>1. IsFiniteSet(S) /\ \A k \in S : f[k] \in Int
    BY FS_Subset, CostTyped DEF MapTo
  <2> HIDE DEF f
  <2> QED
    BY <1>4, <2>1, SumTakeOut
<1>9. f[x] = ModelCost(model, m[x])
  BY <1>4
<1>10. Right(S)
  <2> HIDE DEF f
  <2>1. Amount(m, S) \in Stats
    BY <1>6, <1>7, PlusTyped
  <2>2. ModelCost(model, Amount(m, S)) = ModelCost(model, m[x]) + ModelCost(model, Amount(m, S \ {x}))
    BY <1>6, <1>7, CostOfPlus
  <2> QED
    BY <1>6, <1>8, <1>9, <2>1, <2>2
<1> QED
  BY <1>10

-----------------------------------------------------------------------------
(***************************************************************************)
(* Hourly series: SumHours goes by key over the hours that know it; the    *)
(* totals go by hour.                                                      *)
(***************************************************************************)
(* Finitely many finite sets have finitely many elements. *)
LEMMA FiniteUnion ==
  ASSUME NEW H, IsFiniteSet(H), NEW part, \A h \in H : IsFiniteSet(part[h])
  PROVE  IsFiniteSet(UNION {part[h] : h \in H})
<1> DEFINE All(S) == UNION {part[h] : h \in S}
           Bad == {S \in SUBSET H : ~IsFiniteSet(All(S))}
<1>1. SUFFICES ASSUME Bad # {} PROVE FALSE
  OBVIOUS
<1>2. PICK S \in Bad : \A T \in Bad : T \subseteq S => T = S
  <2> Bad \in SUBSET SUBSET H
    OBVIOUS
  <2> HIDE DEF Bad
  <2> QED
    BY <1>1, SmallestPart
<1>3. CASE S = {}
  <2>1. All({}) = {}
    OBVIOUS
  <2>2. IsFiniteSet(All({}))
    BY <2>1, FS_EmptySet
  <2> QED
    BY <1>3, <2>2
<1>4. CASE S # {}
  <2>1. PICK x \in S : TRUE
    BY <1>4
  <2>2. S \ {x} \notin Bad
    BY <1>2, <2>1
  <2>3. IsFiniteSet(All(S \ {x})) /\ IsFiniteSet(part[x])
    BY <2>1, <2>2
  <2>4. All(S) = All(S \ {x}) \cup part[x]
    BY <2>1
  <2> HIDE DEF All
  <2>5. IsFiniteSet(All(S))
    BY <2>3, <2>4, FS_Union
  <2> QED
    BY <2>5
<1> QED
  BY <1>3, <1>4

(* A table with gaps, its rows and its columns. *)
Places(H, part) == UNION {part[h] : h \in H}
RowsOf(H, part, k) == {h \in H : k \in part[h]}
ByKey(H, part, t) ==
  [k \in Places(H, part) |-> SumFunctionOnSet([h \in RowsOf(H, part, k) |-> t[h][k]], RowsOf(H, part, k))]
ByHour(H, part, t) == [h \in H |-> SumFunctionOnSet([k \in part[h] |-> t[h][k]], part[h])]

(* It adds up to the same by keys and by hours. *)
LEMMA SumBySeries ==
  ASSUME NEW H, IsFiniteSet(H), NEW part, \A h \in H : IsFiniteSet(part[h]),
         NEW t, \A h \in H : \A k \in part[h] : t[h][k] \in Int
  PROVE  SumFunctionOnSet(ByKey(H, part, t), Places(H, part)) = SumFunctionOnSet(ByHour(H, part, t), H)
<1> DEFINE K == UNION {part[h] : h \in H}
           at(k) == {h \in H : k \in part[h]}
           full == [h \in H |-> [k \in K |-> IF k \in part[h] THEN t[h][k] ELSE 0]]
           byKey == [k \in K |-> SumFunctionOnSet([h \in at(k) |-> t[h][k]], at(k))]
           byHour == [h \in H |-> SumFunctionOnSet([k \in part[h] |-> t[h][k]], part[h])]
<1>1. IsFiniteSet(K)
  BY FiniteUnion
<1>2. \A h \in H, k \in K : full[h][k] \in Int
  OBVIOUS
<1>3. SumFunctionOnSet([k \in K |-> SumFunctionOnSet([h \in H |-> full[h][k]], H)], K)
        = SumFunctionOnSet([h \in H |-> SumFunctionOnSet(full[h], K)], H)
  <2> HIDE DEF full, K
  <2> QED
    BY <1>1, <1>2, SumByRowsAndColumns
<1>4. ASSUME NEW k \in K
      PROVE  byKey[k] = SumFunctionOnSet([h \in H |-> full[h][k]], H)
  <2> DEFINE g == [h \in H |-> full[h][k]]
             f == [h \in at(k) |-> t[h][k]]
             A == at(k)
  <2>1. A \in SUBSET H /\ IsFiniteSet(A)
    BY FS_Subset
  <2>2. \A h \in H : g[h] \in Int
    BY <1>2
  <2>3. \A h \in H \ A : g[h] = 0
    OBVIOUS
  <2>4. \A h \in A : g[h] = f[h]
    OBVIOUS
  <2>5. byKey[k] = SumFunctionOnSet(f, A)
    OBVIOUS
  <2> HIDE DEF g, f, A, byKey
  <2>6. SumFunctionOnSet(g, H) = SumFunctionOnSet(g, A)
    BY <2>1, <2>2, <2>3, SumOverZeros
  <2>7. SumFunctionOnSet(g, A) = SumFunctionOnSet(f, A)
    BY <2>1, <2>4, SumOfSame
  <2> QED
    BY <2>5, <2>6, <2>7 DEF g
<1>5. ASSUME NEW h \in H
      PROVE  byHour[h] = SumFunctionOnSet(full[h], K)
  <2> DEFINE g == full[h]
             P == part[h]
             f == [k \in P |-> t[h][k]]
  <2>1. P \in SUBSET K /\ IsFiniteSet(P)
    OBVIOUS
  <2>2. \A k \in K : g[k] \in Int
    BY <1>2
  <2>3. \A k \in K \ P : g[k] = 0
    OBVIOUS
  <2>4. \A k \in P : g[k] = f[k]
    BY <2>1
  <2>5. byHour[h] = SumFunctionOnSet(f, P)
    OBVIOUS
  <2> HIDE DEF g, f, P, byHour, K
  <2>6. SumFunctionOnSet(g, K) = SumFunctionOnSet(g, P)
    BY <1>1, <2>1, <2>2, <2>3, SumOverZeros
  <2>7. SumFunctionOnSet(g, P) = SumFunctionOnSet(f, P)
    BY <2>1, <2>4, SumOfSame
  <2> QED
    BY <2>5, <2>6, <2>7 DEF g
<1>6. byKey = [k \in K |-> SumFunctionOnSet([h \in H |-> full[h][k]], H)]
  <2> DEFINE r(k) == SumFunctionOnSet([h \in H |-> full[h][k]], H)
  <2>1. \A k \in K : byKey[k] = r(k)
    BY <1>4
  <2>2. byKey = [k \in K |-> byKey[k]]
    OBVIOUS
  <2> HIDE DEF r, byKey, K
  <2>3. byKey = [k \in K |-> r(k)]
    BY <2>1, <2>2
  <2> QED
    BY <2>3 DEF r
<1>7. byHour = [h \in H |-> SumFunctionOnSet(full[h], K)]
  <2> DEFINE r(h) == SumFunctionOnSet(full[h], K)
  <2>1. \A h \in H : byHour[h] = r(h)
    BY <1>5
  <2>2. byHour = [h \in H |-> byHour[h]]
    OBVIOUS
  <2> HIDE DEF r, byHour
  <2>3. byHour = [h \in H |-> r(h)]
    BY <2>1, <2>2
  <2> QED
    BY <2>3 DEF r
<1> HIDE DEF full
<1>8. SumFunctionOnSet(byKey, K) = SumFunctionOnSet(byHour, H)
  BY <1>3, <1>6, <1>7
<1> QED
  BY <1>8 DEF ByKey, ByHour, Places, RowsOf

(* The hours that know a key, and what they know of it. *)
HoursWith(series, key) == {h \in DOMAIN series : key \in DOMAIN series[h]}
KeysOf(series) == UNION {DOMAIN series[h] : h \in DOMAIN series}
Hourly(series, key) == [h \in HoursWith(series, key) |-> series[h][key]]

LEMMA SumHoursIs ==
  ASSUME NEW series
  PROVE  SumHours(series) = [key \in KeysOf(series) |-> Sum(Hourly(series, key))]
BY DEF SumHours, KeysOf, Hourly, HoursWith

Series(series) ==
  IsFiniteSet(DOMAIN series) /\ \A h \in DOMAIN series : MapTo(Stats, series[h])

LEMMA SeriesTyped ==
  ASSUME NEW series, Series(series)
  PROVE  /\ IsFiniteSet(KeysOf(series))
         /\ \A key : MapTo(Stats, Hourly(series, key)) /\ DOMAIN Hourly(series, key) = HoursWith(series, key)
         /\ MapTo(Stats, SumHours(series))
         /\ DOMAIN SumHours(series) = KeysOf(series)
<1>1. IsFiniteSet(KeysOf(series))
  <2> DEFINE H == DOMAIN series
             part == [h \in H |-> DOMAIN series[h]]
  <2>1. IsFiniteSet(H) /\ \A h \in H : IsFiniteSet(part[h])
    BY DEF Series, MapTo
  <2>2. KeysOf(series) = UNION {part[h] : h \in H}
    BY DEF KeysOf
  <2> HIDE DEF H, part
  <2> QED
    BY <2>1, <2>2, FiniteUnion
<1>2. ASSUME NEW key
      PROVE  MapTo(Stats, Hourly(series, key)) /\ DOMAIN Hourly(series, key) = HoursWith(series, key)
  <2>1. IsFiniteSet(HoursWith(series, key))
    BY FS_Subset DEF HoursWith, Series
  <2>2. \A h \in HoursWith(series, key) : series[h][key] \in Stats
    BY DEF HoursWith, Series, MapTo
  <2> QED
    BY <2>1, <2>2 DEF Hourly, MapTo
<1>3. \A key \in KeysOf(series) : Sum(Hourly(series, key)) \in Stats
  BY <1>2, AmountOfMap
<1>4. SumHours(series) \in [KeysOf(series) -> Stats]
  BY <1>3, SumHoursIs
<1> QED
  BY <1>1, <1>2, <1>4 DEF MapTo

LEMMA HoursAddUp ==
  ASSUME NEW series, Series(series)
  PROVE  Sum(SumHours(series)) = Sum([h \in DOMAIN series |-> Sum(series[h])])
<1> DEFINE H == DOMAIN series
           part == [h \in H |-> DOMAIN series[h]]
           K == UNION {part[h] : h \in H}
           at(k) == {h \in H : k \in part[h]}
           sums == [h \in H |-> Sum(series[h])]
<1>0. DOMAIN sums = H /\ Sum(sums) = [field \in Fields |-> SumFunctionOnSet(Column(sums, field), H)]
  BY SumByColumn
<1>1. K = KeysOf(series) /\ \A k : at(k) = HoursWith(series, k)
  BY DEF KeysOf, HoursWith
<1>2. DOMAIN SumHours(series) = K
  BY <1>1, SeriesTyped
<1>3. ASSUME NEW field \in Fields
      PROVE  SumFunctionOnSet(Column(SumHours(series), field), K) = SumFunctionOnSet(Column(sums, field), H)
  <2> DEFINE t == [h \in H |-> [k \in part[h] |-> series[h][k][field]]]
             byKey == [k \in K |-> SumFunctionOnSet([h \in at(k) |-> t[h][k]], at(k))]
             byHour == [h \in H |-> SumFunctionOnSet([k \in part[h] |-> t[h][k]], part[h])]
  <2>1. /\ IsFiniteSet(H) /\ \A h \in H : IsFiniteSet(part[h])
        /\ \A h \in H : \A k \in part[h] : t[h][k] \in Int
    BY DEF Series, MapTo, Stats
  <2>2. SumFunctionOnSet(byKey, K) = SumFunctionOnSet(byHour, H)
    <3>1. byKey = ByKey(H, part, t) /\ byHour = ByHour(H, part, t) /\ K = Places(H, part)
      <4> HIDE DEF t, part, H
      <4> QED
        BY DEF ByKey, ByHour, Places, RowsOf
    <3> HIDE DEF t, part, H, byKey, byHour, K
    <3>2. SumFunctionOnSet(ByKey(H, part, t), Places(H, part)) = SumFunctionOnSet(ByHour(H, part, t), H)
      BY <2>1, SumBySeries
    <3> QED
      BY <3>1, <3>2
  <2>3. ASSUME NEW k \in K PROVE Column(SumHours(series), field)[k] = byKey[k]
    <3>1. SumHours(series)[k] = Sum(Hourly(series, k))
      BY <1>1, SumHoursIs
    <3>2. Sum(Hourly(series, k))[field] = SumFunctionOnSet(Column(Hourly(series, k), field), HoursWith(series, k))
      BY SumByColumn, SeriesTyped
    <3>3. Column(Hourly(series, k), field) = [h \in at(k) |-> t[h][k]]
      BY DEF Column, Hourly, HoursWith
    <3>4. Column(SumHours(series), field)[k] = SumHours(series)[k][field]
      BY <1>2 DEF Column
    <3>5. byKey[k] = SumFunctionOnSet([h \in at(k) |-> t[h][k]], at(k))
      OBVIOUS
    <3> HIDE DEF byKey, t, K, at
    <3> QED
      BY <1>1, <3>1, <3>2, <3>3, <3>4, <3>5
  <2>4. ASSUME NEW h \in H PROVE Column(sums, field)[h] = byHour[h]
    <3>1. sums[h][field] = SumFunctionOnSet(Column(series[h], field), DOMAIN series[h])
      BY SumByColumn
    <3>2. Column(series[h], field) = [k \in part[h] |-> t[h][k]] /\ part[h] = DOMAIN series[h]
      BY DEF Column
    <3>3. Column(sums, field)[h] = sums[h][field]
      BY DEF Column
    <3>4. byHour[h] = SumFunctionOnSet([k \in part[h] |-> t[h][k]], part[h])
      OBVIOUS
    <3> HIDE DEF byHour, t, part, sums
    <3> QED
      BY <3>1, <3>2, <3>3, <3>4
  <2>5. IsFiniteSet(K)
    BY <1>1, SeriesTyped
  <2> HIDE DEF byKey, byHour, K, sums, H
  <2>6. SumFunctionOnSet(Column(SumHours(series), field), K) = SumFunctionOnSet(byKey, K)
    BY <2>3, <2>5, SumOfSame
  <2>7. SumFunctionOnSet(Column(sums, field), H) = SumFunctionOnSet(byHour, H)
    BY <2>1, <2>4, SumOfSame
  <2> QED
    BY <2>2, <2>6, <2>7
<1>4. Sum(SumHours(series)) = [field \in Fields |-> SumFunctionOnSet(Column(SumHours(series), field), K)]
  BY <1>2, SumByColumn
<1> HIDE DEF K, H, sums
<1>5. Sum(SumHours(series)) = Sum(sums)
  BY <1>0, <1>3, <1>4
<1> QED
  BY <1>5 DEF sums, H

LEMMA HoursCostAddUp ==
  ASSUME NEW series, Series(series), NEW d
  PROVE  CostBy(d, SumHours(series))
           = SumFunctionOnSet([h \in DOMAIN series |-> CostBy(d, series[h])], DOMAIN series)
<1> DEFINE H == DOMAIN series
           part == [h \in H |-> DOMAIN series[h]]
           K == UNION {part[h] : h \in H}
           at(k) == {h \in H : k \in part[h]}
           t == [h \in H |-> [k \in part[h] |-> ModelCost(ModelOf(d, k), series[h][k])]]
           byKey == [k \in K |-> SumFunctionOnSet([h \in at(k) |-> t[h][k]], at(k))]
           byHour == [h \in H |-> SumFunctionOnSet([k \in part[h] |-> t[h][k]], part[h])]
           f == [k \in K |-> ModelCost(ModelOf(d, k), SumHours(series)[k])]
           g == [h \in H |-> CostBy(d, series[h])]
<1>1. K = KeysOf(series) /\ \A k : at(k) = HoursWith(series, k)
  BY DEF KeysOf, HoursWith
<1>2. DOMAIN SumHours(series) = K /\ IsFiniteSet(K)
  BY <1>1, SeriesTyped
<1>3. /\ IsFiniteSet(H) /\ \A h \in H : IsFiniteSet(part[h])
      /\ \A h \in H : \A k \in part[h] : t[h][k] \in Int
  BY CostTyped DEF Series, MapTo
<1>4. SumFunctionOnSet(byKey, K) = SumFunctionOnSet(byHour, H)
  <2>1. byKey = ByKey(H, part, t) /\ byHour = ByHour(H, part, t) /\ K = Places(H, part)
    <3> HIDE DEF t, part, H
    <3> QED
      BY DEF ByKey, ByHour, Places, RowsOf
  <2> HIDE DEF t, part, H, byKey, byHour, K
  <2>2. SumFunctionOnSet(ByKey(H, part, t), Places(H, part)) = SumFunctionOnSet(ByHour(H, part, t), H)
    BY <1>3, SumBySeries
  <2> QED
    BY <2>1, <2>2
<1>5. ASSUME NEW k \in K PROVE f[k] = byKey[k]
  <2> DEFINE m == Hourly(series, k)
             c == ModelOf(d, k)
  <2>1. SumHours(series)[k] = Sum(m)
    BY <1>1, SumHoursIs
  <2>2. MapTo(Stats, m) /\ DOMAIN m = at(k)
    BY <1>1, SeriesTyped
  <2>3. [h \in at(k) |-> ModelCost(c, m[h])] = [h \in at(k) |-> t[h][k]]
    BY DEF Hourly, HoursWith
  <2>4. byKey[k] = SumFunctionOnSet([h \in at(k) |-> t[h][k]], at(k))
    OBVIOUS
  <2>5. f[k] = ModelCost(c, SumHours(series)[k])
    OBVIOUS
  <2> HIDE DEF m, c, byKey, t, f, at, K
  <2>6. ModelCost(c, Sum(m)) = SumFunctionOnSet([h \in at(k) |-> ModelCost(c, m[h])], at(k))
    BY <2>2, AmountOfMap
  <2> QED
    BY <2>1, <2>3, <2>4, <2>5, <2>6
<1>6. ASSUME NEW h \in H PROVE g[h] = byHour[h]
  <2>1. g[h] = SumFunctionOnSet([k \in part[h] |-> ModelCost(ModelOf(d, k), series[h][k])], part[h])
    BY CostByKey
  <2>2. [k \in part[h] |-> ModelCost(ModelOf(d, k), series[h][k])] = [k \in part[h] |-> t[h][k]]
    OBVIOUS
  <2> QED
    BY <2>1, <2>2
<1>7. CostBy(d, SumHours(series)) = SumFunctionOnSet(f, K)
  BY <1>2, CostByKey
<1> HIDE DEF byKey, byHour, K, f, g, H
<1>8. SumFunctionOnSet(f, K) = SumFunctionOnSet(byKey, K)
  BY <1>2, <1>5, SumOfSame
<1>9. SumFunctionOnSet(g, H) = SumFunctionOnSet(byHour, H)
  BY <1>3, <1>6, SumOfSame
<1> QED
  BY <1>4, <1>7, <1>8, <1>9 DEF g, H

-----------------------------------------------------------------------------
(***************************************************************************)
(* Aggregates add up if the totals are those of every dimension, over all  *)
(* and in each hour, and the costs of all are what was charged.  They are  *)
(* complete for a time if what was charged to an hour that is retained     *)
(* then is in the series of that hour.                                     *)
(***************************************************************************)
Priced == {"model", "client"}

AddsUp(a) ==
  /\ a.totals \in Stats
  /\ \A d \in Dimensions : MapTo(Stats, a.by[d]) /\ a.totals = Sum(a.by[d])
  /\ \A d \in Priced : CostBy(d, a.by[d]) = SumFunction(a.charged)
  /\ MapTo(Int, a.charged) /\ DOMAIN a.charged \subseteq Nat
  /\ MapTo(Stats, a.hours) /\ DOMAIN a.hours \subseteq DOMAIN a.charged
  /\ \A d \in Dimensions :
       /\ Series(a.hourly[d]) /\ DOMAIN a.hourly[d] = DOMAIN a.hours
       /\ \A h \in DOMAIN a.hours : a.hours[h] = Sum(a.hourly[d][h])

UpToDate(a, now) ==
  \A h \in DOMAIN a.charged : h >= now - Retention =>
    h \in DOMAIN a.hours /\ \A d \in Priced : CostBy(d, a.hourly[d][h]) = a.charged[h]

LEMMA NothingAddedUp ==
  ASSUME NEW c
  PROVE  AddsUp(NoAggregates) /\ UpToDate(NoAggregates, c)
<1> DEFINE a == NoAggregates
<1>1. /\ a.totals = NoUsage /\ a.hours = Nothing /\ a.charged = Nothing
      /\ \A d \in Dimensions : a.by[d] = Nothing /\ a.hourly[d] = Nothing
  BY DEF NoAggregates
<1>2. DOMAIN Nothing = {} /\ Nothing \in [DOMAIN Nothing -> Int]
  BY DEF Nothing
<1>3. SumFunction(Nothing) = 0
  BY <1>2, SumOfNone DEF SumFunction
<1>4. MapTo(Int, Nothing) /\ Series(Nothing)
  BY <1>2, FS_EmptySet DEF MapTo, Series
<1>5. Priced \subseteq Dimensions
  BY DEF Priced, Dimensions
<1> HIDE DEF a
<1>6. AddsUp(a)
  BY <1>1, <1>2, <1>3, <1>4, <1>5, NothingAddsUp, NoUsageTyped DEF AddsUp
<1>7. UpToDate(a, c)
  BY <1>1, <1>2 DEF UpToDate
<1> QED
  BY <1>6, <1>7 DEF a

LEMMA HourTyped ==
  ASSUME NEW now \in Nat
  PROVE  HourOf(now) \in Nat /\ HourOf(now) <= now /\ HourOf(now) >= now - Retention
<1> DEFINE rest == now % HourLength
<1>1. HourLength \in Nat \ {0} /\ Retention >= HourLength /\ Retention \in Int
  BY TrackerAssumption
<1>2. rest \in 0..(HourLength - 1)
  BY <1>1
<1>3. rest <= now
  BY <1>1
<1> HIDE DEF rest
<1>4. now - rest \in Nat /\ now - rest <= now /\ now - rest >= now - Retention
  BY <1>1, <1>2, <1>3
<1> QED
  BY <1>4 DEF HourOf, rest

LEMMA KeyCosts ==
  ASSUME NEW e, EventOK(e), NEW d \in Priced
  PROVE  ModelCost(ModelOf(d, Key(d, e)), StatOf(e)) = EventCost(e)
<1>1. ModelOf(d, Key(d, e)) = Known(e.model)
  BY DEF Priced, ModelOf, Key
<1>2. CASE e.model # <<>>
  BY <1>1, <1>2, StatTyped DEF Known
<1>3. CASE e.model = <<>>
  <2>1. PricedAs(<<>>) = {}
    <3> SUFFICES ASSUME NEW name \in DOMAIN Pricing, name # <<>>, IsPrefix(name, <<>>) PROVE FALSE
      BY DEF PricedAs
    <3>1. name \in Seq(STRING) /\ Len(name) <= 0
      BY TrackerAssumption DEF IsPrefix
    <3> QED
      BY <3>1
  <2>2. ModelCost(Unknown, StatOf(e)) = ModelCost(<<>>, StatOf(e))
    BY <2>1, UnknownAssumption DEF ModelCost
  <2> QED
    BY <1>1, <1>3, <2>2, StatTyped DEF Known
<1> QED
  BY <1>2, <1>3

LEMMA RecordAddsUp ==
  ASSUME NEW a, AddsUp(a), NEW c \in Nat, UpToDate(a, c),
         NEW e, EventOK(e), e.client # <<>>, NEW now \in Nat, now <= c
  PROVE  AddsUp(Record(a, e, now)) /\ UpToDate(Record(a, e, now), c)
<1> DEFINE hour == HourOf(now)
           fresh == hour \notin DOMAIN a.hours
           stat == StatOf(e)
           cost == EventCost(e)
           P == Pruned(a.hours, fresh, now)
           S(d) == Pruned(a.hourly[d], fresh, now)
           old(d) == GetOr(S(d), hour, Nothing)
           new(d) == AddTo(old(d), Key(d, e), stat)
           R == Record(a, e, now)
<1>1. /\ R.totals = Plus(a.totals, stat)
      /\ \A d \in Dimensions : R.by[d] = AddTo(a.by[d], Key(d, e), stat)
      /\ R.hours = AddTo(P, hour, stat)
      /\ \A d \in Dimensions : R.hourly[d] = Put(S(d), hour, new(d))
      /\ R.charged = Put(a.charged, hour, GetOr(a.charged, hour, 0) + cost)
  <2>1. \A d \in Dimensions : Counted(d, e)
    BY DEF Counted
  <2> QED
    BY <2>1 DEF Record
<1>2. stat \in Stats /\ cost \in Int
  BY StatTyped, EventStatTyped
<1>3. hour \in Nat /\ hour <= now /\ hour >= now - Retention
  BY HourTyped
<1>4. /\ fresh \in BOOLEAN
      /\ fresh <=> hour \notin DOMAIN a.hours
  OBVIOUS
<1>5. \A d \in Priced : d \in Dimensions /\ ModelCost(ModelOf(d, Key(d, e)), stat) = cost
  BY KeyCosts DEF Priced, Dimensions
<1> HIDE DEF hour, stat, cost, R
<1>6. /\ DOMAIN P = {h \in DOMAIN a.hours : fresh => h >= now - Retention}
      /\ \A h \in DOMAIN P : P[h] = a.hours[h]
  BY DEF Pruned, Since
<1>7. \A d \in Dimensions :
        /\ DOMAIN S(d) = DOMAIN P
        /\ \A h \in DOMAIN P : S(d)[h] = a.hourly[d][h]
  BY <1>6 DEF AddsUp, Pruned, Since
<1> HIDE DEF P, S, fresh
<1>8. MapTo(Stats, P) /\ DOMAIN P \subseteq DOMAIN a.hours /\ (hour \in DOMAIN P <=> ~fresh)
  <2>1. IsFiniteSet(DOMAIN P) /\ DOMAIN P \subseteq DOMAIN a.hours
    BY <1>6, FS_Subset DEF AddsUp, MapTo
  <2>2. P = [h \in DOMAIN P |-> P[h]]
    PROOF BY DEF P, Pruned, Since, AddsUp, MapTo
  <2>3. \A h \in DOMAIN P : P[h] \in Stats
    BY <1>6, <2>1 DEF AddsUp, MapTo
  <2>4. hour \in DOMAIN P <=> ~fresh
    BY <1>3, <1>4, <1>6
  <2> QED
    BY <2>1, <2>2, <2>3, <2>4 DEF MapTo
<1>9. ASSUME NEW d \in Dimensions
      PROVE  /\ MapTo(Stats, old(d))
             /\ Sum(old(d)) = GetOr(P, hour, NoUsage)
             /\ MapTo(Stats, new(d))
             /\ Sum(new(d)) = Plus(GetOr(P, hour, NoUsage), stat)
             /\ \A f \in Priced : CostBy(f, new(d)) = CostBy(f, old(d)) + ModelCost(ModelOf(f, Key(d, e)), stat)
  <2>1. MapTo(Stats, old(d)) /\ Sum(old(d)) = GetOr(P, hour, NoUsage)
    <3>1. CASE hour \in DOMAIN P
      <4>1. old(d) = a.hourly[d][hour] /\ GetOr(P, hour, NoUsage) = a.hours[hour]
        BY <1>6, <1>7, <3>1 DEF GetOr
      <4>2. hour \in DOMAIN a.hours
        BY <1>8, <3>1
      <4> QED
        BY <4>1, <4>2 DEF AddsUp, Series
    <3>2. CASE hour \notin DOMAIN P
      <4>1. old(d) = Nothing /\ GetOr(P, hour, NoUsage) = NoUsage
        BY <1>7, <3>2 DEF GetOr
      <4> QED
        BY <4>1, NothingAddsUp
    <3> QED
      BY <3>1, <3>2
  <2> DEFINE o == old(d)
             key == Key(d, e)
  <2> HIDE DEF o, key
  <2>2. MapTo(Stats, o)
    BY <2>1 DEF o
  <2>3. /\ MapTo(Stats, AddTo(o, key, stat))
        /\ Sum(AddTo(o, key, stat)) = Plus(Sum(o), stat)
        /\ \A f \in Priced : CostBy(f, AddTo(o, key, stat)) = CostBy(f, o) + ModelCost(ModelOf(f, key), stat)
    <3>1. MapTo(Stats, AddTo(o, key, stat))
      BY <1>2, <2>2, AddToTyped
    <3>2. Sum(AddTo(o, key, stat)) = Plus(Sum(o), stat)
      BY <1>2, <2>2, SumAfterAdd
    <3>3. ASSUME NEW f \in Priced
          PROVE  CostBy(f, AddTo(o, key, stat)) = CostBy(f, o) + ModelCost(ModelOf(f, key), stat)
      BY <1>2, <2>2, CostAfterAdd
    <3> QED
      BY <3>1, <3>2, <3>3
  <2> QED
    BY <2>1, <2>3 DEF o, key
<1> HIDE DEF old, new
<1>10. /\ MapTo(Stats, R.hours) /\ DOMAIN R.hours = DOMAIN P \cup {hour}
       /\ R.hours[hour] = Plus(GetOr(P, hour, NoUsage), stat)
       /\ \A h \in DOMAIN P : h # hour => R.hours[h] = a.hours[h]
  <2>1. MapTo(Stats, P)
    BY <1>8
  <2>2. /\ MapTo(Stats, AddTo(P, hour, stat)) /\ DOMAIN AddTo(P, hour, stat) = DOMAIN P \cup {hour}
        /\ AddTo(P, hour, stat)[hour] = Plus(GetOr(P, hour, NoUsage), stat)
        /\ \A h \in DOMAIN P : h # hour => AddTo(P, hour, stat)[h] = P[h]
    <3> DEFINE m == P
    <3>1. MapTo(Stats, m)
      BY <2>1
    <3> HIDE DEF m
    <3>2. MapTo(Stats, AddTo(m, hour, stat)) /\ DOMAIN AddTo(m, hour, stat) = DOMAIN m \cup {hour}
      BY <1>2, <3>1, AddToTyped
    <3>3. AddTo(m, hour, stat)[hour] = Plus(GetOr(m, hour, NoUsage), stat)
      BY <1>2, <3>1, AddToTyped
    <3>4. ASSUME NEW h \in DOMAIN m, h # hour PROVE AddTo(m, hour, stat)[h] = m[h]
      BY <3>4 DEF AddTo, Put
    <3> QED
      BY <3>2, <3>3, <3>4 DEF m
  <2> QED
    BY <1>1, <1>6, <2>2
<1>11. ASSUME NEW d \in Dimensions
       PROVE  /\ DOMAIN R.hourly[d] = DOMAIN P \cup {hour}
              /\ R.hourly[d][hour] = new(d)
              /\ \A h \in DOMAIN P : h # hour => R.hourly[d][h] = a.hourly[d][h]
  <2>1. R.hourly[d] = [k \in DOMAIN S(d) \cup {hour} |-> IF k = hour THEN new(d) ELSE S(d)[k]]
    BY <1>1 DEF Put
  <2>2. DOMAIN S(d) = DOMAIN P /\ \A h \in DOMAIN P : S(d)[h] = a.hourly[d][h]
    BY <1>7
  <2> QED
    BY <2>1, <2>2
<1>12. /\ DOMAIN R.charged = DOMAIN a.charged \cup {hour}
       /\ R.charged[hour] = GetOr(a.charged, hour, 0) + cost
       /\ \A h \in DOMAIN a.charged : h # hour => R.charged[h] = a.charged[h]
       /\ GetOr(a.charged, hour, 0) \in Int
       /\ R.charged \in [DOMAIN R.charged -> Int]
  <2>1. GetOr(a.charged, hour, 0) \in Int
    BY DEF GetOr, AddsUp, MapTo
  <2> DEFINE v == GetOr(a.charged, hour, 0) + cost
  <2>2. v \in Int
    BY <1>2, <2>1
  <2>3. R.charged = [k \in DOMAIN a.charged \cup {hour} |-> IF k = hour THEN v ELSE a.charged[k]]
    BY <1>1 DEF Put
  <2> HIDE DEF v
  <2>4. \A k \in DOMAIN a.charged : a.charged[k] \in Int
    BY DEF AddsUp, MapTo
  <2>5. /\ DOMAIN R.charged = DOMAIN a.charged \cup {hour}
        /\ R.charged[hour] = v
        /\ \A h \in DOMAIN a.charged : h # hour => R.charged[h] = a.charged[h]
    BY <2>3
  <2>6. R.charged \in [DOMAIN a.charged \cup {hour} -> Int]
    BY <2>2, <2>3, <2>4
  <2> QED
    BY <2>1, <2>5, <2>6 DEF v
<1>13. SumFunction(R.charged) = SumFunction(a.charged) + cost
  <2> DEFINE f == a.charged
             g == R.charged
             D == DOMAIN f
  <2>1. IsFiniteSet(D) /\ \A x \in D : f[x] \in Int
    BY DEF AddsUp, MapTo
  <2>2. \A x \in D : x # hour => g[x] = f[x]
    BY <1>12
  <2>3. g[hour] = (IF hour \in D THEN f[hour] ELSE 0) + cost /\ DOMAIN g = D \cup {hour}
    BY <1>12 DEF GetOr
  <2> HIDE DEF f, g, D
  <2>4. SumFunctionOnSet(g, D \cup {hour}) = SumFunctionOnSet(f, D) + cost
    <3> DEFINE v == cost
    <3>1. v \in Int /\ g[hour] = (IF hour \in D THEN f[hour] ELSE 0) + v
      BY <1>2, <2>3
    <3> HIDE DEF v
    <3>2. SumFunctionOnSet(g, D \cup {hour}) = SumFunctionOnSet(f, D) + v
      BY <2>1, <2>2, <3>1, SumOfGrown
    <3> QED
      BY <3>2 DEF v
  <2> QED
    BY <2>3, <2>4 DEF f, g, D, SumFunction
<1>14. AddsUp(R)
  <2>1. R.totals \in Stats
    BY <1>1, <1>2, PlusTyped DEF AddsUp
  <2>2. ASSUME NEW d \in Dimensions PROVE MapTo(Stats, R.by[d]) /\ R.totals = Sum(R.by[d])
    <3> DEFINE m == a.by[d]
               key == Key(d, e)
    <3>1. MapTo(Stats, m) /\ a.totals = Sum(m) /\ R.by[d] = AddTo(m, key, stat)
      BY <1>1 DEF AddsUp
    <3> HIDE DEF m, key
    <3>2. MapTo(Stats, AddTo(m, key, stat))
      BY <1>2, <3>1, AddToTyped
    <3>3. Sum(AddTo(m, key, stat)) = Plus(Sum(m), stat)
      BY <1>2, <3>1, SumAfterAdd
    <3> QED
      BY <1>1, <3>1, <3>2, <3>3
  <2>3. ASSUME NEW d \in Priced PROVE CostBy(d, R.by[d]) = SumFunction(R.charged)
    <3> DEFINE m == a.by[d]
               key == Key(d, e)
    <3>1. MapTo(Stats, m) /\ CostBy(d, m) = SumFunction(a.charged) /\ R.by[d] = AddTo(m, key, stat)
      BY <1>1, <1>5 DEF AddsUp
    <3>2. ModelCost(ModelOf(d, key), stat) = cost
      BY <1>5
    <3> HIDE DEF m, key
    <3>3. CostBy(d, AddTo(m, key, stat)) = CostBy(d, m) + ModelCost(ModelOf(d, key), stat)
      BY <1>2, <3>1, CostAfterAdd
    <3> QED
      BY <1>13, <3>1, <3>2, <3>3
  <2>4. MapTo(Int, R.charged) /\ DOMAIN R.charged \subseteq Nat
    <3>1. IsFiniteSet(DOMAIN R.charged)
      <4>1. IsFiniteSet(DOMAIN a.charged)
        BY DEF AddsUp, MapTo
      <4>2. IsFiniteSet(DOMAIN a.charged \cup {hour})
        BY <4>1, FS_AddElement
      <4> QED
        BY <1>12, <4>2
    <3> QED
      BY <1>3, <1>12, <3>1 DEF AddsUp, MapTo
  <2>5. DOMAIN R.hours \subseteq DOMAIN R.charged
    BY <1>8, <1>10, <1>12 DEF AddsUp
  <2>6. ASSUME NEW d \in Dimensions
        PROVE  /\ Series(R.hourly[d]) /\ DOMAIN R.hourly[d] = DOMAIN R.hours
               /\ \A h \in DOMAIN R.hours : R.hours[h] = Sum(R.hourly[d][h])
    <3>1. DOMAIN R.hourly[d] = DOMAIN R.hours /\ IsFiniteSet(DOMAIN R.hourly[d])
      BY <1>10, <1>11 DEF MapTo
    <3>2. ASSUME NEW h \in DOMAIN R.hours
          PROVE  MapTo(Stats, R.hourly[d][h]) /\ R.hours[h] = Sum(R.hourly[d][h])
      <4>1. CASE h = hour
        BY <1>9, <1>10, <1>11, <4>1
      <4>2. CASE h # hour
        <5>1. h \in DOMAIN P /\ h \in DOMAIN a.hours
          BY <1>8, <1>10, <4>2
        <5>2. R.hours[h] = a.hours[h] /\ R.hourly[d][h] = a.hourly[d][h]
          BY <1>10, <1>11, <4>2, <5>1
        <5> QED
          BY <5>1, <5>2 DEF AddsUp, Series
      <4> QED
        BY <4>1, <4>2
    <3> QED
      BY <3>1, <3>2 DEF Series
  <2> QED
    BY <1>10, <2>1, <2>2, <2>3, <2>4, <2>5, <2>6 DEF AddsUp
<1>15. UpToDate(R, c)
  <2> SUFFICES ASSUME NEW h \in DOMAIN R.charged, h >= c - Retention
               PROVE  h \in DOMAIN R.hours /\ \A d \in Priced : CostBy(d, R.hourly[d][h]) = R.charged[h]
    BY DEF UpToDate
  <2>1. CASE h = hour
    <3>1. ASSUME NEW d \in Priced PROVE CostBy(d, old(d)) = GetOr(a.charged, hour, 0)
      <4>1. CASE hour \in DOMAIN a.charged
        <5>1. hour \in DOMAIN a.hours /\ CostBy(d, a.hourly[d][hour]) = a.charged[hour]
          BY <2>1, <4>1 DEF UpToDate
        <5>2. hour \in DOMAIN P
          BY <1>4, <1>8, <5>1
        <5>3. old(d) = a.hourly[d][hour]
          BY <1>5, <1>7, <5>2 DEF old, GetOr
        <5> QED
          BY <4>1, <5>1, <5>3 DEF GetOr
      <4>2. CASE hour \notin DOMAIN a.charged
        <5>1. hour \notin DOMAIN P
          BY <1>8, <4>2 DEF AddsUp
        <5>2. old(d) = Nothing
          BY <1>5, <1>7, <5>1 DEF old, GetOr
        <5> QED
          BY <4>2, <5>2, NothingAddsUp DEF GetOr
      <4> QED
        BY <4>1, <4>2
    <3>2. ASSUME NEW d \in Priced PROVE CostBy(d, R.hourly[d][hour]) = R.charged[hour]
      <4>1. R.hourly[d][hour] = new(d)
        BY <1>5, <1>11
      <4>2. CostBy(d, new(d)) = CostBy(d, old(d)) + cost
        BY <1>5, <1>9
      <4> QED
        BY <1>12, <3>1, <4>1, <4>2
    <3> QED
      BY <1>10, <2>1, <3>2
  <2>2. CASE h # hour
    <3>1. h \in DOMAIN a.charged /\ h \in Nat
      BY <1>12, <2>2 DEF AddsUp
    <3>2. h \in DOMAIN a.hours /\ \A d \in Priced : CostBy(d, a.hourly[d][h]) = a.charged[h]
      BY <3>1 DEF UpToDate
    <3>3. h >= now - Retention
      <4>1. Retention \in Int
        BY TrackerAssumption
      <4> QED
        BY <3>1, <4>1
    <3>4. h \in DOMAIN P
      BY <1>6, <3>2, <3>3
    <3> QED
      BY <1>5, <1>10, <1>11, <1>12, <2>2, <3>1, <3>2, <3>4
  <2> QED
    BY <2>1, <2>2
<1> QED
  BY <1>14, <1>15 DEF R

(* Every report of aggregates that add up and are complete since the retention does. *)
LEMMA ReportsOfWhatAddsUp ==
  ASSUME clock \in Nat, AddsUp(usage), UpToDate(usage, clock), Windows \subseteq Int
  PROVE  ReportsAddUp
<1> SUFFICES ASSUME NEW window \in Windows
             PROVE  LET report == SnapshotWindow(usage, clock, window)
                        whole == window <= 0 \/ window >= Retention
                        cutoff == IF whole THEN 0 ELSE clock - window
                        charged == Since(usage.charged, cutoff)
                    IN  /\ \A d \in Dimensions : report.totals = Sum(report.by[d])
                        /\ report.cost = SumFunction(charged)
                        /\ report.clientCost = report.cost
  BY DEF ReportsAddUp
<1> DEFINE report == SnapshotWindow(usage, clock, window)
           whole == window <= 0 \/ window >= Retention
<1>1. CASE whole
  <2>1. report = Report(usage.totals, usage.by)
    BY <1>1 DEF SnapshotWindow, Snapshot
  <2>2. Since(usage.charged, 0) = usage.charged
    <3>1. \A h \in DOMAIN usage.charged : h >= 0
      BY DEF AddsUp
    <3>2. {h \in DOMAIN usage.charged : h >= 0} = DOMAIN usage.charged
      BY <3>1
    <3>3. usage.charged = [h \in DOMAIN usage.charged |-> usage.charged[h]]
      BY DEF AddsUp, MapTo
    <3> QED
      BY <3>2, <3>3 DEF Since
  <2>3. /\ report.totals = usage.totals /\ report.by = usage.by
        /\ report.cost = CostBy("model", usage.by["model"])
        /\ report.clientCost = CostBy("client", usage.by["client"])
    BY <2>1 DEF Report
  <2>4. "model" \in Priced /\ "client" \in Priced
    BY DEF Priced
  <2> HIDE DEF report
  <2> QED
    BY <1>1, <2>2, <2>3, <2>4 DEF AddsUp, report
<1>2. CASE ~whole
  <2> DEFINE cutoff == clock - window
             hours == Since(usage.hours, cutoff)
             H == DOMAIN hours
             series(d) == Since(usage.hourly[d], cutoff)
             charged == Since(usage.charged, cutoff)
  <2>0. window \in Int /\ Retention \in Int /\ clock \in Int /\ window <= Retention
    <3>1. Retention \in Nat
      BY TrackerAssumption
    <3>2. window \in Int /\ clock \in Int
      OBVIOUS
    <3>3. ~(window <= 0 \/ window >= Retention)
      BY <1>2
    <3> HIDE DEF report, whole
    <3> QED
      BY <3>1, <3>2, <3>3
  <2>1. cutoff \in Int /\ cutoff >= clock - Retention
    <3> HIDE DEF whole
    <3> QED BY <2>0
  <2>2. report = Report(Sum(hours), [d \in Dimensions |-> SumHours(series(d))])
    BY <1>2 DEF SnapshotWindow
  <2>3. "model" \in Priced /\ "client" \in Priced /\ Priced \subseteq Dimensions
    BY DEF Priced, Dimensions
  <2>4. /\ report.totals = Sum(hours)
        /\ \A d \in Dimensions : report.by[d] = SumHours(series(d))
        /\ report.cost = CostBy("model", SumHours(series("model")))
        /\ report.clientCost = CostBy("client", SumHours(series("client")))
    BY <2>2, <2>3 DEF Report
  <2> HIDE DEF report, cutoff
  <2>5. /\ H = {h \in DOMAIN usage.hours : h >= cutoff}
        /\ hours = [h \in H |-> usage.hours[h]]
    BY DEF Since
  <2>6. ASSUME NEW d \in Dimensions
        PROVE  /\ DOMAIN series(d) = H
               /\ \A h \in H : series(d)[h] = usage.hourly[d][h] /\ usage.hours[h] = Sum(usage.hourly[d][h])
               /\ Series(series(d))
    <3>1. DOMAIN series(d) = H /\ \A h \in H : series(d)[h] = usage.hourly[d][h]
      BY DEF Since, AddsUp
    <3>2. IsFiniteSet(H)
      BY <2>5, FS_Subset DEF AddsUp, MapTo
    <3>3. \A h \in H : h \in DOMAIN usage.hours
      BY <2>5
    <3> HIDE DEF H, series
    <3> QED
      BY <3>1, <3>2, <3>3 DEF AddsUp, Series
  <2>7. ASSUME NEW d \in Dimensions
        PROVE  report.totals = Sum(report.by[d])
    <3> DEFINE s == series(d)
    <3>1. Sum(SumHours(s)) = Sum([h \in DOMAIN s |-> Sum(s[h])])
      <4>1. Series(s)
        BY <2>6
      <4> HIDE DEF s
      <4> QED
        BY <4>1, HoursAddUp
    <3>2. [h \in DOMAIN s |-> Sum(s[h])] = hours
      <4>1. DOMAIN s = H /\ \A h \in H : Sum(s[h]) = usage.hours[h]
        BY <2>6
      <4> HIDE DEF s, hours, H
      <4> QED
        BY <2>5, <4>1
    <3> HIDE DEF hours, series
    <3> QED
      BY <2>4, <3>1, <3>2
  <2>8. /\ DOMAIN charged = H
        /\ \A h \in H : charged[h] = usage.charged[h]
        /\ \A d \in Priced, h \in H : CostBy(d, usage.hourly[d][h]) = usage.charged[h]
        /\ charged = [h \in H |-> charged[h]]
    <3>1. ASSUME NEW h \in DOMAIN usage.charged, h >= cutoff
          PROVE  h \in DOMAIN usage.hours /\ \A d \in Priced : CostBy(d, usage.hourly[d][h]) = usage.charged[h]
      <4>1. h \in Nat /\ Retention \in Int
        BY TrackerAssumption DEF AddsUp
      <4>2. h >= clock - Retention
        BY <2>1, <3>1, <4>1
      <4> QED
        BY <4>2 DEF UpToDate
    <3>2. {h \in DOMAIN usage.charged : h >= cutoff} = H
      BY <2>5, <3>1 DEF AddsUp
    <3>3. charged = [h \in H |-> usage.charged[h]]
      BY <3>2 DEF Since
    <3>4. \A h \in H : h \in DOMAIN usage.charged /\ h >= cutoff
      BY <3>2
    <3> HIDE DEF charged, H
    <3> QED
      BY <3>1, <3>3, <3>4
  <2>9. ASSUME NEW d \in Priced
        PROVE  CostBy(d, SumHours(series(d))) = SumFunction(charged)
    <3> DEFINE s == series(d)
    <3>1. Series(s) /\ DOMAIN s = H /\ \A h \in H : s[h] = usage.hourly[d][h]
      BY <2>3, <2>6
    <3> HIDE DEF s
    <3>2. CostBy(d, SumHours(s)) = SumFunctionOnSet([h \in DOMAIN s |-> CostBy(d, s[h])], DOMAIN s)
      BY <3>1, HoursCostAddUp
    <3>3. [h \in H |-> CostBy(d, s[h])] = charged
      <4>1. \A h \in H : CostBy(d, s[h]) = charged[h]
        BY <2>8, <3>1
      <4>2. charged = [h \in H |-> charged[h]]
        BY <2>8
      <4> HIDE DEF H, charged
      <4> QED
        BY <4>1, <4>2
    <3> HIDE DEF charged, H
    <3>4. CostBy(d, SumHours(s)) = SumFunction(charged)
      BY <2>8, <3>1, <3>2, <3>3 DEF SumFunction
    <3> QED
      BY <3>4 DEF s
  <2>10. /\ \A d \in Dimensions : report.totals = Sum(report.by[d])
         /\ report.cost = SumFunction(charged)
         /\ report.clientCost = report.cost
    <3> HIDE DEF charged, series, hours
    <3> QED
      BY <2>3, <2>4, <2>7, <2>9
  <2> QED
    BY <1>2, <2>10 DEF report, cutoff
<1> QED
  BY <1>1, <1>2

-----------------------------------------------------------------------------
\* What may be answered is of a call there is; what is to be recorded was stamped before.
RecordedOK(r) ==
    /\ \A a \in req[r].call.answers : a \in Answer /\ a.read + a.write <= a.input
    /\ At(r, "recording") =>
          /\ EventOK(req[r].event) /\ req[r].event.client # None
          /\ req[r].stamp \in Nat /\ req[r].stamp <= clock

SumsInv ==
    /\ clock \in Nat
    /\ \A a \in Around : AddsUp(a) /\ UpToDate(a, clock)
    /\ \A r \in Requests : RecordedOK(r)

LEMMA StaysUpToDate ==
    ASSUME NEW a, AddsUp(a), NEW c \in Nat, NEW d \in Nat, c <= d, UpToDate(a, c)
    PROVE  UpToDate(a, d)
  <1> SUFFICES ASSUME NEW h \in DOMAIN a.charged, h >= d - Retention PROVE h >= c - Retention
    BY DEF UpToDate
  <1>1. h \in Nat /\ Retention \in Nat
    BY TrackerAssumption DEF AddsUp
  <1> QED BY <1>1

LEMMA InitSums == Init => SumsInv
  <1> SUFFICES ASSUME Init PROVE SumsInv OBVIOUS
  <1>1. clock \in Nat
    BY InitRest, LedgerAssumption DEF RestInv
  <1>2. \A r \in Requests : RecordedOK(r)
    BY DEF Init, RecordedOK, NoRequest, Idle, At
  <1> QED BY <1>1, <1>2, InitAround, NothingAddedUp DEF SumsInv

\* What Check and Serve leave to be recorded.
LEMMA NoEventOK ==
    ASSUME NEW model, NEW client
    PROVE  LET e == [NoEvent EXCEPT !.model = model, !.error = TRUE, !.client = client]
           IN  EventOK(e) /\ e.client = client
  BY DEF NoEvent, EventOK

LEMMA EventOfOK ==
    ASSUME NEW r, NEW i, NEW a \in Answer, a.read + a.write <= a.input
    PROVE  EventOK(EventOf(r, i, a)) /\ EventOf(r, i, a).client = ClientOf[r]
  <1> DEFINE e == EventOf(r, i, a)
             n(f) == IF Handler(r).tokens THEN a[f] ELSE 0
  <1>1. DOMAIN NoEvent = {"credential", "model", "client", "error", "input", "output", "read", "write",
                          "reported"}
    BY DEF NoEvent
  <1>2. e.client = ClientOf[r]
    BY <1>1 DEF EventOf
  <1>3. /\ e.input = n("input") /\ e.output = n("output") /\ e.read = n("read") /\ e.write = n("write")
        /\ e.reported = a["reported"]
    BY <1>1 DEF EventOf
  <1>4. a.input \in Nat /\ a.output \in Nat /\ a.read \in Nat /\ a.write \in Nat /\ a.reported \in Nat
    BY DEF Answer
  <1> HIDE DEF e
  <1>5. EventOK(e)
    BY <1>3, <1>4 DEF EventOK
  <1> QED BY <1>2, <1>5 DEF e

LEMMA OtherRecorded ==
    ASSUME SumsInv, clock' = clock, NEW r \in Requests, req'[r] = req[r]
    PROVE  RecordedOK(r)'
  BY DEF SumsInv, RecordedOK, At

LEMMA RequestsKeepRecorded ==
    ASSUME SumsInv, LogInv, NEW r \in Requests, RequestStep(r)
    PROVE  \A s \in Requests : RecordedOK(s)'
  <1> USE DEF At
  <1>1. RecordedOK(r) /\ clock \in Nat /\ clock' = clock
    BY DEF SumsInv, RequestStep, Arrive, Refuse, Check, DropBlocked, Serve, RecordUsage, LogRequest, Close, Quiet
  <1>2. req = [s \in Requests |-> req[s]] /\ ProgressTyped(req[r])
    BY DEF LogInv, ProgressOK
  <1>3. ASSUME NEW q, req' = [req EXCEPT ![r] = q],
               \A a \in q.call.answers : a \in Answer /\ a.read + a.write <= a.input,
               q.at = "recording" => /\ EventOK(q.event) /\ q.event.client # None
                                     /\ q.stamp \in Nat /\ q.stamp <= clock
        PROVE  \A s \in Requests : RecordedOK(s)'
    <2>1. req'[r] = q /\ \A s \in Requests : s # r => req'[s] = req[s]
      BY <1>2, <1>3
    <2>2. RecordedOK(r)'
      BY <1>1, <1>3, <2>1 DEF RecordedOK
    <2> QED BY <1>1, <2>1, <2>2, OtherRecorded
  <1> DEFINE Possible(answers) == \A a \in answers : a \in Answer /\ a.read + a.write <= a.input
             Stamped(q) == /\ EventOK(q.event) /\ q.event.client # None
                           /\ q.stamp \in Nat /\ q.stamp <= clock
  <1>4. Possible(req[r].call.answers) /\ DOMAIN req[r] = DOMAIN NoRequest
    BY <1>1, <1>2 DEF RecordedOK, ProgressTyped
  <1>5. \A e : e.client = ClientOf[r] => e.client # None
    BY LedgerAssumption
  <1>6. CASE Arrive(r)
    <2>1. PICK call \in CallsOf[r] :
            LET models == IF call.models = <<>> THEN <<call.handler.own>> ELSE call.models
                names  == IF call.handler.checks THEN ToSet(models) ELSE {}
            IN  req' = [req EXCEPT ![r].at = "arrived", ![r].call = call, ![r].targets = models,
                                   ![r].sure = SurelyBlocked(answered, names)]
      BY <1>6 DEF Arrive
    <2> DEFINE models == IF call.models = <<>> THEN <<call.handler.own>> ELSE call.models
               names == IF call.handler.checks THEN ToSet(models) ELSE {}
               sure == SurelyBlocked(answered, names)
               q == [req[r] EXCEPT !.at = "arrived", !.call = call, !.targets = models, !.sure = sure]
    <2>2. req' = [req EXCEPT ![r] = q]
      BY <2>1
    <2> HIDE DEF sure, models
    <2>3. q.at = "arrived" /\ q.call = call
      BY <1>4 DEF NoRequest
    <2>4. Possible(call.answers)
      BY LedgerAssumption DEF Calls
    <2> HIDE DEF q
    <2> QED BY <1>3, <2>2, <2>3, <2>4
  <1>7. CASE Refuse(r)
    <2> DEFINE bad == 400
               q == [req[r] EXCEPT !.at = "closing", !.status = bad]
    <2>1. req' = [req EXCEPT ![r].at = "closing", ![r].status = bad]
      BY <1>7, Zenon DEF Refuse
    <2> HIDE DEF bad
    <2>2. req' = [req EXCEPT ![r] = q]
      BY <2>1
    <2>3. q.at = "closing" /\ q.call = req[r].call
      BY <1>4 DEF NoRequest
    <2> HIDE DEF q
    <2> QED BY <1>3, <1>4, <2>2, <2>3
  <1>8. CASE Check(r)
    <2> DEFINE name == req[r].targets[1]
               refused == Handler(r).checks /\ Blocked(name)
    <2>1. CASE refused
      <3> DEFINE event == [NoEvent EXCEPT !.model = CanonicalOf(name), !.error = TRUE,
                                          !.client = ClientOf[r]]
                 forbidden == 403
                 q == [req[r] EXCEPT !.at = "recording", !.status = forbidden, !.stamp = clock,
                                     !.event = event]
      <3>1. EventOK(event) /\ event.client = ClientOf[r]
        BY NoEventOK
      <3>2. req' = [req EXCEPT ![r].at = "recording", ![r].status = forbidden,
                               ![r].stamp = clock, ![r].event = event]
        BY <1>8, <2>1, Zenon DEF Check
      <3> HIDE DEF event, forbidden
      <3>3. req' = [req EXCEPT ![r] = q]
        BY <3>2
      <3>4. q.call = req[r].call /\ q.event = event /\ q.stamp = clock
        BY <1>4 DEF NoRequest
      <3> HIDE DEF q
      <3>5. Stamped(q)
        BY <1>1, <1>5, <3>1, <3>4
      <3> QED BY <1>3, <1>4, <3>3, <3>4, <3>5
    <2>2. CASE ~refused
      <3> DEFINE q == [req[r] EXCEPT !.at = "admitted"]
      <3>1. req' = [req EXCEPT ![r] = q]
        BY <1>8, <2>2 DEF Check
      <3>2. q.at = "admitted" /\ q.call = req[r].call
        BY <1>4 DEF NoRequest
      <3> HIDE DEF q
      <3> QED BY <1>3, <1>4, <3>1, <3>2
    <2> QED BY <2>1, <2>2
  <1>9. CASE DropBlocked(r)
    <2>1. PICK open : req' = [req EXCEPT ![r].at = "serving", ![r].open = open]
      BY <1>9 DEF DropBlocked
    <2> DEFINE q == [req[r] EXCEPT !.at = "serving", !.open = open]
    <2>2. req' = [req EXCEPT ![r] = q]
      BY <2>1
    <2>3. q.at = "serving" /\ q.call = req[r].call
      BY <1>4 DEF NoRequest
    <2> HIDE DEF q
    <2> QED BY <1>3, <1>4, <2>2, <2>3
  <1>10. CASE Serve(r)
    <2>1. PICK i \in req[r].open, a \in req[r].call.answers :
            req' = [req EXCEPT ![r].at = IF Counts(r, a) THEN "recording" ELSE "closing",
                               ![r].asked = req[r].targets[i], ![r].status = a.status,
                               ![r].stamp = clock,
                               ![r].event = IF Counts(r, a) THEN EventOf(r, i, a) ELSE NoEvent]
      BY <1>10 DEF Serve
    <2> DEFINE at == IF Counts(r, a) THEN "recording" ELSE "closing"
               event == IF Counts(r, a) THEN EventOf(r, i, a) ELSE NoEvent
               q == [req[r] EXCEPT !.at = at, !.asked = req[r].targets[i], !.status = a.status,
                                   !.stamp = clock, !.event = event]
    <2>2. a \in Answer /\ a.read + a.write <= a.input
      BY <1>4
    <2>3. at = "recording" => EventOK(event) /\ event.client = ClientOf[r]
      BY <2>2, EventOfOK
    <2> HIDE DEF at, event
    <2>4. req' = [req EXCEPT ![r] = q]
      BY <2>1 DEF at, event
    <2>5. q.call = req[r].call /\ q.event = event /\ q.stamp = clock /\ q.at = at
      BY <1>4 DEF NoRequest
    <2> HIDE DEF q
    <2>6. q.at = "recording" => Stamped(q)
      BY <1>1, <1>5, <2>3, <2>5
    <2> QED BY <1>3, <1>4, <2>4, <2>5, <2>6
  <1>11. CASE RecordUsage(r)
    <2> DEFINE q == [req[r] EXCEPT !.at = "logging"]
    <2>1. req' = [req EXCEPT ![r] = q]
      BY <1>11 DEF RecordUsage
    <2>2. q.at = "logging" /\ q.call = req[r].call
      BY <1>4 DEF NoRequest
    <2> HIDE DEF q
    <2> QED BY <1>3, <1>4, <2>1, <2>2
  <1>12. CASE LogRequest(r) \/ Close(r)
    <2>1. PICK q : /\ req' = [req EXCEPT ![r] = q]
                   /\ q.at # "recording" /\ q.call = Idle
      <3>1. CASE LogRequest(r)
        <4> DEFINE num == log'.seq
                   q == [Ended(r) EXCEPT !.at = "closing", !.seq = num]
        <4>1. req' = [req EXCEPT ![r] = q]
          BY <3>1 DEF LogRequest
        <4>2. q.at = "closing" /\ q.call = Idle
          BY DEF Ended, NoRequest
        <4> HIDE DEF q
        <4> QED BY <4>1, <4>2
      <3>2. CASE Close(r)
        <4> DEFINE num == IF Ended(r).seq = 0 THEN log'.seq ELSE Ended(r).seq
                   q == [Ended(r) EXCEPT !.at = "done", !.seq = num]
        <4>1. req' = [req EXCEPT ![r] = q]
          BY <3>2 DEF Close, Ended, NoRequest
        <4>2. q.at = "done" /\ q.call = Idle
          BY DEF Ended, NoRequest
        <4> HIDE DEF q
        <4> QED BY <4>1, <4>2
      <3> QED BY <1>12, <3>1, <3>2
    <2>2. Possible(q.call.answers)
      BY <2>1 DEF Idle
    <2> QED BY <1>3, <2>1, <2>2
  <1> QED
    BY <1>6, <1>7, <1>8, <1>9, <1>10, <1>11, <1>12 DEF RequestStep

LEMMA StepKeepsSums == FileInv /\ LogInv /\ RestInv /\ SumsInv /\ [Next]_ledgerVars => SumsInv'
  <1> SUFFICES ASSUME FileInv, LogInv, RestInv, SumsInv, [Next]_ledgerVars PROVE SumsInv' OBVIOUS
  <1> USE DEF tracker
  <1>1. clock' \in Nat /\ clock <= clock'
    <2>1. clock' = clock \/ Tick
      <3>1. ASSUME NEW r \in Requests, RequestStep(r) PROVE clock' = clock
        BY <3>1 DEF RequestStep, Arrive, Refuse, Check, DropBlocked, Serve, RecordUsage, LogRequest, Close,
                    Quiet
      <3>2. CASE OperatorStep
        BY <3>2 DEF OperatorStep, AddKnown, StartAdd, StartRemove, WriteMasks, WriteMasksFails, Adopt,
                    EditQuiet
      <3>3. ASSUME NEW s \in Savers, SaveStep(s) PROVE clock' = clock
        BY <3>3 DEF SaveStep, Open, Write, SaveFails, Rename, SaveQuiet
      <3>4. CASE TickerSaves \/ Signal \/ Stop \/ Restart \/ UNCHANGED ledgerVars
        BY <3>4 DEF TickerSaves, Signal, Stop, Restart, SaveQuiet, ledgerVars
      <3> QED
        BY <3>1, <3>2, <3>3, <3>4 DEF Next
    <2>2. CASE clock' = clock
      BY <2>2 DEF SumsInv
    <2>3. CASE Tick
      BY <2>3, LedgerAssumption DEF Tick, SumsInv
    <2> QED BY <2>1, <2>2, <2>3
  <1>2. ASSUME NEW a, AddsUp(a) /\ UpToDate(a, clock) PROVE AddsUp(a) /\ UpToDate(a, clock')
    BY <1>1, <1>2, StaysUpToDate DEF SumsInv
  <1>3. \A a \in Around' : AddsUp(a) /\ UpToDate(a, clock')
    <2>1. \A a \in Around \cup {NoAggregates} : AddsUp(a) /\ UpToDate(a, clock)
      BY NothingAddedUp DEF SumsInv
    <2>2. CASE Around' \subseteq Around \cup {NoAggregates}
      BY <1>2, <2>1, <2>2
    <2>3. ASSUME NEW r \in Requests, RecordUsage(r),
                 Around' \subseteq Around \cup {Record(usage, req[r].event, req[r].stamp)}
          PROVE  \A a \in Around' : AddsUp(a) /\ UpToDate(a, clock')
      <3>1. PICK e, now : e = req[r].event /\ now = req[r].stamp
        OBVIOUS
      <3>2. EventOK(e) /\ e.client # <<>> /\ now \in Nat /\ now <= clock /\ clock \in Nat
        BY <2>3, <3>1 DEF SumsInv, RecordedOK, RecordUsage, None
      <3>3. AddsUp(usage) /\ UpToDate(usage, clock)
        BY DEF SumsInv, Around
      <3>4. AddsUp(Record(usage, e, now)) /\ UpToDate(Record(usage, e, now), clock)
        BY <3>2, <3>3, RecordAddsUp
      <3> QED BY <1>2, <2>1, <2>3, <3>1, <3>4
    <2> QED BY <2>2, <2>3, OnlyRecordMakes DEF RestInv
  <1>4. \A r \in Requests : RecordedOK(r)'
    <2>1. ASSUME NEW r \in Requests, RequestStep(r) PROVE \A s \in Requests : RecordedOK(s)'
      BY <2>1, RequestsKeepRecorded
    <2>2. ASSUME UNCHANGED req PROVE \A r \in Requests : RecordedOK(r)'
      BY <1>1, <2>2 DEF SumsInv, RecordedOK, At
    <2>3. CASE OperatorStep /\ ~StartRemove
      BY <2>2, <2>3 DEF OperatorStep, AddKnown, StartAdd, WriteMasks, WriteMasksFails, Adopt
    <2>4. CASE StartRemove
      <3>1. clock' = clock
        BY <2>4 DEF StartRemove, EditQuiet
      <3>2. ASSUME NEW r \in Requests
            PROVE  /\ req'[r].at = req[r].at /\ req'[r].call = req[r].call
                   /\ req'[r].event = req[r].event /\ req'[r].stamp = req[r].stamp
        <4>1. PICK sure : req'[r] = [req[r] EXCEPT !.sure = sure]
          BY <2>4 DEF StartRemove
        <4>2. DOMAIN req[r] = DOMAIN NoRequest
          BY DEF LogInv, ProgressOK, ProgressTyped
        <4> QED BY <4>1, <4>2 DEF NoRequest
      <3> QED BY <3>1, <3>2 DEF SumsInv, RecordedOK, At
    <2>5. CASE TickerSaves \/ Signal
      BY <2>2, <2>5 DEF TickerSaves, Signal, SaveQuiet
    <2>6. ASSUME NEW s \in Savers, SaveStep(s) PROVE UNCHANGED req
      BY <2>6 DEF SaveStep, Open, Write, SaveFails, Rename, SaveQuiet
    <2>7. CASE Tick \/ Restart \/ UNCHANGED ledgerVars
      BY <2>2, <2>7 DEF Tick, Restart, ledgerVars
    <2>8. CASE Stop
      <3>1. ASSUME NEW r \in Requests PROVE req'[r].at # "recording" /\ req'[r].call.answers = {}
        BY <2>8 DEF Stop, NoRequest, Idle, At
      <3> QED BY <3>1 DEF RecordedOK, At
    <2> QED BY <2>1, <2>2, <2>3, <2>4, <2>5, <2>6, <2>7, <2>8 DEF Next
  <1> QED BY <1>1, <1>3, <1>4 DEF SumsInv

(***************************************************************************)
(* Every report adds up, for every window, price list, order of requests   *)
(* and point at which the process dies: its totals are those of its        *)
(* credentials, of its models and of its clients, and its costs what was   *)
(* charged to the keys in that window (Record, pruneBuckets,               *)
(* SnapshotWindow, clientReportFromModels).                                *)
(***************************************************************************)
THEOREM EveryReportAddsUp == Spec => []ReportsAddUp
  <1>1. SumsInv => ReportsAddUp
    <2>1. SumsInv => clock \in Nat /\ AddsUp(usage) /\ UpToDate(usage, clock)
      BY DEF SumsInv, Around
    <2> QED BY <2>1, ReportsOfWhatAddsUp, LedgerAssumption
  <1>2. MasksInv => ListInv
    BY DEF MasksInv
  <1> QED
    BY <1>1, <1>2, InitMasks, InitFile, InitLog, InitRest, InitSums, StepKeepsMasks, StepKeepsFile,
       StepKeepsLog, StepKeepsRest, StepKeepsSums, PTL DEF Spec

-----------------------------------------------------------------------------
(* Of the naturals in a set there is a least. *)
LEMMA LeastOf ==
  ASSUME NEW B \in SUBSET Nat, B # {}
  PROVE  \E n \in B : \A m \in B : n <= m
<1>1. PICK b \in B : TRUE
  OBVIOUS
<1> DEFINE D == 0..b
           Starts == {S \in SUBSET D : \E m \in B : S = 0..m}
<1>2. IsFiniteSet(D) /\ D \in Starts
  BY FS_Interval
<1> HIDE DEF D
<1>3. Starts \in SUBSET SUBSET D
  OBVIOUS
<1>4. PICK S \in Starts : \A T \in Starts : T \subseteq S => T = S
  <2> HIDE DEF Starts
  <2> QED
    BY <1>2, <1>3, SmallestPart
<1>5. PICK n \in B : S = 0..n
  OBVIOUS
<1>6. ASSUME NEW m \in B, m < n PROVE FALSE
  <2>1. 0..m \subseteq S /\ n \in S /\ n \notin 0..m
    BY <1>5, <1>6
  <2>2. 0..m \in Starts /\ 0..m # S
    BY <2>1
  <2> QED
    BY <1>4, <2>1, <2>2
<1> QED
  BY <1>6

-----------------------------------------------------------------------------
(* A part occurs where the name has its pieces. *)
Fits(part, s, n) == n \in Nat /\ n + Len(part) <= Len(s) /\ \A j \in 1..Len(part) : s[n + j] = part[j]

LEMMA SubSeqIs ==
  ASSUME NEW S, NEW s \in Seq(S), NEW part \in Seq(S), NEW n \in Nat, n + Len(part) <= Len(s)
  PROVE  SubSeq(s, n + 1, n + Len(part)) = part <=> \A j \in 1..Len(part) : s[n + j] = part[j]
<1> DEFINE k == Len(part)
           a == n + 1
           b == n + k
           sub == SubSeq(s, a, b)
<1>1. k \in Nat /\ a \in Int /\ b \in Int /\ DOMAIN part = 1..k /\ part = [j \in 1..k |-> part[j]]
  OBVIOUS
<1>2. \A i \in a..b : s[i] \in S
  BY <1>1
<1>3. IF a <= b THEN b - a + 1 = k ELSE k = 0 /\ b - a + 1 = 0
  BY <1>1
<1>4. \A j \in 1..k : a + j - 1 = n + j
  BY <1>1
<1> HIDE DEF k, a, b
<1>5. sub \in Seq(S) /\ Len(sub) = (IF a <= b THEN b - a + 1 ELSE 0) /\ \A i \in 1..(b - a + 1) : sub[i] = s[a + i - 1]
  <2>1. a \in Int /\ b \in Int /\ \A i \in a..b : s[i] \in S
    BY <1>1, <1>2
  <2> QED
    BY ONLY <2>1, SubSeqProperties
<1> HIDE DEF sub
<1>6. Len(sub) = k /\ DOMAIN sub = 1..k /\ \A j \in 1..k : sub[j] = s[n + j]
  <2>1. Len(sub) = k /\ DOMAIN sub = 1..k
    BY <1>1, <1>3, <1>5
  <2>2. \A j \in 1..k : sub[j] = s[n + j]
    BY <1>1, <1>3, <1>4, <1>5
  <2> QED
    BY <2>1, <2>2
<1>7. sub = [j \in 1..k |-> sub[j]]
  BY <1>5, <1>6
<1>8. sub = part <=> \A j \in 1..k : s[n + j] = part[j]
  BY <1>1, <1>6, <1>7
<1> QED
  BY <1>8 DEF sub, a, b, k

LEMMA OccursWhere ==
  ASSUME NEW S, NEW s \in Seq(S), NEW part \in Seq(S), NEW n
  PROVE  n \in Occurrences(part, s) <=> Fits(part, s, n)
<1>1. n \in 0..(Len(s) - Len(part)) <=> n \in Nat /\ n + Len(part) <= Len(s)
  OBVIOUS
<1>2. ASSUME n \in Nat, n + Len(part) <= Len(s)
      PROVE  SubSeq(s, n + 1, n + Len(part)) = part <=> \A j \in 1..Len(part) : s[n + j] = part[j]
  BY <1>2, SubSeqIs
<1> QED
  BY <1>1, <1>2 DEF Occurrences, Fits

LEMMA PrefixFits ==
  ASSUME NEW S, NEW s \in Seq(S), NEW part \in Seq(S)
  PROVE  IsPrefix(part, s) <=> Fits(part, s, 0)
<1>1. Len(part) \in Nat /\ Len(s) \in Nat
  OBVIOUS
<1>2. SubSeq(part, 1, Len(part)) = part
  OBVIOUS
<1>3. ASSUME Len(part) <= Len(s)
      PROVE  SubSeq(s, 1, Len(part)) = part <=> \A j \in 1..Len(part) : s[0 + j] = part[j]
  <2> DEFINE n == 0
             a == n + 1
             b == n + Len(part)
  <2>1. n \in Nat /\ n + Len(part) <= Len(s) /\ a = 1 /\ b = Len(part)
    BY <1>1, <1>3
  <2> HIDE DEF n
  <2>2. SubSeq(s, a, b) = part <=> \A j \in 1..Len(part) : s[n + j] = part[j]
    BY <2>1, SubSeqIs
  <2> QED
    BY <2>1, <2>2 DEF n
<1> QED
  BY <1>1, <1>2, <1>3 DEF IsPrefix, Fits

LEMMA ReverseIs ==
  ASSUME NEW S, NEW s \in Seq(S)
  PROVE  /\ Reverse(s) \in Seq(S) /\ Len(Reverse(s)) = Len(s)
         /\ \A i \in 1..Len(s) : Reverse(s)[i] = s[(Len(s) - i) + 1]
<1>1. Len(s) \in Nat /\ \A i \in 1..Len(s) : (Len(s) - i) + 1 \in 1..Len(s)
  OBVIOUS
<1> QED
  BY <1>1 DEF Reverse

LEMMA SuffixFits ==
  ASSUME NEW S, NEW s \in Seq(S), NEW part \in Seq(S)
  PROVE  IsSuffix(part, s) <=> Fits(part, s, Len(s) - Len(part))
<1> DEFINE p == Len(part)
           m == Len(s)
           rp == Reverse(part)
           rs == Reverse(s)
<1>1. p \in Nat /\ m \in Nat
  OBVIOUS
<1>2. /\ rp \in Seq(S) /\ Len(rp) = p /\ \A i \in 1..p : rp[i] = part[(p - i) + 1]
      /\ rs \in Seq(S) /\ Len(rs) = m /\ \A i \in 1..m : rs[i] = s[(m - i) + 1]
  BY ReverseIs
<1> HIDE DEF rp, rs
<1>3. IsSuffix(part, s) <=> Fits(rp, rs, 0)
  BY <1>2, PrefixFits DEF IsSuffix, rp, rs
<1>4. Fits(rp, rs, 0) <=> p <= m /\ \A j \in 1..p : rs[j] = rp[j]
  BY <1>1, <1>2 DEF Fits
<1>5. Fits(part, s, m - p) <=> p <= m /\ \A j \in 1..p : s[(m - p) + j] = part[j]
  BY <1>1 DEF Fits
<1> HIDE DEF p, m
<1>6. SUFFICES ASSUME p <= m
               PROVE  (\A j \in 1..p : rs[j] = rp[j]) <=> (\A j \in 1..p : s[(m - p) + j] = part[j])
  BY <1>3, <1>4, <1>5 DEF p, m
<1>7. ASSUME \A j \in 1..p : rs[j] = rp[j], NEW j \in 1..p PROVE s[(m - p) + j] = part[j]
  <2> DEFINE i == (p - j) + 1
  <2>1. i \in 1..p /\ i \in 1..m /\ (p - i) + 1 = j /\ (m - i) + 1 = (m - p) + j
    BY <1>1, <1>6
  <2> HIDE DEF i
  <2>2. rs[i] = rp[i] /\ rp[i] = part[(p - i) + 1] /\ rs[i] = s[(m - i) + 1]
    BY <1>2, <1>7, <2>1
  <2> QED
    BY <2>1, <2>2
<1>8. ASSUME \A j \in 1..p : s[(m - p) + j] = part[j], NEW i \in 1..p PROVE rs[i] = rp[i]
  <2> DEFINE j == (p - i) + 1
  <2>1. j \in 1..p /\ i \in 1..m /\ (m - i) + 1 = (m - p) + j
    BY <1>1, <1>6
  <2>2. rp[i] = part[j] /\ rs[i] = s[(m - i) + 1]
    BY <1>2, <2>1
  <2> HIDE DEF j
  <2>3. s[(m - p) + j] = part[j]
    BY <1>8, <2>1
  <2> QED
    BY <2>1, <2>2, <2>3
<1> QED
  BY <1>7, <1>8

(* What is left of a name after some of its pieces. *)
LEMMA RestIs ==
  ASSUME NEW S, NEW s \in Seq(S), NEW p \in 0..Len(s)
  PROVE  /\ Rest(s, p) \in Seq(S) /\ Len(Rest(s, p)) = Len(s) - p
         /\ \A i \in 1..(Len(s) - p) : Rest(s, p)[i] = s[p + i]
<1> DEFINE m == Len(s)
           a == p + 1
           sub == SubSeq(s, a, m)
<1>1. m \in Nat /\ p \in Nat /\ a \in Int /\ m \in Int /\ m - a + 1 = m - p /\ (a <= m \/ (m - p = 0))
  OBVIOUS
<1>2. \A i \in a..m : s[i] \in S
  OBVIOUS
<1>3. \A i \in 1..(m - p) : a + i - 1 = p + i
  OBVIOUS
<1> HIDE DEF a, m
<1>4. sub \in Seq(S) /\ Len(sub) = (IF a <= m THEN m - a + 1 ELSE 0) /\ \A i \in 1..(m - a + 1) : sub[i] = s[a + i - 1]
  BY <1>1, <1>2, SubSeqProperties
<1>5. Rest(s, p) = sub
  BY DEF Rest, a, m
<1> HIDE DEF sub
<1>6. Len(sub) = m - p /\ \A i \in 1..(m - p) : sub[i] = s[p + i]
  <2>1. a > m => ~(a <= m)
    BY <1>1
  <2>2. Len(sub) = m - p
    BY <1>1, <1>4
  <2> QED
    BY <1>1, <1>3, <1>4, <2>2
<1> QED
  BY <1>4, <1>5, <1>6 DEF m

LEMMA FitsInRest ==
  ASSUME NEW S, NEW s \in Seq(S), NEW part \in Seq(S), NEW p \in 0..Len(s), NEW n \in Nat
  PROVE  Fits(part, Rest(s, p), n) <=> Fits(part, s, p + n)
<1> DEFINE r == Rest(s, p)
           k == Len(part)
           m == Len(s)
<1>1. r \in Seq(S) /\ Len(r) = m - p /\ \A i \in 1..(m - p) : r[i] = s[p + i]
  BY RestIs
<1>2. k \in Nat /\ m \in Nat /\ p \in Nat
  OBVIOUS
<1> HIDE DEF r, m, k
<1>3. n + k <= m - p <=> (p + n) + k <= m
  BY <1>2
<1>4. ASSUME n + k <= m - p, NEW j \in 1..k PROVE r[n + j] = s[(p + n) + j]
  <2> DEFINE i == n + j
  <2>1. i \in 1..(m - p) /\ p + i = (p + n) + j
    BY <1>2, <1>4
  <2> HIDE DEF i
  <2>2. r[i] = s[p + i]
    BY <1>1, <2>1
  <2>3. r[i] = s[(p + n) + j]
    BY <2>1, <2>2
  <2> QED
    BY <2>3 DEF i
<1>5. p + n \in Nat
  BY <1>2
<1> QED
  BY <1>1, <1>3, <1>4, <1>5 DEF Fits, r, m, k

LEMMA RestOfRest ==
  ASSUME NEW S, NEW s \in Seq(S), NEW p \in 0..Len(s), NEW n \in Nat, p + n <= Len(s)
  PROVE  Rest(Rest(s, p), n) = Rest(s, p + n)
<1> DEFINE r == Rest(s, p)
           m == Len(s)
           q == p + n
           x == Rest(r, n)
           y == Rest(s, q)
<1>1. m \in Nat /\ p \in Nat /\ q \in 0..m /\ n \in 0..(m - p) /\ (m - p) - n = m - q
  OBVIOUS
<1>2. r \in Seq(S) /\ Len(r) = m - p /\ \A i \in 1..(m - p) : r[i] = s[p + i]
  BY RestIs
<1> HIDE DEF r, q
<1>3. y \in Seq(S) /\ Len(y) = m - q /\ \A i \in 1..(m - q) : y[i] = s[q + i]
  BY <1>1, RestIs
<1> HIDE DEF m
<1>4. x \in Seq(S) /\ Len(x) = m - q /\ \A i \in 1..(m - q) : x[i] = r[n + i]
  <2>1. n \in 0..Len(r) /\ Len(r) - n = m - q
    BY <1>1, <1>2
  <2>2. x \in Seq(S) /\ Len(x) = Len(r) - n /\ \A i \in 1..(Len(r) - n) : x[i] = r[n + i]
    BY <1>2, <2>1, RestIs
  <2> QED
    BY <2>1, <2>2
<1> HIDE DEF x, y
<1>5. ASSUME NEW i \in 1..(m - q) PROVE x[i] = y[i]
  <2> DEFINE j == n + i
  <2>1. j \in 1..(m - p) /\ p + j = q + i
    BY <1>1 DEF q
  <2> HIDE DEF j
  <2>2. r[j] = s[p + j]
    BY <1>2, <2>1
  <2>3. x[i] = r[j]
    BY <1>4 DEF j
  <2> QED
    BY <1>3, <2>1, <2>2, <2>3
<1>6. x = y
  BY <1>1, <1>3, <1>4, <1>5
<1> QED
  BY <1>6 DEF x, y, r, q

-----------------------------------------------------------------------------
(* Where a mask may have got to in a name once i of its parts are placed. *)
Placed(parts, name, at, i) ==
    /\ at \in [1..i -> 0..Len(name)] /\ at[1] = 0
    /\ \A j \in 1..i : Fits(parts[j], name, at[j])
    /\ \A j \in 1..(i - 1) : at[j] + Len(parts[j]) <= at[j + 1]
Reaches(parts, name, i, p) == \E at : Placed(parts, name, at, i) /\ p = at[i] + Len(parts[i])

LEMMA ReachFirst ==
  ASSUME NEW S, NEW name \in Seq(S), NEW parts \in Seq(Seq(S)), Len(parts) # 0, NEW p
  PROVE  Reaches(parts, name, 1, p) <=> Fits(parts[1], name, 0) /\ p = Len(parts[1])
<1>1. Len(name) \in Nat /\ parts[1] \in Seq(S) /\ Len(parts[1]) \in Nat
  OBVIOUS
<1>2. ASSUME Reaches(parts, name, 1, p) PROVE Fits(parts[1], name, 0) /\ p = Len(parts[1])
  <2>1. PICK at : Placed(parts, name, at, 1) /\ p = at[1] + Len(parts[1])
    BY <1>2 DEF Reaches
  <2> QED
    BY <1>1, <2>1 DEF Placed
<1>3. ASSUME Fits(parts[1], name, 0), p = Len(parts[1]) PROVE Reaches(parts, name, 1, p)
  <2> DEFINE at == [j \in 1..1 |-> 0]
  <2>1. Placed(parts, name, at, 1) /\ p = at[1] + Len(parts[1])
    BY <1>1, <1>3 DEF Placed
  <2> QED
    BY <2>1 DEF Reaches
<1> QED
  BY <1>2, <1>3

LEMMA ReachNext ==
  ASSUME NEW S, NEW name \in Seq(S), NEW parts \in Seq(Seq(S)), NEW i \in Nat, NEW k, k = i + 1, i # 0, k <= Len(parts),
         NEW q
  PROVE  Reaches(parts, name, k, q) <=>
           \E p, a : /\ Reaches(parts, name, i, p) /\ Fits(parts[k], name, a)
                     /\ p <= a /\ q = a + Len(parts[k])
<1>1. Len(name) \in Nat /\ parts[k] \in Seq(S) /\ Len(parts[k]) \in Nat /\ parts[i] \in Seq(S) /\ Len(parts[i]) \in Nat
      /\ \A j \in 1..k : j \in 1..Len(parts) /\ parts[j] \in Seq(S) /\ Len(parts[j]) \in Nat
  OBVIOUS
<1>2. ASSUME Reaches(parts, name, k, q)
      PROVE  \E p, a : /\ Reaches(parts, name, i, p) /\ Fits(parts[k], name, a)
                       /\ p <= a /\ q = a + Len(parts[k])
  <2>1. PICK at : Placed(parts, name, at, k) /\ q = at[k] + Len(parts[k])
    BY <1>2 DEF Reaches
  <2> DEFINE bt == [j \in 1..i |-> at[j]]
             p == bt[i] + Len(parts[i])
             a == at[k]
  <2>2. /\ at \in [1..k -> 0..Len(name)] /\ at[1] = 0 /\ (\A j \in 1..k : Fits(parts[j], name, at[j]))
        /\ \A j \in 1..(k - 1) : at[j] + Len(parts[j]) <= at[j + 1]
    BY <2>1 DEF Placed
  <2>3. /\ 1 \in 1..i /\ i \in 1..i /\ k \in 1..k /\ i \in 1..(k - 1) /\ \A j \in 1..i : j \in 1..k
        /\ \A j \in 1..(i - 1) : j \in 1..(k - 1) /\ j \in 1..i /\ j + 1 \in 1..i
    OBVIOUS
  <2>4. bt \in [1..i -> 0..Len(name)] /\ \A j \in 1..i : bt[j] = at[j]
    BY <2>2, <2>3
  <2> HIDE DEF bt
  <2>5. Placed(parts, name, bt, i)
    BY <2>2, <2>3, <2>4 DEF Placed
  <2>6. p <= a
    BY <2>2, <2>3, <2>4
  <2>7. Reaches(parts, name, i, p)
    BY <2>5 DEF Reaches
  <2>8. Fits(parts[k], name, a) /\ q = a + Len(parts[k])
    BY <2>1, <2>2, <2>3
  <2> QED
    BY <2>6, <2>7, <2>8
<1>3. ASSUME NEW p, NEW a, Reaches(parts, name, i, p), Fits(parts[k], name, a), p <= a, q = a + Len(parts[k])
      PROVE  Reaches(parts, name, k, q)
  <2>1. PICK bt : Placed(parts, name, bt, i) /\ p = bt[i] + Len(parts[i])
    BY <1>3 DEF Reaches
  <2> DEFINE at == [j \in 1..k |-> IF j = k THEN a ELSE bt[j]]
  <2>2. /\ bt \in [1..i -> 0..Len(name)] /\ bt[1] = 0 /\ (\A j \in 1..i : Fits(parts[j], name, bt[j]))
        /\ \A j \in 1..(i - 1) : bt[j] + Len(parts[j]) <= bt[j + 1]
    BY <2>1 DEF Placed
  <2>3. /\ \A j \in 1..k : j = k \/ (j \in 1..i /\ j # k)
        /\ \A j \in 1..(k - 1) : j \in 1..i /\ j \in 1..k /\ j # k /\ j + 1 \in 1..k /\ (j = i \/ (j \in 1..(i - 1) /\ j + 1 \in 1..i /\ j + 1 # k))
        /\ k \in 1..k /\ 1 \in 1..k /\ 1 # k /\ i + 1 = k
    OBVIOUS
  <2>4. a \in 0..Len(name)
    BY <1>1, <1>3 DEF Fits
  <2>5. at \in [1..k -> 0..Len(name)] /\ at[k] = a /\ \A j \in 1..i : at[j] = bt[j]
    BY <2>2, <2>3, <2>4
  <2> HIDE DEF at
  <2>6. at[1] = 0
    BY <2>2, <2>3, <2>5
  <2>7. \A j \in 1..k : Fits(parts[j], name, at[j])
    BY <1>3, <2>2, <2>3, <2>5
  <2>8. ASSUME NEW j \in 1..(k - 1) PROVE at[j] + Len(parts[j]) <= at[j + 1]
    <3>1. CASE j = i
      BY <1>3, <2>1, <2>3, <2>5, <3>1
    <3>2. CASE j # i
      BY <2>2, <2>3, <2>5, <3>2
    <3> QED
      BY <3>1, <3>2
  <2>9. Placed(parts, name, at, k)
    BY <2>5, <2>6, <2>7, <2>8 DEF Placed
  <2>10. q = at[k] + Len(parts[k])
    BY <1>3, <2>5
  <2> QED
    BY <2>9, <2>10 DEF Reaches
<1> QED
  BY <1>2, <1>3

LEMMA ReachedInside ==
  ASSUME NEW S, NEW name \in Seq(S), NEW parts \in Seq(Seq(S)), NEW i \in 1..Len(parts), NEW p, Reaches(parts, name, i, p)
  PROVE  p \in 0..Len(name)
<1>1. PICK at : Placed(parts, name, at, i) /\ p = at[i] + Len(parts[i])
  BY DEF Reaches
<1>2. i \in 1..i /\ parts[i] \in Seq(S) /\ Len(parts[i]) \in Nat /\ Len(name) \in Nat
  OBVIOUS
<1>3. Fits(parts[i], name, at[i])
  BY <1>1, <1>2 DEF Placed
<1> QED
  BY <1>1, <1>2, <1>3 DEF Fits

LEMMA CoversReaches ==
  ASSUME NEW S, NEW name \in Seq(S), NEW parts \in Seq(Seq(S)), Len(parts) # 0
  PROVE  Covers(parts, name) <=> Reaches(parts, name, Len(parts), Len(name))
<1> DEFINE k == Len(parts)
<1>1. k \in Nat /\ DOMAIN parts = 1..k /\ k \in 1..k /\ \A j \in 1..k : parts[j] \in Seq(S)
  OBVIOUS
<1>2. \A j \in 1..k : \A n : n \in Occurrences(parts[j], name) <=> Fits(parts[j], name, n)
  BY <1>1, OccursWhere
<1> HIDE DEF k
<1>3. ASSUME NEW at
      PROVE  (/\ at \in [DOMAIN parts -> 0..Len(name)] /\ at[1] = 0
              /\ \A i \in DOMAIN parts : at[i] \in Occurrences(parts[i], name)
              /\ \A i \in 1..(k - 1) : at[i] + Len(parts[i]) <= at[i + 1])
             <=> Placed(parts, name, at, k)
  BY <1>1, <1>2 DEF Placed
<1>4. Covers(parts, name) <=> \E at : Placed(parts, name, at, k) /\ at[k] + Len(parts[k]) = Len(name)
  BY <1>3 DEF Covers, k
<1> QED
  BY <1>4 DEF Reaches, k

-----------------------------------------------------------------------------
(* The scan takes the first place there is, and so gets least far. *)
Taken(part, s) ==
    IF Occurrences(part, s) = {} THEN {} ELSE {Rest(s, Min(Occurrences(part, s)) + Len(part))}

LEMMA MinIs ==
  ASSUME NEW B \in SUBSET Nat, B # {}
  PROVE  Min(B) \in B /\ \A y \in B : Min(B) <= y
<1>1. \E x \in B : \A y \in B : x <= y
  BY LeastOf
<1> QED
  BY <1>1 DEF Min

TakesFirst(part, name, p, next) ==
    \/ next = {} /\ \A a : p <= a => ~Fits(part, name, a)
    \/ \E a : /\ p <= a /\ Fits(part, name, a) /\ next = {Rest(name, a + Len(part))}
              /\ \A b : (p <= b /\ Fits(part, name, b)) => a <= b

LEMMA TakenFrom ==
  ASSUME NEW S, NEW name \in Seq(S), NEW part \in Seq(S), NEW p \in 0..Len(name)
  PROVE  TakesFirst(part, name, p, Taken(part, Rest(name, p)))
<1> DEFINE r == Rest(name, p)
           at == Occurrences(part, r)
           k == Len(part)
           m == Len(name)
<1>1. r \in Seq(S) /\ k \in Nat /\ m \in Nat /\ p \in Nat
  BY RestIs
<1>2. ASSUME NEW n PROVE n \in at <=> n \in Nat /\ Fits(part, name, p + n)
  <2>1. n \in at <=> Fits(part, r, n)
    BY <1>1, OccursWhere
  <2>2. Fits(part, r, n) => n \in Nat
    BY DEF Fits
  <2>3. n \in Nat => (Fits(part, r, n) <=> Fits(part, name, p + n))
    BY FitsInRest
  <2> QED
    BY <2>1, <2>2, <2>3
<1>3. ASSUME NEW a, p <= a, Fits(part, name, a) PROVE a \in Nat /\ a - p \in at
  <2>1. a \in Nat /\ a - p \in Nat /\ p + (a - p) = a
    BY <1>1, <1>3 DEF Fits
  <2> DEFINE n == a - p
  <2>2. n \in Nat /\ Fits(part, name, p + n)
    BY <1>3, <2>1
  <2> HIDE DEF n, at
  <2>3. n \in at
    BY <1>2, <2>2
  <2> QED
    BY <2>1, <2>3 DEF n
<1>4. at \in SUBSET Nat
  BY <1>2
<1>5. Taken(part, r) = IF at = {} THEN {} ELSE {Rest(r, Min(at) + k)}
  BY DEF Taken
<1> HIDE DEF r, at, k, m
<1>6. CASE at = {}
  BY <1>3, <1>5, <1>6 DEF r, TakesFirst
<1>7. CASE at # {}
  <2> DEFINE n == Min(at)
             a == p + n
  <2>1. n \in at /\ \A y \in at : n <= y
    BY <1>4, <1>7, MinIs
  <2> HIDE DEF n
  <2>2. n \in Nat /\ Fits(part, name, a)
    BY <1>2, <2>1
  <2>3. p <= a /\ p + (n + k) = a + k /\ n + k \in Nat /\ p + (n + k) <= m
    BY <1>1, <2>2 DEF Fits, k, m
  <2>4. Rest(r, n + k) = Rest(name, a + k)
    <3> DEFINE h == n + k
    <3>1. h \in Nat /\ p + h <= Len(name) /\ p + h = a + k
      BY <2>3 DEF m
    <3> HIDE DEF h, a
    <3>2. Rest(Rest(name, p), h) = Rest(name, p + h)
      BY <3>1, RestOfRest
    <3>3. Rest(r, h) = Rest(name, a + k)
      BY <3>1, <3>2 DEF r
    <3> QED
      BY <3>3 DEF h
  <2>5. ASSUME NEW b, p <= b, Fits(part, name, b) PROVE a <= b
    <3>1. b \in Nat /\ b - p \in at
      BY <1>3, <2>5
    <3>2. n <= b - p
      BY <2>1, <3>1
    <3> QED
      BY <1>1, <2>2, <3>1, <3>2
  <2>6. Taken(part, r) = {Rest(name, a + k)}
    BY <1>5, <1>7, <2>4 DEF n
  <2> QED
    BY <2>2, <2>3, <2>5, <2>6 DEF r, k, TakesFirst
<1> QED
  BY <1>6, <1>7

(* What is left after i parts: nothing when no placing of them exists, and otherwise all
   that the placing that ends first leaves. *)
Best(parts, name, i, rest) ==
    \/ rest = {} /\ \A p : ~Reaches(parts, name, i, p)
    \/ \E p \in 0..Len(name) : /\ rest = {Rest(name, p)} /\ Reaches(parts, name, i, p)
                               /\ \A q : Reaches(parts, name, i, q) => p <= q

LEMMA BestFirst ==
  ASSUME NEW S, NEW name \in Seq(S), NEW parts \in Seq(Seq(S)), Len(parts) # 0
  PROVE  Best(parts, name, 1, IF IsPrefix(parts[1], name) THEN {Rest(name, Len(parts[1]))} ELSE {})
<1> DEFINE p == Len(parts[1])
<1>1. parts[1] \in Seq(S) /\ p \in Nat /\ Len(name) \in Nat
  OBVIOUS
<1>2. IsPrefix(parts[1], name) <=> Fits(parts[1], name, 0)
  BY <1>1, PrefixFits
<1>3. \A q : Reaches(parts, name, 1, q) <=> Fits(parts[1], name, 0) /\ q = p
  BY ReachFirst
<1>4. Fits(parts[1], name, 0) => p \in 0..Len(name)
  BY <1>1 DEF Fits
<1> HIDE DEF p
<1> QED
  BY <1>1, <1>2, <1>3, <1>4 DEF Best, p

TakenOf(part, rest) == UNION {Taken(part, s) : s \in rest}

LEMMA BestNext ==
  ASSUME NEW S, NEW name \in Seq(S), NEW parts \in Seq(Seq(S)), NEW i \in Nat, NEW k, k = i + 1, i # 0, k <= Len(parts),
         NEW rest, Best(parts, name, i, rest)
  PROVE  Best(parts, name, k, TakenOf(parts[k], rest))
<1> DEFINE part == parts[k]
           next == TakenOf(part, rest)
<1>1. part \in Seq(S) /\ Len(part) \in Nat /\ Len(name) \in Nat /\ i \in 1..Len(parts) /\ k \in 1..Len(parts)
  OBVIOUS
<1>2. ASSUME NEW q
      PROVE  Reaches(parts, name, k, q) <=>
               \E p, a : Reaches(parts, name, i, p) /\ Fits(part, name, a) /\ p <= a /\ q = a + Len(part)
  BY ReachNext
<1>3. CASE rest = {} /\ \A p : ~Reaches(parts, name, i, p)
  <2>1. next = {} /\ \A q : ~Reaches(parts, name, k, q)
    BY <1>2, <1>3 DEF TakenOf
  <2> QED
    BY <2>1 DEF Best
<1>4. CASE \E p \in 0..Len(name) : /\ rest = {Rest(name, p)} /\ Reaches(parts, name, i, p)
                                   /\ \A q : Reaches(parts, name, i, q) => p <= q
  <2>1. PICK p \in 0..Len(name) : /\ rest = {Rest(name, p)} /\ Reaches(parts, name, i, p)
                                  /\ \A q : Reaches(parts, name, i, q) => p <= q
    BY <1>4
  <2>2. next = Taken(part, Rest(name, p))
    BY <2>1 DEF TakenOf
  <2>3. ASSUME NEW q, NEW a, Reaches(parts, name, i, q), Fits(part, name, a), q <= a PROVE p <= a
    <3>1. q \in 0..Len(name) /\ a \in Nat
      BY <1>1, <2>3, ReachedInside DEF Fits
    <3>2. p <= q
      BY <2>1, <2>3
    <3> QED
      BY <1>1, <2>3, <3>1, <3>2
  <2> HIDE DEF part, next
  <2>4. \/ next = {} /\ \A a : p <= a => ~Fits(part, name, a)
        \/ \E a : /\ p <= a /\ Fits(part, name, a) /\ next = {Rest(name, a + Len(part))}
                  /\ \A b : (p <= b /\ Fits(part, name, b)) => a <= b
    <3>1. TakesFirst(part, name, p, Taken(part, Rest(name, p)))
      BY <1>1, TakenFrom
    <3> QED
      BY <2>2, <3>1 DEF TakesFirst
  <2>5. CASE next = {} /\ \A a : p <= a => ~Fits(part, name, a)
    <3>1. \A q : ~Reaches(parts, name, k, q)
      BY <1>2, <2>3, <2>5
    <3> QED
      BY <2>5, <3>1 DEF Best, next, part
  <2>6. ASSUME NEW a, p <= a, Fits(part, name, a), next = {Rest(name, a + Len(part))},
               \A b : (p <= b /\ Fits(part, name, b)) => a <= b
        PROVE  Best(parts, name, k, next)
    <3> DEFINE h == a + Len(part)
    <3>1. Reaches(parts, name, k, h)
      BY <1>2, <2>1, <2>6
    <3>2. h \in 0..Len(name) /\ a \in Nat
      BY <1>1, <2>6 DEF Fits
    <3>3. ASSUME NEW q, Reaches(parts, name, k, q) PROVE h <= q
      <4>1. PICK o, b : Reaches(parts, name, i, o) /\ Fits(part, name, b) /\ o <= b /\ q = b + Len(part)
        BY <1>2, <3>3
      <4>2. b \in Nat /\ a <= b
        BY <2>3, <2>6, <4>1 DEF Fits
      <4> QED
        BY <1>1, <3>2, <4>1, <4>2
    <3> HIDE DEF h
    <3>4. next = {Rest(name, h)}
      BY <2>6 DEF h
    <3> QED
      BY <3>1, <3>2, <3>3, <3>4 DEF Best
  <2> QED
    BY <2>4, <2>5, <2>6 DEF next, part
<1> QED
  BY <1>3, <1>4 DEF Best

(* The table that Glob reads: what is left after each part but the last. *)
LeftTable(parts, name, n, t) ==
    t = [i \in 1..n |-> IF i = 1 THEN IF IsPrefix(parts[1], name) THEN {Rest(name, Len(parts[1]))} ELSE {}
                        ELSE UNION {Taken(parts[i], s) : s \in t[i - 1]}]
LeftSoFar(parts, name, n) == CHOOSE t : LeftTable(parts, name, n, t)

LEMMA GlobByTable ==
  ASSUME NEW parts, NEW name
  PROVE  Glob(parts, name) <=> \E s \in LeftSoFar(parts, name, Len(parts) - 1)[Len(parts) - 1] : IsSuffix(parts[Len(parts)], s)
BY DEF Glob, LeftSoFar, LeftTable, Taken

LEMMA LeftTableExists ==
  ASSUME NEW parts, NEW name, NEW n \in Nat
  PROVE  LeftTable(parts, name, n, LeftSoFar(parts, name, n))
<1> DEFINE Bad == {m \in Nat : ~ \E t : LeftTable(parts, name, m, t)}
           first == IF IsPrefix(parts[1], name) THEN {Rest(name, Len(parts[1]))} ELSE {}
           After(i, rest) == UNION {Taken(parts[i], s) : s \in rest}
<1>1. SUFFICES ASSUME Bad # {} PROVE FALSE
  BY DEF LeftSoFar
<1>2. PICK m \in Bad : \A j \in Bad : m <= j
  <2> Bad \in SUBSET Nat
    OBVIOUS
  <2> HIDE DEF Bad
  <2> QED
    BY <1>1, LeastOf
<1>3. CASE m = 0
  <2> DEFINE t == [i \in 1..0 |-> {}]
  <2>1. LeftTable(parts, name, 0, t)
    BY DEF LeftTable
  <2> QED
    BY <1>3, <2>1
<1>4. CASE m # 0
  <2>1. m - 1 \in Nat /\ m - 1 \notin Bad
    BY <1>2, <1>4
  <2>2. PICK u : LeftTable(parts, name, m - 1, u)
    BY <2>1
  <2>3. u = [i \in 1..(m - 1) |-> IF i = 1 THEN first ELSE After(i, u[i - 1])]
    BY <2>2 DEF LeftTable
  <2> HIDE DEF first, After
  <2> DEFINE last == IF m = 1 THEN first ELSE After(m, u[m - 1])
             t == [i \in 1..m |-> IF i = m THEN last ELSE u[i]]
  <2>4. ASSUME NEW i \in 1..m
        PROVE  t[i] = IF i = 1 THEN first ELSE After(i, t[i - 1])
    <3>1. CASE i = m
      <4>1. t[i] = last /\ (i # 1 => t[i - 1] = u[m - 1])
        BY <1>4, <2>1, <3>1
      <4> QED
        BY <1>4, <3>1, <4>1
    <3>2. CASE i # m
      <4>1. i \in 1..(m - 1) /\ t[i] = u[i] /\ (i # 1 => t[i - 1] = u[i - 1])
        BY <3>2
      <4>2. u[i] = IF i = 1 THEN first ELSE After(i, u[i - 1])
        BY <2>3, <4>1
      <4> QED
        BY <4>1, <4>2
    <3> QED
      BY <3>1, <3>2
  <2>5. t = [i \in 1..m |-> IF i = 1 THEN first ELSE After(i, t[i - 1])]
    <3> HIDE DEF last
    <3> QED
      BY <2>4
  <2> HIDE DEF t
  <2>6. LeftTable(parts, name, m, t)
    BY <2>5 DEF LeftTable, first, After
  <2> QED
    BY <2>6
<1> QED
  BY <1>3, <1>4

LEMMA TableIsBest ==
  ASSUME NEW S, NEW name \in Seq(S), NEW parts \in Seq(Seq(S)), NEW n \in 1..Len(parts), NEW t,
         LeftTable(parts, name, n, t)
  PROVE  Best(parts, name, n, t[n])
<1> DEFINE Bad == {i \in 1..n : ~Best(parts, name, i, t[i])}
<1> n \in Nat /\ n \in 1..n
  OBVIOUS
<1>1. SUFFICES ASSUME Bad # {} PROVE FALSE
  OBVIOUS
<1>2. PICK i \in Bad : \A j \in Bad : i <= j
  <2> Bad \in SUBSET Nat
    OBVIOUS
  <2> HIDE DEF Bad
  <2> QED
    BY <1>1, LeastOf
<1>3. i \in 1..n /\ i <= Len(parts) /\ Len(parts) # 0
  OBVIOUS
<1>4. CASE i = 1
  <2>1. t[1] = IF IsPrefix(parts[1], name) THEN {Rest(name, Len(parts[1]))} ELSE {}
    BY <1>3, <1>4 DEF LeftTable
  <2>2. Best(parts, name, 1, t[1])
    BY <1>3, <2>1, BestFirst
  <2> QED
    BY <1>4, <2>2
<1>5. CASE i # 1
  <2> DEFINE j == i - 1
  <2>1. j \in 1..n /\ j \in Nat /\ j # 0 /\ i = j + 1 /\ j \notin Bad
    BY <1>2, <1>5
  <2> HIDE DEF j
  <2>2. t[i] = TakenOf(parts[i], t[j])
    BY <1>3, <1>5 DEF LeftTable, TakenOf, j
  <2> DEFINE rest == t[j]
  <2>3. Best(parts, name, j, rest)
    BY <2>1
  <2> HIDE DEF Bad, rest
  <2>4. Best(parts, name, i, TakenOf(parts[i], rest))
    BY <1>3, <2>1, <2>3, BestNext
  <2>5. Best(parts, name, i, t[i])
    BY <2>2, <2>4 DEF rest
  <2> QED
    BY <2>5 DEF Bad
<1> QED
  BY <1>4, <1>5

(* The last part ends what is left just where the mask covers the name. *)
LEMMA LastFits ==
  ASSUME NEW S, NEW name \in Seq(S), NEW parts \in Seq(Seq(S)), NEW i \in Nat, NEW k, k = i + 1, i # 0, k <= Len(parts),
         NEW rest, Best(parts, name, i, rest)
  PROVE  (\E s \in rest : IsSuffix(parts[k], s)) <=> Reaches(parts, name, k, Len(name))
<1> DEFINE part == parts[k]
           m == Len(name)
           e == m - Len(part)
<1>1. part \in Seq(S) /\ Len(part) \in Nat /\ m \in Nat /\ i \in 1..Len(parts) /\ k <= Len(parts)
  OBVIOUS
<1>2. Reaches(parts, name, k, m) <=>
        \E p, a : Reaches(parts, name, i, p) /\ Fits(part, name, a) /\ p <= a /\ m = a + Len(part)
  <2>1. ASSUME NEW q
        PROVE  Reaches(parts, name, k, q) <=>
                 \E p, a : Reaches(parts, name, i, p) /\ Fits(part, name, a) /\ p <= a /\ q = a + Len(part)
    BY ReachNext
  <2> HIDE DEF m
  <2> QED
    BY <2>1
<1>3. ASSUME NEW a, Fits(part, name, a), m = a + Len(part) PROVE a = e
  <2>1. a \in Nat
    BY <1>3 DEF Fits
  <2> DEFINE h == Len(part)
  <2>2. h \in Nat /\ m = a + h
    BY <1>1, <1>3
  <2> HIDE DEF h, m
  <2>3. a = m - h
    BY <2>1, <2>2
  <2> QED
    BY <2>3 DEF h
<1>4. Fits(part, name, e) => e \in Nat /\ m = e + Len(part)
  BY <1>1 DEF Fits
<1>5. ASSUME NEW p \in 0..m
      PROVE  IsSuffix(part, Rest(name, p)) <=> p <= e /\ Fits(part, name, e)
  <2> DEFINE r == Rest(name, p)
             n == Len(r) - Len(part)
  <2>1. r \in Seq(S) /\ Len(r) = m - p
    BY RestIs
  <2> HIDE DEF r
  <2>2. IsSuffix(part, r) <=> Fits(part, r, n)
    BY <1>1, <2>1, SuffixFits
  <2>3. n \in Int /\ p + n = e /\ (n \in Nat <=> p <= e)
    BY <1>1, <2>1
  <2> HIDE DEF n, e
  <2>4. n \in Nat => (Fits(part, r, n) <=> Fits(part, name, p + n))
    BY <1>1, FitsInRest DEF r
  <2>5. Fits(part, r, n) => n \in Nat
    BY DEF Fits
  <2> QED
    BY <2>2, <2>3, <2>4, <2>5 DEF r
<1> HIDE DEF part, m, e
<1>6. CASE rest = {} /\ \A p : ~Reaches(parts, name, i, p)
  BY <1>2, <1>6 DEF part, m
<1>7. CASE \E p \in 0..Len(name) : /\ rest = {Rest(name, p)} /\ Reaches(parts, name, i, p)
                                   /\ \A q : Reaches(parts, name, i, q) => p <= q
  <2>1. PICK p \in 0..m : /\ rest = {Rest(name, p)} /\ Reaches(parts, name, i, p)
                          /\ \A q : Reaches(parts, name, i, q) => p <= q
    BY <1>7 DEF m
  <2>2. (\E s \in rest : IsSuffix(part, s)) <=> p <= e /\ Fits(part, name, e)
    BY <1>5, <2>1
  <2>3. ASSUME p <= e, Fits(part, name, e) PROVE Reaches(parts, name, k, m)
    BY <1>2, <1>4, <2>1, <2>3
  <2>4. ASSUME Reaches(parts, name, k, m) PROVE p <= e /\ Fits(part, name, e)
    <3>1. PICK q, a : Reaches(parts, name, i, q) /\ Fits(part, name, a) /\ q <= a /\ m = a + Len(part)
      BY <1>2, <2>4
    <3>2. a = e
      BY <1>3, <3>1
    <3>3. p <= q /\ q \in 0..m /\ e \in Nat
      BY <1>1, <1>4, <2>1, <3>1, <3>2, ReachedInside DEF m
    <3> QED
      BY <2>1, <3>1, <3>2, <3>3
  <2> QED
    BY <2>2, <2>3, <2>4 DEF part, m
<1> QED
  BY <1>6, <1>7 DEF Best

\* A mask with stars blocks exactly the names its parts occur in, in their order, the first
\* at the beginning and the last at the end without overlap: the code's scan, which takes
\* the first place of each part and never goes back, misses none and adds none
\* (matchGlob of the blocklist; GlobCovers checks it on short names).
THEOREM MasksMeanWhatTheySay ==
  ASSUME NEW S, NEW name \in Seq(S), name # <<>>, NEW mask \in Seq(Seq(S)), Len(mask) > 1
  PROVE  Match(mask, name) <=> Covers(mask, name)
<1> DEFINE k == Len(mask)
           i == k - 1
           t == LeftSoFar(mask, name, i)
<1>1. k \in Nat /\ i \in Nat /\ i # 0 /\ k = i + 1 /\ i \in 1..Len(mask) /\ k # 1 /\ k # 0 /\ k <= Len(mask)
  <2>1. k \in Nat /\ k > 1
    OBVIOUS
  <2> HIDE DEF k
  <2>2. k \in Nat /\ i \in Nat /\ i # 0 /\ k = i + 1 /\ i \in 1..k /\ k # 1 /\ k # 0 /\ k <= k
    BY <2>1
  <2> QED
    BY <2>2 DEF k
<1>2. mask # << <<>> >>
  <2>1. Len(<< <<>> >>) = 1
    OBVIOUS
  <2> QED
    BY <1>1, <2>1
<1>3. Match(mask, name) <=> Glob(mask, name)
  BY <1>1, <1>2 DEF Match
<1>4. Glob(mask, name) <=> \E s \in t[i] : IsSuffix(mask[k], s)
  BY GlobByTable
<1> HIDE DEF i
<1>5. LeftTable(mask, name, i, t)
  BY <1>1, LeftTableExists
<1> HIDE DEF t
<1>6. Best(mask, name, i, t[i])
  BY <1>1, <1>5, TableIsBest
<1> DEFINE rest == t[i]
<1>7. Best(mask, name, i, rest)
  BY <1>6
<1> HIDE DEF rest, k
<1>8. (\E s \in rest : IsSuffix(mask[k], s)) <=> Reaches(mask, name, k, Len(name))
  BY <1>1, <1>7, LastFits
<1>9. Covers(mask, name) <=> Reaches(mask, name, k, Len(name))
  BY <1>1, CoversReaches DEF k
<1> QED
  BY <1>3, <1>4, <1>8, <1>9 DEF rest
================================================================================
