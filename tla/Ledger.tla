--------------------------------- MODULE Ledger ---------------------------------
(***************************************************************************)
(* What the gateway remembers around a request: the model blocklist it is  *)
(* checked against (modelblock.List, rejectBlocked, dropBlocked and the    *)
(* admin handlers of server/blocklist.go), the usage it is recorded in     *)
(* (Server.record, logRequests), and the files both are kept in            *)
(* (blocked_models.json, usage.json).  Requests, an operator, the 30 s     *)
(* save and the save at shutdown interleave; the process may be stopped by *)
(* a signal or die at any point, and starts again from its files.          *)
(***************************************************************************)
EXTENDS UsageTracker, ModelBlock

CONSTANTS
    Requests,
    ClientOf,   \* the client key of each request
    CallsOf,    \* what each request may ask for, see Call
    Canonical,  \* the alias catalog: alias -> the name it stands for
    Masks,      \* the masks there are
    Configured, \* the blocked_models a configuration may have
    Windows,    \* the windows statistics are asked for
    Times,      \* the values of the clock
    MaxEvents   \* bound on what happens beside the requests: ticks, saves, edits, restarts

None == <<>>   \* no model, no name

Savers == {"ticker", "main"}
-----------------------------------------------------------------------------
(***************************************************************************)
(* The handlers under /v1/ do the same in the same order: refuse, ask the  *)
(* blocklist, drop blocked fallbacks, call a provider, record, answer.     *)
(* This is what they differ in: whether the blocklist is asked, whether    *)
(* there are fallbacks, whether what an upstream answers is recorded, not  *)
(* only that it could not be reached, whether tokens are, and the model a  *)
(* call is for that names none.                                            *)
(***************************************************************************)
handleForward == [checks |-> TRUE, fallbacks |-> FALSE, counted |-> TRUE, tokens |-> TRUE, own |-> None]
handleNative == handleForward
handleOpenAI == [handleForward EXCEPT !.fallbacks = TRUE]
handleImages == [handleForward EXCEPT !.tokens = FALSE]
handleModerations == [handleForward EXCEPT !.own = <<"omni", "-", "moderation">>]
handleTranscriptions == [handleForward EXCEPT !.own = <<"whisper", "-", "1">>]
handleSearch == [handleForward EXCEPT !.checks = FALSE, !.own = <<"perplexity", "-", "search">>]
handleCountTokens == [handleForward EXCEPT !.counted = FALSE]

Handlers == {handleForward, handleNative, handleOpenAI, handleImages, handleModerations,
             handleTranscriptions, handleSearch, handleCountTokens}

\* The outcome of a call: the status the client gets, whether an upstream was reached, and
\* what the handler makes of its answer.
Answer == [status : Nat, reached : BOOLEAN, credential : Seq(STRING), error : BOOLEAN,
           input : Nat, output : Nat, read : Nat, write : Nat, reported : Nat]

\* models: what the body asks for, then the fallbacks of header or configuration.
Call == [handler : Handlers, models : Seq(Seq(STRING)), answers : SUBSET Answer]

Calls == UNION {CallsOf[r] : r \in Requests}

ASSUME LedgerAssumption ==
    /\ Configured \subseteq SUBSET Masks
    /\ \A call \in Calls : call.handler \in Handlers /\ call.answers \subseteq Answer
    /\ \A call \in Calls : \A a \in call.answers :
          a.read + a.write <= a.input   \* see anthropicUsage, Usage.Add
    /\ \A call \in Calls :
          /\ call.models = <<>> => call.handler.own # None
          /\ Len(call.models) > 1 => call.handler.fallbacks
    /\ \A handler \in Handlers : handler.own \notin DOMAIN Canonical
    /\ \A r \in Requests : ClientOf[r] # None   \* see authorized
    /\ Times \subseteq Nat /\ Windows \subseteq Int
    /\ \E first \in Times : \A t \in Times : first <= t

VARIABLES
    clock,
    up,                \* "serving", "stopping" after the signal, "draining", "down"
    usage, log,        \* the Tracker
    req,               \* per request: its way through handler and middleware
    config, operator,  \* the List
    edit,              \* the Add or Remove that holds List.mu
    masks,             \* blocked_models.json
    file, tmp,         \* usage.json and usage.json.tmp
    save,              \* per saver: the Save under way
    left               \* what is left of MaxEvents

\* History, for the properties.
VARIABLES
    answered,   \* masks the operator was told are in force
    promised,   \* requests in the last save that was completed
    overlapped  \* two saves have been under way at once

tracker == <<usage, log>>
list == <<config, operator, edit, masks, answered>>
disk == <<file, tmp, save, promised, overlapped>>
ledgerVars == <<clock, up, tracker, req, list, disk, left>>

-----------------------------------------------------------------------------
(***************************************************************************)
(* What a file of usage holds: nothing, an aggregate, or bytes that are no *)
(* JSON: cut off, or the rest of a longer text behind a shorter one.       *)
(***************************************************************************)
Missing == [is |-> "missing", usage |-> NoAggregates]
Broken == [is |-> "broken", usage |-> NoAggregates]
Whole(aggregates) == [is |-> "whole", usage |-> aggregates]
Recorded(content) == content.usage.totals.requests

NoSave == [at |-> "idle", data |-> NoAggregates, into |-> "tmp"]
NoEdit == [at |-> "idle", mask |-> << <<>> >>, next |-> {}, adding |-> FALSE]
NoEvent == [credential |-> None, model |-> None, client |-> None, error |-> FALSE,
            input |-> 0, output |-> 0, read |-> 0, write |-> 0, reported |-> 0]
Idle == [handler |-> handleForward, models |-> <<>>, answers |-> {}]   \* no call
NoRequest == [at |-> "idle", call |-> Idle, targets |-> <<>>, open |-> {}, sure |-> {}, asked |-> None,
              event |-> NoEvent, stamp |-> 0, status |-> 0, seq |-> 0]

Steps == {"idle", "arrived", "admitted", "serving", "recording", "logging", "closing", "done", "lost"}

LedgerTypeOK ==
    /\ clock \in Times
    /\ up \in {"serving", "stopping", "draining", "down"}
    /\ \A e \in log.recent : e.seq \in 1..log.seq /\ e.by \in Requests
    /\ \A e, f \in log.recent : e.seq = f.seq => e = f
    /\ \A r \in Requests : req[r].at \in Steps /\ req[r].seq \in 0..log.seq
    /\ config \subseteq Masks /\ operator \subseteq Masks \ config
    /\ edit.at \in {"idle", "writing", "adopting"}
    /\ masks \subseteq Masks
    /\ \A s \in Savers : save[s].at \in {"idle", "opening", "writing", "renaming"}
    /\ file.is \in {"missing", "broken", "whole"} /\ tmp.is \in {"missing", "broken", "whole"}
    /\ \A d \in Dimensions : DOMAIN usage.hourly[d] \subseteq DOMAIN usage.hours

\* A first start: no file yet but, perhaps, masks of an earlier time.
Init ==
    /\ clock = Min(Times) /\ up = "serving"
    /\ usage = NoAggregates /\ log = EmptyLog
    /\ req = [r \in Requests |-> NoRequest]
    /\ config \in Configured
    /\ masks \in SUBSET Masks /\ operator = masks \ config /\ edit = NoEdit
    /\ file = Missing /\ tmp = Missing
    /\ save = [s \in Savers |-> NoSave]
    /\ left = MaxEvents
    /\ answered = operator /\ promised = 0 /\ overlapped = FALSE

-----------------------------------------------------------------------------
\* Requests.
At(r, step) == req[r].at = step
Handler(r) == req[r].call.handler
Serving == up # "down"
Listening == up \in {"serving", "stopping"}
Bounded == left > 0 /\ left' = left - 1
Quiet == UNCHANGED <<clock, up, list, disk, left>>

InForce == config \cup operator
CanonicalOf(name) == IF name \in DOMAIN Canonical THEN Canonical[name] ELSE name
Blocked(name) == BlockedBy(InForce, {name, CanonicalOf(name)})
Unlocked == edit.at = "idle"   \* Blocked takes List.mu

\* Names a request that comes now can rely on being blocked.
SurelyBlocked(told, names) ==
    {name \in names : BlockedBy(config \cup told, {name, CanonicalOf(name)})}

Arrive(r) ==
    /\ Listening /\ At(r, "idle")
    /\ \E call \in CallsOf[r] :
         LET models == IF call.models = <<>> THEN <<call.handler.own>> ELSE call.models
             names  == IF call.handler.checks THEN ToSet(models) ELSE {}
         IN  req' = [req EXCEPT ![r].at = "arrived", ![r].call = call, ![r].targets = models,
                                ![r].sure = SurelyBlocked(answered, names)]
    /\ UNCHANGED tracker /\ Quiet

\* A bad key, an exhausted budget, an unreadable body, an unknown X-Cerber-Compat:
\* answered before anything is recorded.
Refuse(r) ==
    /\ Serving /\ (At(r, "arrived") \/ At(r, "admitted"))
    /\ req' = [req EXCEPT ![r].at = "closing", ![r].status = 400]
    /\ UNCHANGED tracker /\ Quiet

\* rejectBlocked, where the handler has it, on the name asked for and the one it stands for.
Check(r) ==
    /\ Serving /\ At(r, "arrived") /\ (Handler(r).checks => Unlocked)
    /\ LET name == req[r].targets[1]
       IN  req' = IF Handler(r).checks /\ Blocked(name)
                  THEN [req EXCEPT ![r].at = "recording", ![r].status = 403, ![r].stamp = clock,
                            ![r].event = [NoEvent EXCEPT !.model = CanonicalOf(name), !.error = TRUE,
                                                         !.client = ClientOf[r]]]
                  ELSE [req EXCEPT ![r].at = "admitted"]
    /\ UNCHANGED tracker /\ Quiet

\* dropBlocked leaves the first target open, and the fallbacks that are not blocked.
DropBlocked(r) ==
    /\ Serving /\ At(r, "admitted") /\ (Len(req[r].targets) > 1 => Unlocked)
    /\ LET targets == req[r].targets
       IN  req' = [req EXCEPT ![r].at = "serving",
              ![r].open = {i \in DOMAIN targets : i = 1 \/ ~Blocked(targets[i])}]
    /\ UNCHANGED tracker /\ Quiet

\* canonicalModel has put the first target under its own name; a fallback is sent as it
\* was given.
Model(r, i) == IF i = 1 THEN CanonicalOf(req[r].targets[1]) ELSE req[r].targets[i]

\* Whether this answer is recorded, and as what.
Counts(r, a) == Handler(r).counted \/ ~a.reached
EventOf(r, i, a) ==
    [f \in DOMAIN NoEvent |->
        CASE f = "model" -> Model(r, i)
          [] f = "client" -> ClientOf[r]
          [] f \in {"input", "output", "read", "write"} /\ ~Handler(r).tokens -> 0
          [] OTHER -> a[f]]

\* One of the targets has the last word, a success or not.  The clock is read before
\* Tracker.mu is taken.
Serve(r) ==
    /\ Serving /\ At(r, "serving")
    /\ \E i \in req[r].open, a \in req[r].call.answers :
         req' = [req EXCEPT ![r].at = IF Counts(r, a) THEN "recording" ELSE "closing",
                            ![r].asked = req[r].targets[i], ![r].status = a.status, ![r].stamp = clock,
                            ![r].event = IF Counts(r, a) THEN EventOf(r, i, a) ELSE NoEvent]
    /\ UNCHANGED tracker /\ Quiet

\* record: the aggregates, then (what Charge does is in KeyGovernance) the log.
RecordUsage(r) ==
    /\ Serving /\ At(r, "recording")
    /\ usage' = Record(usage, req[r].event, req[r].stamp)
    /\ req' = [req EXCEPT ![r].at = "logging"]
    /\ UNCHANGED log /\ Quiet

\* What of a request is of no more use to its handler is cleared.
Ended(r) == [NoRequest EXCEPT !.status = req[r].status, !.seq = req[r].seq]

NewEntry(r, error, status) == [seq |-> 0, by |-> r, error |-> error, status |-> status]

LogRequest(r) ==
    /\ Serving /\ At(r, "logging")
    /\ log' = RecordRequest(log, NewEntry(r, req[r].event.error, 0))
    /\ req' = [req EXCEPT ![r] = [Ended(r) EXCEPT !.at = "closing", !.seq = log'.seq]]
    /\ UNCHANGED usage /\ Quiet

\* logRequests, once the handler has returned.
Close(r) ==
    /\ Serving /\ At(r, "closing")
    /\ log' = IF req[r].status < 400 THEN log
              ELSE IF req[r].seq # 0 THEN AnnotateRequest(log, req[r].seq, req[r].status)
              ELSE RecordRequest(log, NewEntry(r, TRUE, req[r].status))
    \* The number of an event of its own is kept here for the properties only.
    /\ req' = [req EXCEPT ![r] = [Ended(r) EXCEPT !.at = "done",
                                                  !.seq = IF @ = 0 THEN log'.seq ELSE @]]
    /\ UNCHANGED usage /\ Quiet

-----------------------------------------------------------------------------
(***************************************************************************)
(* The operator.  Add and Remove hold List.mu from the look at the list to *)
(* the end; a mask that is there already, one of the configuration (409)   *)
(* or one that is not there (404) changes nothing.                         *)
(***************************************************************************)
EditQuiet == UNCHANGED <<clock, up, tracker, disk, config>>

AddKnown ==
    /\ Listening /\ Unlocked
    /\ \E mask \in InForce \ answered : answered' = answered \cup {mask}
    /\ UNCHANGED <<operator, edit, masks, req, left>> /\ EditQuiet

StartAdd ==
    /\ Listening /\ Unlocked /\ Bounded
    /\ \E mask \in Masks \ InForce :
         edit' = [at |-> "writing", mask |-> mask, next |-> operator \cup {mask}, adding |-> TRUE]
    /\ UNCHANGED <<operator, masks, answered, req>> /\ EditQuiet

\* From here on nobody is told the mask holds, requests under way included.
StartRemove ==
    /\ Listening /\ Unlocked /\ Bounded
    /\ \E mask \in operator :
         /\ edit' = [at |-> "writing", mask |-> mask, next |-> operator \ {mask}, adding |-> FALSE]
         /\ answered' = answered \ {mask}
    /\ req' = [r \in Requests |-> [req[r] EXCEPT !.sure = SurelyBlocked(answered', @)]]
    /\ UNCHANGED <<operator, masks>> /\ EditQuiet

\* Mutant: the list is changed and not written.
MemoryOnlyWriteMasks ==
    /\ Serving /\ edit.at = "writing"
    /\ edit' = [edit EXCEPT !.at = "adopting"]
    /\ UNCHANGED <<operator, masks, answered, req, left>> /\ EditQuiet

WriteMasks ==
    /\ Serving /\ edit.at = "writing"
    /\ masks' = edit.next
    /\ edit' = [edit EXCEPT !.at = "adopting"]
    /\ UNCHANGED <<operator, answered, req, left>> /\ EditQuiet

\* The temporary file cannot be written or renamed: 500, the list is as it was.
WriteMasksFails ==
    /\ Serving /\ edit.at = "writing"
    /\ edit' = NoEdit
    /\ UNCHANGED <<operator, masks, answered, req, left>> /\ EditQuiet

Adopt ==
    /\ Serving /\ edit.at = "adopting"
    /\ operator' = edit.next
    /\ answered' = IF edit.adding THEN answered \cup {edit.mask} ELSE answered
    /\ edit' = NoEdit
    /\ UNCHANGED <<masks, req, left>> /\ EditQuiet

-----------------------------------------------------------------------------
(***************************************************************************)
(* Save: the aggregates are marshalled under Tracker.mu, the file is       *)
(* written and renamed outside it.  into is where the open file is by now: *)
(* a rename by the other saver takes it along, or replaces it.             *)
(***************************************************************************)
Saving(s, step) == save[s].at = step
SaveQuiet == UNCHANGED <<clock, tracker, req, list>>
Other(s) == CHOOSE t \in Savers : t # s

Marshal(s) ==
    /\ save' = [save EXCEPT ![s] = [at |-> "opening", data |-> usage, into |-> "tmp"]]
    /\ overlapped' = (overlapped \/ ~Saving(Other(s), "idle"))

\* A tick that is due when stopSave closes may still win the select.
TickerSaves ==
    /\ Listening /\ Saving("ticker", "idle") /\ Bounded
    /\ Marshal("ticker")
    /\ UNCHANGED <<file, tmp, promised, up>> /\ SaveQuiet

\* main: the signal, close(stopSave), which waits for nobody, and saveUsage.
Signal ==
    /\ Bounded /\ up = "serving" /\ up' = "stopping"
    /\ Marshal("main")
    /\ UNCHANGED <<file, tmp, promised>> /\ SaveQuiet

\* Shutdown begins when main's Save has returned, whatever it returned.
Return(s) == up' = IF s = "main" THEN "draining" ELSE up

\* Mutant: the file is written in place.
InPlaceOpen(s) ==
    /\ Serving /\ Saving(s, "opening")
    /\ file' = Broken
    /\ save' = [save EXCEPT ![s].at = "writing", ![s].into = "file"]
    /\ UNCHANGED <<tmp, up, promised, overlapped, left>> /\ SaveQuiet

Open(s) ==
    /\ Serving /\ Saving(s, "opening")
    /\ tmp' = Broken   \* created, or truncated
    /\ save' = [save EXCEPT ![s].at = "writing", ![s].into = "tmp"]
    /\ UNCHANGED <<file, up, promised, overlapped, left>> /\ SaveQuiet

\* Bytes written from the start of a file: a longer text shows behind a shorter one.
Over(content, data) == IF Recorded(content) > data.totals.requests THEN Broken ELSE Whole(data)

Write(s) ==
    /\ Serving /\ Saving(s, "writing")
    /\ LET data == save[s].data
       IN  /\ tmp' = IF save[s].into = "tmp" THEN Over(tmp, data) ELSE tmp
           /\ file' = IF save[s].into = "file" THEN Over(file, data) ELSE file
    /\ save' = [save EXCEPT ![s].at = "renaming"]
    /\ UNCHANGED <<up, promised, overlapped, left>> /\ SaveQuiet

\* The file cannot be opened or written: the save is given up with a warning.
SaveFails(s) ==
    /\ Serving /\ (Saving(s, "opening") \/ Saving(s, "writing"))
    /\ save' = [save EXCEPT ![s] = NoSave]
    /\ Return(s)
    /\ UNCHANGED <<file, tmp, promised, overlapped, left>> /\ SaveQuiet

Moved == [tmp |-> "file", file |-> "gone", gone |-> "gone"]

\* Without a temporary file (the other saver has renamed it) this is an error.
Rename(s) ==
    /\ Serving /\ Saving(s, "renaming")
    /\ IF tmp = Missing
       THEN /\ save' = [save EXCEPT ![s] = NoSave]
            /\ UNCHANGED <<file, tmp, promised>>
       ELSE /\ file' = tmp /\ tmp' = Missing
            /\ promised' = save[s].data.totals.requests
            /\ save' = [save EXCEPT ![s] = NoSave, ![Other(s)].into = Moved[@]]
    /\ Return(s)
    /\ UNCHANGED <<overlapped, left>> /\ SaveQuiet

-----------------------------------------------------------------------------
Tick ==
    /\ Bounded /\ clock' \in {t \in Times : t > clock}
    /\ UNCHANGED <<up, tracker, req, list, disk>>

\* The process dies, or Shutdown has waited its 5 s: memory and what was under way are lost.
Stop ==
    /\ Serving /\ up' = "down"
    /\ usage' = NoAggregates /\ log' = EmptyLog /\ operator' = {}
    /\ req' = [r \in Requests |-> IF At(r, "idle") THEN NoRequest ELSE [NoRequest EXCEPT !.at = "lost"]]
    /\ edit' = NoEdit
    /\ save' = [s \in Savers |-> NoSave]
    /\ UNCHANGED <<clock, config, masks, answered,
                   file, tmp, promised, overlapped, left>>

\* Mutant: masks the configuration has too become the operator's.
DoubledRestart ==
    /\ up = "down" /\ up' = "serving" /\ Bounded
    /\ usage' = file.usage
    /\ operator' = masks
    /\ UNCHANGED <<clock, req, log, config, edit, masks, answered, disk>>

\* modelblock.Load; usage.Load, whose failure is logged and forgotten.
Restart ==
    /\ up = "down" /\ up' = "serving" /\ Bounded
    /\ usage' = file.usage
    /\ operator' = masks \ config
    /\ UNCHANGED <<clock, req, log, config, edit, masks, answered, disk>>

RequestStep(r) ==
    \/ Arrive(r) \/ Refuse(r) \/ Check(r) \/ DropBlocked(r) \/ Serve(r)
    \/ RecordUsage(r) \/ LogRequest(r) \/ Close(r)
OperatorStep == AddKnown \/ StartAdd \/ StartRemove \/ WriteMasks \/ WriteMasksFails \/ Adopt
SaveStep(s) == Open(s) \/ Write(s) \/ SaveFails(s) \/ Rename(s)

Next ==
    \/ \E r \in Requests : RequestStep(r)
    \/ OperatorStep
    \/ TickerSaves \/ Signal \/ \E s \in Savers : SaveStep(s)
    \/ Tick \/ Stop \/ Restart

Spec == Init /\ [][Next]_ledgerVars

-----------------------------------------------------------------------------
(***************************************************************************)
(* A request that came after the operator was told that a mask holds, or   *)
(* that is covered by the configuration, is never sent to a model it       *)
(* covers, nor to a fallback it covers, unless a removal has begun since:  *)
(* not after a restart, and not while another mask is being written (Add   *)
(* and Remove write first, modelblock.go; rejectBlocked, dropBlocked).     *)
(***************************************************************************)
AnsweredMasksHold == \A r \in Requests : req[r].asked \notin req[r].sure

(***************************************************************************)
(* Every request that failed is in the recent log under its own caller,    *)
(* with the status the client got and marked as an error, until RecentCap  *)
(* later events have taken its place, and no event carries the status of   *)
(* another request: the answer is attached by number, after others were    *)
(* logged and dropped (logRequests, AnnotateRequest).                      *)
(***************************************************************************)
FailuresLogged ==
    /\ \A e \in log.recent : e.status # 0 => e.status = req[e.by].status
    /\ \A r \in Requests :
         At(r, "done") /\ req[r].status >= 400 /\ req[r].seq > log.seq - RecentCap =>
             \E e \in log.recent : e.seq = req[r].seq /\ e.by = r /\ e.status = req[r].status /\ e.error

(***************************************************************************)
(* As long as no two saves were under way at once, usage.json is whole and *)
(* holds all that the last completed save held, whatever write failed and  *)
(* whenever the process died (Save: "temp+rename").                        *)
(***************************************************************************)
UsageKept ==
    ~overlapped => file.is # "broken" /\ Recorded(file) >= promised

(***************************************************************************)
(* Every report adds up: its requests, errors and tokens are those of its  *)
(* credentials and of its models, and its costs those EventCost gave for   *)
(* the events of the window when they were charged to the keys.  Pruning,  *)
(* late clocks, restarts and cost reported by the upstream included.       *)
(***************************************************************************)
ReportsAddUp ==
    \A window \in Windows :
        LET report == SnapshotWindow(usage, clock, window)
            whole == window <= 0 \/ window >= Retention
            cutoff == IF whole THEN 0 ELSE clock - window
            charged == Since(usage.charged, cutoff)
        IN  /\ \A d \in Dimensions : report.totals = Sum(report.by[d])
            /\ report.cost = SumFunction(charged)
            /\ report.clientCost = report.cost
=============================================================================
