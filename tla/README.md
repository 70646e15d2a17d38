# Verification of cerber

cerber is a gateway in front of AI providers: it authenticates clients, picks an
upstream account, forwards the request, translates dialects, and accounts for what
was used. Its difficult part is what requests do to state they share: a pool of
accounts that fail and recover, single-use refresh tokens, concurrency slots of
upstream hosts, switches an operator turns at runtime, files that must survive it, and
conversations retold in another dialect. This directory models that part in TLA+, checks
it with TLC and proves much of it with TLAPS.

Paths below are relative to the repository.

## Inventory

| Part | State it keeps | Operations | Where |
|---|---|---|---|
| Credential store | rotation index; per entry: cooldown, streak, disabled, health | NextOf, PenalizeDetail, MarkSuccess, SetEnabled, SetHealth | `internal/credential/credential.go` |
| Rotation loop | none of its own | RotateFilteredOpts: take, send, report, next | `internal/provider/provider.go` |
| OAuth refresh | tokens, expiry, generation, refreshMu of a credential | NeedsRefresh, EnsureFresh, updateOAuth | `credential.go`, `server.go` refreshCred, `openai.go` bearer |
| Token files | one JSON file per login | Save, Load | `internal/tokenstore` |
| Disabled set | names, file | LoadDisabledSet, Set | `internal/credential/disabled.go` |
| Anthropic dispatch | per request: attempt, credential | dispatch, penalize | `internal/server/server.go` |
| OpenAI-compatible provider | hosts and their semaphores, queue gauges | Chat, Images, Forward, ForwardRaw, ProbeCredential | `internal/provider/openai` |
| Chat handler | per request: target, response in hand; learned parameter spellings | handleOpenAI, tryOpenAITarget, the two retries, relayChatter | `server.go`, `internal/compat` |
| Managed keys | keys, limits, rolling counters, file | Identify, Admit, Charge, Add, Delete, SetEnabled, SetLimits, Save | `internal/access` |
| Usage | totals, hourly buckets, ring of recent requests, file | Record, RecordRequest, AnnotateRequest, Snapshot, SnapshotWindow, Save, Load | `internal/usage`, `cmd/cerber/main.go` |
| Model blocklist | config masks, operator masks, file | Load, Add, Remove, Blocked, rejectBlocked, dropBlocked | `internal/modelblock`, `server/blocklist.go` |
| ComfyUI provider | one prompt per request, in a queue it does not own | Chat, submit, wait, poll, forget, dequeue | `internal/provider/comfyui` |
| Translators | per stream: open blocks, tool calls | request, response and stream translation | `internal/translator` |
| Discovery and probes | model lists, health | ProbeAll, route | `server.go` |
| Login flows | PKCE state, a local callback | login | `internal/auth` |

How they interact. A request is a goroutine of `net/http`. `authorized` identifies the
key and reserves a request (Admit); a handler routes the model to a provider; the
provider takes a credential from its store (NextOf, under `Store.mu`), refreshes its
token if need be (`refreshMu`), sends *outside every lock*, and reports the outcome to
the store later; `record` feeds the usage tracker, charges the key and appends to the
ring. Every provider has a store of its own, all of them share one disabled set. The
persister of a refresh runs after `refreshMu` is released. Background goroutines save
usage and keys every 30 s and probe credentials. Admin requests change switches, keys
and masks at any time.

What is hard: outcomes reported long after the credential was taken; a failure seen by
many requests at once; refresh tokens that can be spent once; a client that leaves in
the middle; retries inside a request that holds a slot; files written while the process
may die; choices made under one lock and used under another. `PROJECT.json` lists each
of these hazards at its line, with the property that covers it or the reason why none
does: where the code itself goes wrong, a finding says how, and the property next to it
what it does not claim.

What makes each part correct:

- *store*: cooldowns are capped, a burst of failures counts once, rotation is fair,
  only a success forgives;
- *refresh*: a refresh token is spent once, concurrency never locks an account out,
  every caller comes back, what is on disk can restart (it cannot always: findings 1, 10);
- *dispatch*: no request sends a token it found stale or saw refused, every request
  ends, a credential is sidelined only for its own faults;
- *switches*: what an operator was told survives a restart, what was refused left no trace;
- *provider and handler*: slots are never leaked or given back twice, a request never
  waits for itself, capacity trouble is not taken for a bad credential, failures worth a
  fallback get one;
- *keys*: spending over budget is bounded by the requests in flight, a limit on requests
  is exact but for what a restart forgets, what an operator was told of a key survives
  restarts, a deleted key stays deleted;
- *usage*: totals, dimensions and hourly buckets agree and cost what was charged, an
  annotation reaches its own entry of the ring, a save is not lost while no two overlap;
- *blocklist*: a mask that was answered binds every later request and survives a restart;
- *ComfyUI*: a chat ends, leaves no prompt of its own behind and touches nobody else's;
- *translators*: a stream tells what the whole answer tells, and what one upstream said
  another reads back.

## Modules

```
CredentialStore <--- CredentialPool <--- CredentialPool_proofs
      ^  ^
      |  +---------- HostGate <--- OpenAIRoute <--- OpenAIRoute_proofs
      |
   Dispatch ---> OAuthToken <--- TokenRefresh <--- TokenRefresh_proofs
      ^------ Dispatch_proofs

AccountState --- implements ---> Switches
      ^------ AccountState_proofs

ManagedKeys <--- KeyGovernance <--- KeyGovernance_proofs

UsageTracker <--- Ledger <--- Ledger_proofs
ModelBlock <--------'

Translator <--- Dialogue <------ ForeignUpstreams_proofs
                ComfyQueue <---'
```

An arrow is EXTENDS. `MC<Module>` gives the constants values for TLC. Operators named
after a mistake and commented "Mutant" are not part of the models: they are changes a
programmer might make, each of which breaks a property, and show that the property
depends on the code being as it is.

**CredentialStore** is `credential.Store`. One operator is one critical section of
`Store.mu`. `idx` is the code's index plus one; `cooldownUntil`, `failStreak` and
`disabled` are the entry's fields; time is a counter, 0 being `time.Time{}`. A filter
(`MatchHeader`) is the set of entries it accepts. The doubling loop of PenalizeDetail
is the recursive function `Doubled`: `d` after its rounds, the loop condition included.

**CredentialPool** adds callers, each of which takes a credential, keeps it for as long
as it likes and reports failure, success or nothing, while an operator flips switches
and the clock advances. `passedOver` is a history variable: how often an entry that
could have served was passed over since its last turn.

**OAuthToken** is the token state of a credential and EnsureFresh, in the steps between
which other goroutines run: decide on a generation, wait for `refreshMu`, compare and
skip or start the exchange, the redemption at the endpoint (external), apply or fail,
save. Tokens are numbered in the order of issue; the endpoint honours the newest refresh
token only. `Omits` lets an answer leave out `refresh_token`.

**TokenRefresh** puts callers, lost answers, a torn token file, a crash and the restart
around it. `replaced` and `astray` are history: refresh tokens this process has
replaced, and whether the honoured one was lost (lost answer, or a crash between
redemption and save).

**Dispatch** composes the two: `Server.dispatch`, one action per branch of its loop, for
requests that share a store with logins and API keys. `stale` and `refused` are history.
Cancellation is looked at only where the code does: in a send, and in the refresh, which
runs under the request's context.

**Switches** is an abstract promise: a change takes effect and becomes durable at one
instant, is answered once enforced, and a refused change leaves no trace.
**AccountState** is the code: the walk over the stores, `Store.mu`, `DisabledSet.mu`
inside it, the temporary file, the rename, adoption by the set, the entry. Any write may
fail and the process may die and restart between any two steps. The refinement mapping
(`Promise`) takes the file for the durable names and the rename for the instant.

**HostGate** is `openai.Provider`: RotateFilteredOpts around sendHosts around acquire.
A request is built, queues for a host's slot, sends; a failure gives the slot back and
moves to the next host or the next credential; an answer keeps it until its body is
closed. `refusals` is history. A context that ends while an answer is already arriving
may see either, so the model lets it. Images, Forward and ForwardRaw differ in the path
and body only.

**OpenAIRoute** is the handler over it: fallback targets, the 400/422 retry without the
usage option cerber added, the retry with the other output-length parameter, the relay.
Both retries buffer and close the rejected response first; it is then replayed from
memory, which is `resp` in the model. A target of another provider is one step with any
of its outcomes.

**ManagedKeys** is `access.Store`: an entry with its limits and counters, and what each
method does to it and to the keys file. All of a method runs under `Store.mu`, the write
of the file included, so a method is one step; it may fail to write, and then memory has
changed all the same. A rolling window is "none" (a zero start), "open" or "over": a step
of the clock ends it, in memory and in the file's older copy. Secrets are numbered.
Two fields of an entry are history: `admitted`, the requests let through since the rate
window last ran out, whichever process let them through, and `missed`, those of them that
this copy of the entry was written too early to know. The stored counter cannot stand for
them: Admit changes memory only, and a restart reads an older count into an open window.

**KeyGovernance** is what uses the store: requests, which look the key up twice
(Identify by secret, Admit by name) and pay in a third step, the operator's handlers, the
saver, and restarts. A graceful shutdown is a save followed, some steps later, by a
restart. `promised`, `unsure` and `revoked` are history: what the operator was last told.
Of a name whose last change was answered with an error nothing is promised. Requests with
static keys, and local ones without a recognised key, never reach the store.

**UsageTracker** is `usage.Tracker` as functions: an event added to totals, to the
credential, the model and the client it is for, and to each of them in its hour; pruning;
prices (longest prefix, cached and reported rates); reports over all time and over a
window; the ring of recent requests and the number an entry is annotated by. Money is
counted in whole units, tokens in ones.

**ModelBlock** is the matching of `modelblock`: `Match` follows `glob`, the scan for each
part of a mask from the left. `Covers` is what a mask means, said without an algorithm.

**Ledger** puts both around the requests. The eight handlers under `/v1/` do the same
things in the same order; what they differ in is one record each (`handleOpenAI`,
`handleSearch`, ...): whether the blocklist is asked, whether there are fallbacks, whether
an upstream's answer and its tokens are recorded. `Serve` stands for what Dispatch and
OpenAIRoute do in detail. The operator's Add and Remove hold `List.mu` over write and
adoption; the two savers marshal under `Tracker.mu` and write after it, to one temporary
file; the process ends by a signal (save, then Shutdown) or dies, and restarts from its
files. `answered`, `promised` and `overlapped` are history.

**ComfyQueue** is `provider/comfyui`: Chat checks the request and submits a prompt, wait
polls until there is an entry, and what is left behind is dequeued or forgotten by a
detached call; a stream runs wait in a goroutine of its own. ComfyUI is external: it runs
one prompt at a time, may hang, fail or restart empty, and has other clients.

**Translator** is `internal/translator` as functions: requests to Anthropic and Gemini,
whole answers, and the two stream translations, one event at a time, with the state the
code keeps (open block, number of the call, usage so far). **Dialogue** is a client that
uses it: it asks, receives a whole or a streamed answer, runs the tools that were called
and asks again, perhaps of the other upstream. `Kept` is every loop that picks elements of a
list (the calls, the texts, the synthetic tool). `said` is history: what the upstreams said
in the turns the client still holds.

## Runs

| Run | Module | Shows |
|---|---|---|
| `credential_pool` | MCCredentialPool | caps, earned streaks, fair rotation, forgiveness, under late reports |
| `token_refresh` | MCTokenRefresh | single spending, deduplication, no lock-out, every call returns, with a crash |
| `dispatch` | MCDispatch | nothing stale is sent, a retry carries a newer token, every request ends |
| `account_state` | MCAccountState | refinement of Switches, agreement of memory and file, every request answered |
| `openai_route` | MCOpenAIRoute | slots accounted for, overload never sidelines, every request ends |
| `key_governance` | MCKeyGovernance | bounded overshoot of budgets, requests within the limit but for those a restart forgot, answered changes saved, deleted keys gone |
| `gateway_ledger` | MCLedger | answered masks hold, failures are logged under their own request, saves that do not overlap are kept, reports add up |
| `comfy_queue` | MCComfyQueue | nothing left behind, others undisturbed, every chat ends |
| `dialogue` | MCDialogue | a stream tells the whole, what was said is read back, results follow their calls |
| `token_durability` | MCTokenRefresh | finding 1 |
| `forced_refresh_loser` | MCDispatch | finding 2 |
| `cancelled_refresh` | MCDispatch | finding 3 |

The last three state what a comment or a document says of the code, and TLC finds what the
code does instead. They have the bounds of the passing run of their module, but for
`token_durability`, where nobody crashes.

Bounds.

- `credential_pool`: three credentials (wrap-around and skipping need three), two
  callers, either strategy, any initial switches; time up to 3 and a cap of 3, so that a
  streak doubles once and then meets the cap. Callers are interchangeable: symmetry.
- `token_refresh`: one account (accounts share nothing), two callers, three tokens, one
  crash: enough for a winner, a waiter, and a refresh after each.
- `dispatch`: a login and an API key, one request free and one pinned to the login, three
  generations of tokens, one tick of time. Every branch of the loop is taken.
- `account_state`: three accounts over two stores, so that two operators meet on one
  entry, in one store, and across stores, and a name no account has. Nothing counts, so
  there is no other bound.
- `openai_route`: one request with a chain of two targets and all its retries, and one
  competitor; the first host has one slot, the second none to count; one or two hosts;
  transport failures penalized or not. One credential: what several do is
  `credential_pool`'s matter. Two requests that both retry, and two credentials, give
  more states than a run can visit.

- `key_governance`: two requests at once (an overshoot needs two), one name that two keys
  bear in turn, a limited and an unlimited setting, three changes by the operator: create,
  delete, create again, or create and two others. Counters stop at 3, one above every
  limit, and so does `admitted`: one request more than a limit allows, which takes a
  restart that forgot one, is within the bound. What happens under one name does not depend on the others, and the theorems
  cover any number of them.

- `gateway_ledger`: two requests, the fewest that can push each other out of the ring,
  which holds one; a chat with an alias and a fallback, and a count or a search, the two
  handlers that deviate; two instants in different hours and a retention of two, so that
  an hour is pruned; two masks, one of them perhaps configured; two events (ticks, saves,
  edits, signals, deaths) beside the requests. Whether `Match` agrees with `Covers` is evaluated for
  every mask of two or three parts of up to two characters and every name of up to four
  (`GlobCovers`); `MasksMeanWhatTheySay` proves it for all.
- `comfy_queue`: two chats, a stream or a rejected request among them, one prompt of
  another client, one restart of ComfyUI. Chats share nothing but the queue.
- `dialogue`: one tool, two answers, up to three blocks in each, either dialect, each option of
  a request by itself. A second answer is enough for calls and results to be retold.

The model of time ends at `MaxTime`, that of tokens at `MaxIssued` and of crashes at
`MaxCrashes`: at the bound the clock stands still, nothing more is redeemed and nobody
crashes. The proofs do not depend on them.

Fairness. Weak fairness of each goroutine's steps: Go runs what is runnable, the upstream
client has a timeout on silence (`cmd/cerber/main.go`), files are written or fail. Strong
fairness only for taking a mutex that others keep taking, which Go's starvation mode
grants to the longest waiter. A request takes a slot or `refreshMu` a bounded number of
times, so weak fairness is enough in Dispatch and OpenAIRoute. Nobody owes a
cancellation, an expiry, a crash or a tick. In ComfyQueue the steps of a chat and the
passing of MaxWait are fair; leaving a `select` on a done context is strongly fair, for Go
chooses among ready cases at random. Nothing is asked of ComfyUI, which may hang.

`dispatch` and `openai_route` stutter once every request is done, so that deadlock
checking stays on. It is off in `gateway_ledger` and `comfy_queue`, which really stop: at
the end of the events, with the process down, and when all chats and prompts are done.

## Proofs

For every number of credentials, callers and accounts, every base cooldown and cap:

`CredentialPool_proofs`
- `TypeCorrect`: Spec => []PoolTypeOK.
- `ParkingIsBounded`: Spec => []ParkingBounded. It is inductive with the types; the
  lemma `BackoffCapped` says that the doubled cooldown is at most `maxCooldown`.
- `RotationIsFair`: Spec => []RotationFair. Not inductive: it does not say where the
  index is. `RotationInv` strengthens it: an entry passed over m times is at most
  N - 1 - m entries away from its turn. A hand-out to the k-th examined entry moves every
  other eligible entry k closer (`CloserByK`), because an eligible one that is closer
  would have been taken.
- `StreaksAreEarned`: Spec => []StreakEarned. A failure counts only when the cooldown of
  the one before is over, so the step needs that a doubled cooldown is never shorter than
  the first (`BackoffAtLeast`). `Doubled` is defined by recursion: that the loop can be run
  for any number of rounds, with one result, and that no round shortens the cooldown are
  shown by the least counterexample (`LeastNatural`, from the well-foundedness of strict
  inclusion on finite sets), round by round.
- `SuccessAloneForgives`: Spec => OnlySuccessForgives, an action property, from the types.

`TokenRefresh_proofs`, from the inductive invariant `RefreshInv` (theorem `Invariance`)
- `TypeCorrect`, `SpentOnce` (ReplacedNeverSpent), `Deduplicated` (ReplacesWhatItSaw),
  `NeverLockedOut` (MemoryHoldsValid).
- `RefreshInv` has four parts beside the types. `LockInv`: refreshMu is held by exactly
  the caller that is exchanging. `HolderInv`: the holder's generation and token are the
  credential's. `OrderInv`: replaced tokens are older than the one in memory, an answer
  under way is newer, nothing is newer than the endpoint's last. `ValidInv`: the honoured
  token is in memory or in an answer on its way there, unless it went astray. None holds
  without the others: that a replaced token is not spent needs that the holder's is
  current, which needs that nobody else can apply an answer, which is the lock.

`KeyGovernance_proofs`, for every set of names and requests, all limits and prices
- `TypeCorrect`: Spec => []GovTypeOK.
- `BudgetHolds` (OvershootBounded) and `RateHolds` (RequestsWithinLimit), from
  `BoundsInv`. OvershootBounded is about the counters of the running process: what was
  charged after the last save is gone from them after a restart. RequestsWithinLimit is
  about the requests themselves, in every process: those let through in one window are at
  most the limit and the ones a restart forgot. It is not inductive by itself, for Admit
  looks at the stored counter. `Counted` says that the counter of an open window makes up
  for all that were let through but the missed ones, in memory and in the file alike, which
  is why a restart may take the file's copy, `missed` and all, for the truth; a window that is
  not open counts nothing. The bound on costs that is inductive counts what is still to
  come: cost plus one dearest call per request in flight stays below the limit plus one
  per request the gateway can handle. A request let through found the counter below the limit, and one
  that pays leaves the set it was counted in. The file satisfies the bound with nothing
  in flight, which is how a restart reads it. A limit that is lowered, or introduced
  over existing counters, is claimed from the next window on (`costLowered`,
  `rateLowered`).
- `RevokedForGood` (RevokedStaysRevoked), from `SecretsInv`: no two names bear one secret,
  in memory or in the file, and no secret is still to be minted, so that the deletion that
  was answered took the only entry.
- `AnswersAreKept` (AnsweredIsSaved), inductive with the types.

`AccountState_proofs`, for every set of stores and accounts; the first two where names are
unique (`UniqueNames`, which the theorems state as their assumption; finding 5 is about what
happens otherwise)
- `SwitchesImplemented`: Spec => ImplementsSwitches, the refinement. `AccountInv` ties
  the mutexes, the computed set and the temporary file to the operator who holds them: a
  walk holds `Store.mu` from the hit on and `DisabledSet.mu` from the computation to the
  adoption, and what it is about to rename is the file with its one name changed. The
  rename maps to the change of the promise, every other step to an answer or a stutter.
- `AnsweredChangesAreSaved` (SettledIsSaved), from the same invariant.
- `TypeCorrect` ([]AccountTypeOK), whether or not names are shared, from `TypedInv`. That
  the file is never torn needs that what is renamed is what its writer wrote, whole, under
  `DisabledSet.mu`; and that `First` finds an entry among several of one name needs that
  there is a least one (from the well-foundedness of strict inclusion on finite sets).

`Dispatch_proofs`, for every number of requests, credentials and refreshes
- `ExpiringTokensAreNotSent` (StaleNeverSent) and `RetriesCarryNewerTokens`
  (RetryUsesNewerToken), from `DispatchInv`. The properties speak of what was sent; the
  invariant must say what a refresh under way knows (`CallOK`): the token of its
  credential is not older than the one to be replaced, and newer once the generation has
  moved past the one it captured. Hence a call that skips because of the generation, and
  one that returns after its own exchange, leave a newer token behind. That an answer is
  newer than the token in memory needs that nobody applies another meanwhile, which is
  refreshMu. `OthersCall` shows once that a refresh by one request only helps the others.
- `DispatchTypeCorrect`: Spec => []DispatchTypeOK, from `TypeIInv`: a request has a
  credential at every place but the first and the last, and an attempt left when it picks.

`OpenAIRoute_proofs`, for every set of requests, number of hosts, credentials and targets,
and every list of caps, from the inductive invariant `RouteIInv`
- `RouteTypeCorrect` and `SlotsAreAccountedFor` ([]SlotsAccountedFor). `ChatInv` says what a
  request holds at each place of `Chat`, `RouteInv` which places go with which stage of the
  handler, `CountInv` that the slots of every host and both gauges are the cardinalities of
  the requests at those places. A step moves one request, so each set changes by that
  request at most (`Recount`), and each place of the code that takes or returns a slot is
  shown to do just what that move calls for (`Follows`). That no gauge is negative, part of
  the types, follows from the counting and from nothing less. Sets of holders are finite
  though `Requests` need not be.
- `OverloadSidelinesNobody` ([]OverloadNeverSidelines): a request carries a refusal only
  until the rotation has taken it, which is in `ChatInv`.

`ForeignUpstreams_proofs`. ComfyUI first, for every set of chats and of foreign prompts, from `ComfyIInv`
- `ComfyTypeCorrect`, `NothingIsLeftBehind` ([]NothingLeftBehind) and `OthersAreUndisturbed`
  (Spec => OthersUndisturbed, an action property). `QueueInv`: every prompt has one place
  in the queue and does not run while it waits. `ChatInv`: a POST that is still on its way
  or was refused has put nothing into ComfyUI, and a prompt whose end was seen is in no
  queue. Without the second nothing says that a prompt whose end a poll has seen is not queued
  when the tidying call is made. The lemmas `AppendHas`, `TailHas`, `RemoveAtHas` and
  `WithoutHas` say what each operation leaves in the queue.

Then the translated conversation (the two share a module and nothing else), for every set
of tools, number of turns and length of an answer
- `DialogueTypeCorrect` and `StreamsTellTheWhole`, from `DialogueInv`. A stream is told piece
  by piece and forgotten, so the invariant relates what the client has accumulated to the
  answer as it stands (`StreamMatches`): the text is the texts so far, the calls are
  `ToldCalls`, the counter is the number of calls, the last block, if it is a call, is
  entered in `toolIndex` under that call's number, and the tokens are those of the first
  event until the last one. The entry is what an argument fragment needs: without it nothing says
  that a fragment is added to its own call. A whole answer is the same list made at once.
- `ResultsAreAnswered` ([]ResultsFollowCalls) and `ConversationsRoundTrip` ([]RoundTrip), from
  `ConversationInv`. Both speak of the request that was sent, which is not inductive: the
  next upstream may be the other one. `HistoryInv` says of the client's messages that they
  convert soundly for *either* dialect (`Sound`: calls and results in their places, the
  assistant's turns what was said), `SentInv` that what was sent is that conversion, `IdsInv` that
  Anthropic's ids tell the calls of an answer apart, so that a result finds its function's
  name. `AnswerUnderstood`: whatever way an answer came, the calls the client lists are those of the
  answer, in order. `MeaningBack`: converted back, they mean the same. `RoundSound`: an
  answer, the results and perhaps a remark keep a conversation sound; the results of one answer
  share a turn (`RunOfResults`). `TrimSound` and `OpeningsSound` are where a conversation begins.
- `Kept`, `FlattenSeq` and `Converted` are recursive functions. What a longer list adds to
  each is shown by the table of their values and the least place where two tables differ
  (`LeastOf`, from the well-foundedness of strict inclusion on finite sets).

`Ledger_proofs`, for every set of requests, masks, prices and times
- `AnsweredMasksAreKept` (AnsweredMasksHold), from `ListInv` (what was answered is in
  force and in the file, but for the one edit that holds `List.mu`) and `RequestsInv`
  (what a request relied on is still blocked where it is still to be asked).
- `SavedUsageIsKept` (UsageKept), from `FileInv`: while only one save is under way the
  temporary file is its own, broken before the write and whole after it, and the rename
  replaces a file by one that holds at least as much.
- `FailuresAreLogged` ([]FailuresLogged), from `LogInv`: an event belongs to the request that
  has its number, and to no other request that has still to attach a status; a request with a
  number finds its event in the ring until RecentCap later ones have come. So what
  `AnnotateRequest` finds under a number is the caller's own, or nothing (`OwnAnnotated`), and
  a new event pushes out only one that is due (`NewEvent`).
- `LedgerTypeCorrect` ([]LedgerTypeOK), which needs that every aggregate there is (in memory,
  in a save under way, in either file) has its hourly entries under hours of its own:
  whatever is saved is loaded again, and pruning takes an hour from all the series alike
  (`RecordKeepsSeries`).
- `EveryReportAddsUp` ([]ReportsAddUp). A sum over a map obeys its recursion in whatever order
  it is taken, so an event added to one entry is added to the sum; what an entry costs is
  linear in its counters (`CostOfStat`), so costs add up as tokens do, provided no more was
  read from and written to a cache than came in. The invariant says of every aggregate there
  is, in memory, in a save under way and in the files, that it adds up for all time and hour
  by hour (`AddsUp`), and that what it holds of an hour still retained is in that hour's
  series (`UpToDate`). Only `Record` makes an aggregate that was not there before
  (`OnlyRecordMakes`). A late clock or a pruning moves whole hours, in all series alike.
  `charged` is the history both costs are compared with: what each event cost its key.
- `MasksMeanWhatTheySay`. For every mask with a star and every name, `Match`, the scan that
  takes the first place of each part and never goes back, agrees with `Covers`, that there is
  some placing of the parts. What is left after part i is what the placing of the first i
  parts that ends first leaves, and nothing when they cannot be placed (`Best`, kept from part
  to part by `BestNext`); so whatever placing there is of the rest of the mask, it fits in
  what is left. The table of the scan is a recursive function: that it exists, and that `Best`
  holds of every row, are proved of the least row where they would fail (`LeastOf`).

Assumptions: those the modules name (`StoreAssumption`, `HostAssumption`, `OAuthAssumption`,
`CrashAssumption`, `DispatchAssumption`, `RouteAssumption`, `ComfyAssumption`,
`AccountAssumption`, `KeysAssumption`, `GovernanceAssumption`, `TrackerAssumption`,
`UnknownAssumption`, `LedgerAssumption`, `TranslatorAssumption`, `DialogueAssumption`), which
say that the constants have their types, that there is a target to try and a first value of
the clock, and that the marks for "nobody" and "no account" are not callers or accounts;
`LedgerAssumption` also says what calls are possible, `ComfyAssumption` that the requests
enumerated are requests, `TrackerAssumption` that rates and hours are whole numbers,
`TranslatorAssumption` that no client declares a tool by the name of the synthetic one, and
`UnknownAssumption` that no price is configured for "unknown", the name under which what
names no model is reported: it costs its key nothing, and would cost something in the report.
Each is evaluated by TLC in the run of its module.

Model-checked only:
- liveness (EveryCallReturns, EveryRequestEnds, EveryRequestAnswered, EveryChatEnds): it rests
  on fairness and on what is enabled, which are out of the prover's reach.

Every invariant and every action property that a run checks is also a theorem.

## Findings

They are quoted in full in `PROJECT.json`. The first three have a run that finds
the violation; of the others the models show the steps, and the property next to them says
what it exempts.

1. `token_durability`. An answer without `refresh_token` keeps the old one in memory
   (`updateOAuth`) and erases it from the file (the persister saves the answer as it is).
   After a restart the account cannot refresh.
2. `forced_refresh_loser`. Of two requests refused with the same token, the one that
   waited for the other's refresh neither retries nor uses the new token; it sidelines
   the credential the other has just repaired.
3. `cancelled_refresh`. A client that leaves while its request refreshes a token costs
   the credential a cooldown, though dispatch means cancellations to cost nothing.
4. Budgets and rate limits are said to survive a restart. The count of requests let
   through after the last save does not: in one window of a key limited to two, three pass
   (`limits.go:140`). Of cost and tokens the same is true. `RequestsWithinLimit` bounds the
   excess by the requests that were forgotten.
5. The disabled set is shared by all stores and keyed by name, while
   default names repeat in every store: memory and a restart disagree. `account_state` and
   two of the proofs assume unique names.
6. A 5xx that answers the retry without the usage option is relayed
   at once, though a 5xx is documented to fall back while targets are left.
7. The synthetic tool that stands for `response_format` is turned back into
   content in a whole answer, and reaches a streaming client as a call (`stream.go:192`).
   `StreamTellsTheWhole` compares the other answers.
8. The save of the ticker and the one at shutdown can write one
   temporary file at once, and a torn file can become the saved one (`usage.go:623`).
   `UsageKept` says what saves promise as long as they do not overlap.
9. Usage is saved on shutdown before the server drains: what the requests
   it lets finish record is lost (`main.go:529`).
10. Token files are written in place. A process that dies between
    truncation and write cannot start again, nor serve any other account
    (`tokenstore.go:45`).
11. A change of a managed key whose write fails is answered with 404 "no client key
    named ...", though memory has changed and the file has not. A key whose deletion was
    answered so is valid again after a restart. In `KeyGovernance` this is
    `DeleteKey(n, FALSE)` followed by `Restart`.
12. A stream whose body fails, or whose line is too long, ends without the promised
    `[DONE]` (`stream.go:241`).
13. A streamed call without arguments has the arguments "", where the whole answer has
    "{}" (`stream.go:199`).
14. A client that leaves while its prompt is being submitted leaves the prompt in the
    queue (`comfyui.go:275`), and so does a poll that fails. `NothingLeftBehind` claims
    nothing of these.

A success reported late lifts a cooldown that began after the request had taken the
credential. That is documented ("a successful use clears the streak and cooldown
immediately"), so no property forbids it: `OnlySuccessForgives` says that nothing else does.

`handleSearch` is the one handler that does not ask the blocklist. No document says that it
should; the model keeps it as it is.

## Not modelled

`PROJECT.json` gives the reason for each component.

- Anthropic request shaping: headers and prompt text are layout; the placement of at most
  four cache breakpoints is one pure pass.
- Discovery, routing and probes: a probe replaces a list wholesale, and the health it
  records no decision reads.
- Login flows: interactive, one at a time, outside the serving process.
- Quota snapshots and metrics: gauges people read, the last writer wins.
- Configuration, logging, certificates, DNS over HTTPS, dashboard and documentation pages:
  no state that changes while serving.

In the parts that are modelled: message contents, the JSON of dialects, header values,
schemas and sampling parameters, filters and pages of the request log.

## What is left to do

1. The placement of cache breakpoints, checked against the limit of four.
2. Images, Forward and ForwardRaw of the OpenAI-compatible provider as callers of HostGate
   beside Chat.
