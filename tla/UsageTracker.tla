------------------------------ MODULE UsageTracker ------------------------------
(***************************************************************************)
(* usage.Tracker (internal/usage): what the gateway keeps of the requests  *)
(* it answered.  The aggregates (all time and per hour, by credential,     *)
(* model and client) are saved to usage.json; the log of recent requests   *)
(* is a ring in memory.  Every operation runs under Tracker.mu, so each is *)
(* an operator from one value to the next.                                 *)
(*                                                                         *)
(* Names are sequences of pieces.  Time is in ticks, HourLength of them to *)
(* the hour.  Money is whole: rates are in twentieths of what one token    *)
(* costs, so that the multipliers 0.1 and 1.25 stay exact.                 *)
(***************************************************************************)
EXTENDS Integers, SequencesExt

CONSTANTS
    Pricing,      \* usage.pricing: model name or prefix of one -> rates
    HourLength,   \* ticks to the hour
    Retention,    \* retentionHours, in ticks
    RecentCap     \* usage.recent_log

Rates == [input : Nat, output : Nat, request : Nat, cacheRead : Nat, cacheWrite : Nat]

ASSUME TrackerAssumption ==
    /\ IsFiniteSet(DOMAIN Pricing) /\ DOMAIN Pricing \subseteq Seq(STRING)
    /\ \A name \in DOMAIN Pricing : Pricing[name] \in Rates
    /\ \A name \in DOMAIN Pricing : Pricing[name].input % 20 = 0
    /\ HourLength \in Nat \ {0} /\ Retention \in Nat /\ Retention >= HourLength
    /\ RecentCap \in Nat \ {0}

Fields == {"requests", "errors", "input", "output", "read", "write", "extra"}
NoUsage == [field \in Fields |-> 0]

\* apply and apply2: a Stat takes in another.
Plus(stat, more) == [field \in Fields |-> stat[field] + more[field]]

-----------------------------------------------------------------------------
\* priceFor: the longest configured prefix; a name is the longest prefix of itself.
PricedAs(model) == {name \in DOMAIN Pricing : name # <<>> /\ IsPrefix(name, model)}
Longest(names) == CHOOSE name \in names : \A other \in names : Len(other) <= Len(name)
PriceFor(model) == Pricing[Longest(PricedAs(model))]

Between(low, n, high) == IF n < low THEN low ELSE IF n > high THEN high ELSE n
Rate(own, byDefault) == IF own = 0 THEN byDefault ELSE own

\* Cache reads and writes at their rates, the rest of the input at the plain one.
InputCost(price, stat) ==
    LET read  == Between(0, stat.read, stat.input)
        write == Between(0, stat.write, stat.input - read)
    IN  (stat.input - read - write) * price.input
        + read * Rate(price.cacheRead, price.input \div 10)
        + write * Rate(price.cacheWrite, (price.input * 5) \div 4)

ModelCost(model, stat) ==
    IF PricedAs(model) = {} THEN stat.extra
    ELSE LET price == PriceFor(model)
         IN  InputCost(price, stat) + stat.output * price.output + stat.extra

EventStat(e) == [NoUsage EXCEPT !.input = e.input, !.output = e.output, !.read = e.read, !.write = e.write]

EventCost(e) ==
    IF e.reported > 0 THEN e.reported
    ELSE ModelCost(e.model, EventStat(e))
         + (IF PricedAs(e.model) # {} /\ ~e.error THEN PriceFor(e.model).request ELSE 0)

\* Mutant: only what is priced by tokens is kept.
FeelessStatOf(e) ==
    [EventStat(e) EXCEPT !.requests = 1, !.errors = IF e.error THEN 1 ELSE 0]

\* What Record adds of an event: the part of its cost that is not priced by tokens is
\* fixed now.
StatOf(e) ==
    [EventStat(e) EXCEPT !.requests = 1, !.errors = IF e.error THEN 1 ELSE 0,
                         !.extra = EventCost(e) - ModelCost(e.model, EventStat(e))]

-----------------------------------------------------------------------------
(***************************************************************************)
(* The aggregates.  charged is what no Tracker has: the sum of EventCost   *)
(* over the events of each hour, for the reports to be compared with.      *)
(***************************************************************************)
Dimensions == {"credential", "model", "client"}
Nothing == <<>>   \* an empty map
NoAggregates == [totals |-> NoUsage, by |-> [d \in Dimensions |-> Nothing], hours |-> Nothing,
                 hourly |-> [d \in Dimensions |-> Nothing], charged |-> Nothing]

Unknown == <<"unknown">>
Known(name) == IF name = <<>> THEN Unknown ELSE name
Key(d, e) == CASE d = "credential" -> Known(e.credential)
               [] d = "model"      -> Known(e.model)
               [] d = "client"     -> <<e.client, Known(e.model)>>
Counted(d, e) == d = "client" => e.client # <<>>

\* What names no model costs nothing by its tokens; it is reported under Unknown, at the
\* price of that.
ASSUME UnknownAssumption == PricedAs(Unknown) = {}

GetOr(map, key, none) == IF key \in DOMAIN map THEN map[key] ELSE none
Put(map, key, value) == [k \in DOMAIN map \cup {key} |-> IF k = key THEN value ELSE map[k]]
AddTo(map, key, stat) == Put(map, key, Plus(GetOr(map, key, NoUsage), stat))

HourOf(now) == now - (now % HourLength)
Since(map, cutoff) == [hour \in {h \in DOMAIN map : h >= cutoff} |-> map[hour]]

\* pruneBuckets, run when an hour of the series is new, on all four series.
Pruned(map, fresh, now) == IF fresh THEN Since(map, now - Retention) ELSE map

\* Record: now was read before the lock was taken.
Record(usage, e, now) ==
    LET hour   == HourOf(now)
        fresh  == hour \notin DOMAIN usage.hours
        stat   == StatOf(e)
        hourly(d) == LET kept == Pruned(usage.hourly[d], fresh, now)
                     IN  IF Counted(d, e)
                         THEN Put(kept, hour, AddTo(GetOr(kept, hour, Nothing), Key(d, e), stat))
                         ELSE kept
    IN  [totals |-> Plus(usage.totals, stat),
         by     |-> [d \in Dimensions |-> IF Counted(d, e) THEN AddTo(usage.by[d], Key(d, e), stat)
                                                           ELSE usage.by[d]],
         hours  |-> AddTo(Pruned(usage.hours, fresh, now), hour, stat),
         hourly |-> [d \in Dimensions |-> hourly(d)],
         charged |-> Put(usage.charged, hour, GetOr(usage.charged, hour, 0) + EventCost(e))]

-----------------------------------------------------------------------------
\* entries, with the costs Snapshot and clientReportFromModels put on them.
Sum(map) == [field \in Fields |-> SumFunction([key \in DOMAIN map |-> map[key][field]])]
ModelOf(d, key) == IF d = "client" THEN key[2] ELSE key
CostBy(d, map) == SumFunction([key \in DOMAIN map |-> ModelCost(ModelOf(d, key), map[key])])

Report(totals, by) ==
    [totals |-> totals, by |-> by, cost |-> CostBy("model", by["model"]),
     clientCost |-> CostBy("client", by["client"])]

Snapshot(usage) == Report(usage.totals, usage.by)

\* sumWindowedBuckets
SumHours(series) ==
    LET keys == UNION {DOMAIN series[h] : h \in DOMAIN series}
    IN  [key \in keys |-> Sum([h \in {x \in DOMAIN series : key \in DOMAIN series[x]} |-> series[h][key]])]

SnapshotWindow(usage, now, window) ==
    IF window <= 0 \/ window >= Retention THEN Snapshot(usage)
    ELSE Report(Sum(Since(usage.hours, now - window)),
                [d \in Dimensions |-> SumHours(Since(usage.hourly[d], now - window))])

-----------------------------------------------------------------------------
(***************************************************************************)
(* The recent-request log: events with consecutive numbers, the last       *)
(* RecentCap of them kept.  by stands for the caller's address, agent and  *)
(* name; status is 0 until the answer is attached.                         *)
(***************************************************************************)
EmptyLog == [recent |-> {}, seq |-> 0]

RecordRequest(log, event) ==
    [recent |-> {e \in log.recent \cup {[event EXCEPT !.seq = log.seq + 1]} :
                    e.seq > log.seq + 1 - RecentCap},
     seq |-> log.seq + 1]

Attach(e, status) == [e EXCEPT !.status = status, !.error = @ \/ status >= 400]

\* Mutant: the newest event is taken for the request's own.
LastAnnotateRequest(log, seq, status) ==
    IF seq = 0 THEN log
    ELSE [log EXCEPT !.recent = {IF e.seq = log.seq THEN Attach(e, status) ELSE e : e \in @}]

\* A number of 0, or one the ring has dropped, changes nothing.
AnnotateRequest(log, seq, status) ==
    IF seq = 0 THEN log
    ELSE [log EXCEPT !.recent = {IF e.seq = seq THEN Attach(e, status) ELSE e : e \in @}]
=============================================================================
