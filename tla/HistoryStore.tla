------------------------------- MODULE HistoryStore -------------------------------
(***************************************************************************)
(* What cln-history stores besides identities and samples: forwards        *)
(* counted in buckets, the events of peers and channels, whether a channel *)
(* is still listed, probe results with their hops, and the runs of the     *)
(* collector.  One retention window prunes all of it but the channels.     *)
(*                                                                         *)
(* The collector loop and the notification handlers share one thread; they *)
(* meet at the collector's two RPCs, so whatever a handler stores may fall *)
(* between the time a snapshot carries and the moment it is stored.  A     *)
(* statement or transaction of SQLite is one step.  The wall clock does    *)
(* not go back here (module SampleLog covers that).                        *)
(***************************************************************************)
EXTENDS Naturals, Sequences, FiniteSets, FiniteSetsExt, SequencesExt, Listing

CONSTANTS
  Results,       \* the probe results that are sent, as [status, amount, hops]
  Bucket,        \* FORWARD_BUCKET_SECONDS
  Retention,     \* retention_seconds
  Interval,      \* history-sample-interval
  Timeout,       \* history-rpc-timeout
  MaxLag,        \* bound on the age of a probe result when it arrives
  Scenarios,     \* bounds: the kinds of records of a behaviour, how many, the
                 \* restarts and the time it ends
  None

Status == {"destination_reached", "route_failed", "unexpected_settlement"}

ASSUME ConstantsAssumption ==
  /\ {Bucket, Interval, Timeout} \subseteq Nat \ {0} /\ None \notin Nat
  /\ Retention \in Nat /\ Retention >= Bucket
  /\ MaxLag \in 0..Retention
  /\ Results \subseteq [status : Status, amount : Nat, hops : Nat \ {0}]
  /\ Scenarios \subseteq [kinds : SUBSET {"forward", "event", "probe"}, records : Nat,
                          crashes : Nat, until : Nat]

VARIABLES
  scenario,     \* the member of Scenarios this behaviour is about
  clock,
  due,          \* when the collector's interval fires next
  collected,    \* collected_at of the collection under way, None when idle
  known,        \* TRUE when channel_aliases knows the forwards' channel
  channel,      \* whether channels has a row of it, and its disappeared_at
  pairs,        \* forward_pair_buckets: count by [bucket, name]
  events,       \* channel_events: what the handlers store of peers and of this
                \* channel ("notice"), and its disappearances and returns
  probes,       \* probe_events
  hops,         \* probe_hops, as <<probe id, hop index>>
  runs,         \* collector_runs: success by second
  stored,       \* history: the records stored so far, [kind, ts]
  attempts,     \* history: the outcome of the latest attempt of each second
  begun,        \* history: when the last collection of this process began
  crashes

collector == <<due, collected, begun>>
tables    == <<known, channel, pairs, events, probes, hops, runs>>
vars      == <<scenario, clock, collector, tables, stored, attempts, crashes>>

Minus(x, y)   == IF x > y THEN x - y ELSE 0
Empty         == [x \in {} |-> 0]
Put(f, x, v)  == [y \in DOMAIN f \cup {x} |-> IF y = x THEN v ELSE f[y]]
Only(f, S)    == [x \in DOMAIN f \cap S |-> f[x]]
BucketOf(t)   == (t \div Bucket) * Bucket

(***************************************************************************)
(* prune, and the tables it leaves.                                        *)
(***************************************************************************)

Cutoff(ts) == Minus(ts, Retention)

\* A broken build with an off-by-one.
KeepsAfter(t, ts) == t > Cutoff(ts) \/ Cutoff(ts) = 0

\* Of a row with time t, whether a prune at ts leaves it.
Keeps(t, ts) == t >= Cutoff(ts)

\* The hops that ON DELETE CASCADE leaves of `all`.
HopsOf(kept, all) == {h \in all : \E p \in kept : p.n = h[1]}

\* The tables after `prune` at ts of what a transaction has made of them.
Prune(ts, es, ps, hs, rs) ==
  /\ pairs' = Only(pairs, {k \in DOMAIN pairs : Keeps(k.bucket, ts)})
  /\ events' = {e \in es : Keeps(e.ts, ts)}
  /\ runs' = Only(rs, {t \in DOMAIN rs : Keeps(t, ts)})
  /\ probes' = {p \in ps : Keeps(p.ts, ts)}
  /\ hops' = HopsOf(probes', hs)

\* A record of `kind` with time ts is stored; its number, which grows like the
\* AUTOINCREMENT ids, is Len(stored').
Stored(kind, ts) ==
  /\ kind \in scenario.kinds
  /\ Len(stored) < scenario.records
  /\ stored' = Append(stored, [kind |-> kind, ts |-> ts])

(***************************************************************************)
(* The notification handlers.                                              *)
(***************************************************************************)

\* A broken build that keeps the row it meets.
CountedOnce(count) == count

Counted(count) == count + 1

\* record_forward_event: counted under the identity of its channel or, while the
\* alias is not known, under the alias itself.
RecordForward ==
  LET key == [bucket |-> BucketOf(clock),
              name   |-> IF known THEN "identity" ELSE "alias"]
  IN /\ Stored("forward", clock)
     /\ pairs' = Put(pairs, key,
                     IF key \in DOMAIN pairs THEN Counted(pairs[key]) ELSE 1)
     /\ UNCHANGED <<scenario, clock, collector, known, channel, events, probes, hops, runs,
                    attempts, crashes>>

EventRow(kind, ts) == [n |-> Len(stored'), ts |-> ts, kind |-> kind]

\* record_peer_connection_event, or record_channel_event, which binds the alias
\* of the channel it names.
RecordEvent(binds) ==
  /\ Stored("event", clock)
  /\ events' = events \cup {EventRow("notice", clock)}
  /\ known' = (known \/ binds)
  /\ UNCHANGED <<scenario, clock, collector, channel, pairs, probes, hops, runs,
                 attempts, crashes>>

ProbeRow(r, ts) ==
  [n |-> Len(stored'), ts |-> ts, status |-> r.status, amount |-> r.amount,
   route |-> r.hops]

\* A broken build that commits every statement by itself.
RecordProbeByStatement(r, ts, bad) ==
  /\ Stored("probe", ts)
  /\ Prune(ts, events, probes \cup {ProbeRow(r, ts)},
           hops \cup ({Len(stored')} \X (0..r.hops - IF bad THEN 2 ELSE 1)), runs)
  /\ UNCHANGED <<scenario, clock, collector, known, channel, attempts, crashes>>

\* record_probe_result of a result observed at ts, the emitter's time, which is
\* also the time of the prune.  A bad last hop rolls all of it back.
RecordProbe(r, ts, bad) ==
  /\ ~bad
  /\ Stored("probe", ts)
  /\ Prune(ts, events, probes \cup {ProbeRow(r, ts)},
           hops \cup ({Len(stored')} \X (0..r.hops - 1)), runs)
  /\ UNCHANGED <<scenario, clock, collector, known, channel, attempts, crashes>>

(***************************************************************************)
(* The collector: one loop over a tokio interval that skips missed ticks.  *)
(***************************************************************************)

\* A broken build that catches up on the ticks it missed.
NextDueBurst == due + Interval

\* MissedTickBehavior::Skip: the next multiple of the interval, counted from the
\* tick that has just fired.
NextDue == clock + Interval - ((clock - due) % Interval)

BeginCollection ==
  /\ collected = None
  /\ clock >= due
  /\ collected' = clock
  /\ begun' = clock
  /\ due' = NextDue
  /\ UNCHANGED <<scenario, clock, tables, stored, attempts, crashes>>

\* A broken build that does not replace the run of the same second.
WithRunIgnored(at, success) == IF at \in DOMAIN runs THEN runs ELSE Put(runs, at, success)

\* INSERT OR REPLACE INTO collector_runs
WithRun(at, success) == Put(runs, at, success)

Attempted(success) ==
  /\ collected # None
  /\ collected' = None
  /\ attempts' = Put(attempts, collected, success)

\* A broken build that does not select WHERE disappeared_at IS NULL.
LifecycleUnfiltered(listed) ==
  CASE listed /\ channel.disappeared_at # None -> "reappeared"
    [] ~listed /\ channel.row                  -> "disappeared"
    [] OTHER                                   -> "unchanged"

\* What a snapshot that lists the channel, or does not, finds of it: record_sample
\* and record_disappearances.
Lifecycle(listed) ==
  CASE listed /\ channel.disappeared_at # None               -> "reappeared"
    [] ~listed /\ channel.row /\ channel.disappeared_at = None -> "disappeared"
    [] OTHER                                                 -> "unchanged"

\* The row of the channel after a snapshot at ts.
ChannelRow(listed, ts) ==
  IF listed THEN [row |-> TRUE, disappeared_at |-> None]
  ELSE IF Lifecycle(listed) = "disappeared" THEN [row |-> TRUE, disappeared_at |-> ts]
  ELSE channel

\* listpeerchannels is answered and record_channel_snapshot_at_height commits,
\* with or without a height from getinfo: the channel's row, its event if it has
\* gone or come back, the run and the prune are one transaction at collected_at.
Snapshot(listed) ==
  LET change == Lifecycle(listed)
  IN /\ Attempted(TRUE)
     /\ IF change = "unchanged" THEN UNCHANGED stored ELSE Stored("event", collected)
     /\ Prune(collected,
              IF change = "unchanged" THEN events
              ELSE events \cup {EventRow(change, collected)},
              probes, hops, WithRun(collected, TRUE))
     /\ known' = (known \/ listed)
     /\ channel' = ChannelRow(listed, collected)
     /\ UNCHANGED <<scenario, clock, due, begun, crashes>>

\* The call fails or times out, or the snapshot's transaction fails:
\* record_collection_failure.
CollectionFails ==
  /\ Attempted(FALSE)
  /\ runs' = WithRun(collected, FALSE)
  /\ UNCHANGED <<scenario, clock, due, begun, known, channel, pairs, events, probes,
                 hops, stored, crashes>>

\* The process ends and is started again: the new interval fires at once.
Restart ==
  /\ crashes < scenario.crashes
  /\ crashes' = crashes + 1
  /\ collected' = None
  /\ due' = clock
  /\ begun' = None
  /\ UNCHANGED <<scenario, clock, tables, stored, attempts>>

\* Neither the interval nor the timeout of a call is late.
Tick ==
  /\ clock < scenario.until
  /\ IF collected = None THEN clock < due ELSE clock < collected + Timeout
  /\ clock' = clock + 1
  /\ UNCHANGED <<scenario, collector, tables, stored, attempts, crashes>>

Init ==
  /\ scenario \in Scenarios
  /\ clock = 0 /\ due = 0 /\ collected = None /\ begun = None
  /\ known = FALSE /\ channel = [row |-> FALSE, disappeared_at |-> None]
  /\ pairs = Empty /\ runs = Empty /\ attempts = Empty
  /\ events = {} /\ probes = {} /\ hops = {}
  /\ stored = <<>>
  /\ crashes = 0

Next ==
  \/ Tick
  \/ RecordForward
  \/ \E binds \in BOOLEAN : RecordEvent(binds)
  \/ \E r \in Results, lag \in 0..MaxLag, bad \in BOOLEAN :
       lag <= clock /\ RecordProbe(r, clock - lag, bad)
  \/ BeginCollection
  \/ \E listed \in BOOLEAN : Snapshot(listed)
  \/ CollectionFails
  \/ Restart

Spec == Init /\ [][Next]_vars

(***************************************************************************)
(* aggregate_probe_events: bounds by period and route.                     *)
(***************************************************************************)

\* ORDER BY ts, id
Ordered(rows) ==
  Listing(rows, LAMBDA p, q : p.ts < q.ts \/ (p.ts = q.ts /\ p.n < q.n))

NoProbes(p) == [attempts |-> 0, reached |-> 0, failed |-> 0, settled |-> 0,
                max_success |-> None, smallest_failed |-> None,
                last_success |-> None, last_observed |-> p.ts]

\* map_or(amount, |current| current.max(amount)), and with min.
AtLeast(current, x) == IF current = None \/ x > current THEN x ELSE current
AtMost(current, x)  == IF current = None \/ x < current THEN x ELSE current

\* A broken build that takes the last failure for the smallest.
WithProbeLast(a, p) ==
  [a EXCEPT !.attempts = @ + 1, !.last_observed = AtLeast(@, p.ts),
            !.failed = @ + IF p.status = "route_failed" THEN 1 ELSE 0,
            !.smallest_failed = IF p.status = "route_failed" THEN p.amount ELSE @]

WithProbe(a, p) ==
  LET b == [a EXCEPT !.attempts = @ + 1, !.last_observed = AtLeast(@, p.ts)]
  IN CASE p.status = "destination_reached" ->
            [b EXCEPT !.reached = @ + 1, !.max_success = AtLeast(@, p.amount),
                      !.last_success = AtLeast(@, p.ts)]
       [] p.status = "unexpected_settlement" -> [b EXCEPT !.settled = @ + 1]
       [] OTHER -> [b EXCEPT !.failed = @ + 1, !.smallest_failed = AtMost(@, p.amount)]

GroupOf(p, interval) == [period |-> (p.ts \div interval) * interval, route |-> p.route]

\* One event is counted in its group, which begins with the first of them.
Aggregated(groups, p, interval) ==
  LET g == GroupOf(p, interval)
      a == IF g \in DOMAIN groups THEN groups[g] ELSE NoProbes(p)
  IN Put(groups, g, WithProbe(a, p))

Aggregate(rows, interval) ==
  FoldLeft(LAMBDA groups, p : Aggregated(groups, p, interval), Empty, Ordered(rows))

(***************************************************************************)
(* What status() and metrics() say of the collector.                       *)
(***************************************************************************)

Newest(times) == IF times = {} THEN None ELSE Max(times)

\* SELECT ... FROM collector_runs ORDER BY ts DESC LIMIT 1
LastRun == Newest(DOMAIN runs)

\* SELECT MAX(ts) FROM collector_runs WHERE success = 1
NewestSuccess == Newest({t \in DOMAIN runs : runs[t]})

\* last_successful_collection_age_seconds
CollectionAge == IF NewestSuccess = None THEN 0 ELSE clock - NewestSuccess

(***************************************************************************)
(* Properties.                                                             *)
(***************************************************************************)

Probe == [n : Nat, ts : 0..scenario.until, status : Status, amount : Nat, route : Nat]

Event == [n : 1..Len(stored), ts : 0..scenario.until,
          kind : {"notice", "disappeared", "reappeared"}]

\* The types of the state; a collection never outlives the timeout of its calls.
TypeOK ==
  /\ clock \in 0..scenario.until
  /\ due \in Nat
  /\ collected # None => collected \in 0..clock /\ clock - collected <= Timeout
  /\ known \in BOOLEAN
  /\ DOMAIN pairs \subseteq [bucket : 0..scenario.until, name : {"identity", "alias"}]
  /\ pairs \in [DOMAIN pairs -> Nat \ {0}]
  /\ channel \in [row : BOOLEAN, disappeared_at : 0..scenario.until \cup {None}]
  /\ events \subseteq Event
  /\ probes \subseteq Probe
  /\ hops \subseteq (1..Len(stored)) \X Nat
  /\ DOMAIN runs \subseteq 0..scenario.until
  /\ runs \in [DOMAIN runs -> BOOLEAN]

Window == {t \in 0..scenario.until : t >= Minus(clock, Retention)}

RowsOf(kind) == IF kind = "event" THEN events ELSE probes

\* Nothing is lost within the retention window, whichever of the three times
\* (the clock, collected_at, the emitter's) a record or a prune goes by.
WindowKept ==
  \A i \in DOMAIN stored :
    stored[i].kind # "forward" /\ stored[i].ts \in Window =>
      \E r \in RowsOf(stored[i].kind) : r.n = i /\ r.ts = stored[i].ts

\* And nothing stays beyond it: no row is older than the window of the newest
\* snapshot, though probes arrive late and failed collections do not prune.
AgedOut ==
  LET successes == {t \in DOMAIN attempts : attempts[t]}
      times     == {r.ts : r \in events \cup probes} \cup DOMAIN runs
                     \cup {k.bucket : k \in DOMAIN pairs}
  IN \A t \in times, s \in successes : t >= Cutoff(s)

\* Retention, from both sides.
RetentionExact == TypeOK /\ WindowKept /\ AgedOut

LifecycleEvents == {e \in events : e.kind # "notice"}

\* What the stored events tell of the channel agrees with its row, however
\* collections fail, handlers store between them and both snapshots and late probes
\* prune: disappearances and returns alternate, and the newest one that is stored
\* tells whether, and since when, the channel is gone.  A disappearance leaves the
\* log with the window, but not before, and then its return stands alone.
LifecycleEventsMatch ==
  /\ \A e \in LifecycleEvents :
       LET later == {f \in LifecycleEvents : f.n > e.n}
       IN /\ later = {} =>
               channel.disappeared_at = IF e.kind = "disappeared" THEN e.ts ELSE None
          /\ \A f \in later : (\A g \in later : f.n <= g.n) => f.kind # e.kind
  /\ channel.disappeared_at \in Window =>
       \E e \in LifecycleEvents : e.ts = channel.disappeared_at /\ e.kind = "disappeared"

Count(rows) == MapThenSumSet(LAMBDA k : pairs[k], rows)

\* Forwards add up: over the names under which a channel's forwards were counted
\* before and after its alias was known, a bucket counts each of its forwards, or
\* it is gone as a whole, once it began before the window.
BucketsWholeOrGone ==
  \A b \in {BucketOf(t) : t \in 0..clock} :
    LET counted  == Count({k \in DOMAIN pairs : k.bucket = b})
        forwards == {i \in DOMAIN stored :
                       stored[i].kind = "forward" /\ BucketOf(stored[i].ts) = b}
    IN \/ counted = Cardinality(forwards)
       \/ counted = 0 /\ b \notin Window

\* A probe has all of its hops and no hop is left without its probe, through
\* rolled back results, pruning and the foreign key.
ProbesWhole ==
  /\ \A p \in probes : {h[2] : h \in {x \in hops : x[1] = p.n}} = 0..p.route - 1
  /\ \A h \in hops : \E p \in probes : p.n = h[1]

\* What is reported of the collector is what happened, within the window: no
\* attempt is forgotten or changes its outcome, but for an earlier one of the
\* same second; the last attempt is the last, and the age is that of the newest
\* success, whatever restarts, failures and pruning probes came in between.
HealthHonest ==
  LET successes == {t \in DOMAIN attempts : attempts[t]}
  IN /\ Only(runs, Window) = Only(attempts, Window)
     /\ Newest(DOMAIN attempts) \in Window => LastRun = Newest(DOMAIN attempts)
     /\ Newest(successes) \in Window => CollectionAge = clock - Newest(successes)

\* What there is to say of some probes.
BoundsOf(all) ==
  LET with(s)    == {p \in all : p.status = s}
      amounts(s) == {p.amount : p \in with(s)}
  IN [attempts |-> Cardinality(all),
      reached  |-> Cardinality(with("destination_reached")),
      failed   |-> Cardinality(with("route_failed")),
      settled  |-> Cardinality(with("unexpected_settlement")),
      max_success |-> Newest(amounts("destination_reached")),
      smallest_failed |->
        IF amounts("route_failed") = {} THEN None ELSE Min(amounts("route_failed")),
      last_success |-> Newest({p.ts : p \in with("destination_reached")}),
      last_observed |-> Max({p.ts : p \in all})]

\* The bounds of a route are those of its probes, whatever order they arrived in.
AggregateExact ==
  LET groups == Aggregate(probes, Bucket)
  IN /\ DOMAIN groups = {GroupOf(p, Bucket) : p \in probes}
     /\ \A g \in DOMAIN groups :
          groups[g] = BoundsOf({p \in probes : GroupOf(p, Bucket) = g})

\* However long the calls of a collection take, the next one follows within an
\* interval or a timeout of its beginning, and never within the same second,
\* where its run would replace the other's.
PollsPaced ==
  [][collected = None /\ collected' # None /\ begun # None =>
       clock - begun \in 1..Max({Interval, Timeout})]_vars

================================================================================
