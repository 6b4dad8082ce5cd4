# Verification of cln-exporter and cln-history

TLA+ models of the two Core Lightning plugins of this repository, their TLC
instances, and theorems about them checked by TLAPS. Paths such as `db.rs` and
`model.rs` are under `src/bin/cln-history/`; `events.rs`, `metrics.rs`,
`plugin_metrics.rs` and `rpc.rs` are under `src/`.

## 1. The system

**cln-history** keeps a compact history of a node's channels in SQLite. One
thread (`tokio`, `current_thread`) runs

* the collector: every sample interval `collect_once` reads the clock, awaits
  `listpeerchannels` and `getinfo`, and stores the answer in one transaction;
* the notification handlers (`channel_state_changed`, `forward_event`,
  `connect`, `disconnect`, `zappit_probe_result`), each stamped on arrival;
* the query RPCs (`cln-history-*`, `history-metrics`), each one synchronous call.

No `record_*` method or query awaits, so each is atomic for the others; what
interleaves is the *order* of handlers, the collector's wait between reading the
clock and storing, the pages of one read, and crashes, which drop an open
transaction.

**cln-exporter** renders Prometheus metrics. A scrape awaits RPCs concurrently
with other scrapes and with notifications; the state that lives between scrapes
is the event counters and the plugin discovery cache, each behind a lock.

### Components

| component | state | operations | what is hard | correct when |
|---|---|---|---|---|
| channel identity (`db.rs`, `model.rs`) | `channels`, `channel_aliases`, lifecycle rows of `channel_events` | record a snapshot, record a state change, resolve an alias | identifiers change in splices; snapshots and events see different identifiers; peers choose remote aliases; rollback half-way; pruning of events, not of channels | an alias leads one way and for ever to the same identity; channels are merged only where a reported value or a nameless position is the same; the active set follows complete snapshots, and what is stored of lifecycle events agrees with it |
| sample log (`db.rs`) | `channel_samples` | insert on change or checkpoint, prune | clock steps, retention edge, checkpoint boundary | every retained observation can be read back; the log is sparse and fresh; pruning leaves one baseline |
| history queries (`db.rs`) | a cursor held by the caller | a page of samples, HTLC samples, events, pairs, probes | the table grows between pages; time order against id order; baselines; buckets | following the cursors yields everything, once |
| collector and handlers (`main.rs`) | the interval and the clock it read | `collect_loop`, `collect_once`, handlers | timestamps older than their commit, RPCs longer than the interval, failures, restarts | collections are paced; what is reported of them is what happened |
| forward pairs (`db.rs`) | `forward_pair_buckets` | count a forward, aggregate, prune | aliases bound after the fact, three clocks against one cutoff, offset cursors | a bucket counts all its forwards or is gone; closed periods are listed once |
| peer and probe events (`db.rs`) | `channel_events`, `probe_events`, `probe_hops` | record, prune, aggregate | the emitter's clock, late results, a bad hop half-way | probes are whole; bounds of a route are those of its probes |
| status, metrics (`db.rs`) | `collector_runs` | record a run, summarise | two runs in one second, pruning by a probe's time | last run, newest success and age are the real ones within the window |
| schema, migration (`db.rs`) | `schema_meta`, the tables' columns | `connection`, `migrate` | interruption between any two statements, files of every release | no history lost or invented; supported files open in the end, others are left alone |
| event counters (`events.rs`, `metrics.rs`) | bounded maps, histograms, connections, block gauges | one notification, render | full maps, repeated and unannounced events, restart, a clock that is set back | bounded, nothing dropped, ratio a ratio, times follow the clock |
| discovery cache (`plugin_metrics.rs`) | cached list and its age | `methods`, `invalidate` | the lock is released during the RPC; timeouts | staleness bounded; wrong only after a race; converges |
| plugin metrics validation and rendering (`plugin_metrics.rs`, `metrics.rs`) | the names of one scrape | validate, render | rejection as a unit, collisions, the tracker fallback | a rejected plugin leaves no trace; a name has one writer |
| built-in collectors (`metrics.rs`) | none | render RPC answers | partial failure, answers of different blocks, timeouts | one failing RPC fails one collector; deadlines are counted; the scrape ends in time |
| HTTP server, start-up (`main.rs`) | none | options, listener | – | – |

`PROJECT.json` lists the hazards of each with the line where they bite.

## 2. Modules

| module | models | checked by |
|---|---|---|
| `IdentityDirectory` | abstract: a directory of aliases that only grows | `identity` (refinement), proof |
| `ChannelIdentity` | tables of identities, snapshots as transactions, events | `identity`, `identity_fracture`, proofs |
| `MCChannelIdentity` | two channels of one peer, and three regimes of what their reports may hold | – |
| `ChannelIdentityProofs` | the alias table, the active channels, refinement of the directory, separation, anchored channels | TLAPS |
| `SampleHistory` | abstract: observed values, forgotten by age only | `samples` (refinement), proof |
| `SampleLog`, `MCSampleLog` | `channel_samples` as a change-only log with retention | `samples`, proofs |
| `SampleLogProofs` | the rows as a log, refinement of the history, baselines | TLAPS |
| `HistoryStore`, `MCHistoryStore` | forwards, events, probes and collector runs, a channel's disappearances and returns, the collector's loop, retention, aggregation | `store`, proofs |
| `HistoryStoreProofs` | retention, lifecycle events, sums of buckets, whole probes and their aggregate, health, pace | TLAPS |
| `HistoryPages`, `MCHistoryPages` | the pages of every history query under concurrent writes | `pages`, `pages_*`, proofs |
| `HistoryPagesProofs` | prompt events, read-back, buckets and closed periods, page by page | TLAPS |
| `Listing` | `ORDER BY`: a finite set as a sequence, used by the two above | `store`, `pages` |
| `SchemaMigration`, `MCSchemaMigration` | opening and upgrading the database file | `schema`, proofs |
| `SchemaMigrationProofs` | interrupted upgrades of any files | TLAPS |
| `DiscoveryCache` | `Registry` with concurrent scrapes | `discovery`, `discovery_lost`, proofs |
| `Scrape`, `MCScrape` | one scrape: its calls, plugin metrics, what is written | `scrape`, proofs |
| `ScrapeProofs` | deadlines of a scrape, whole sources, one writer of a name, sums of balances | TLAPS |
| `EventCounters`, `MCEventCounters` | the counters of notifications | `counters`, proofs |
| `NotificationProofs` | the counters (bounds, flows, histograms, connections) and the discovery cache (bounded staleness, exact unless raced) | TLAPS |
| `FoldTheorems` | what folds and sums compute for every finite set, and listings in an order | TLAPS |

The components meet in the tables and at the collector's two RPCs. `HistoryStore`
composes the collector with the handlers and with the reports on both;
`HistoryPages` composes one table's writers with a reader; `ChannelIdentity`
composes snapshots with events, and what follows from a channel being listed or not
is in `HistoryStore`, where events are pruned. `Scrape` takes the list of methods that
`DiscoveryCache` offers as given.

### ChannelIdentity

`aliases` is `channel_aliases`, a function from its primary key `(alias_type,
alias)` to a key. `channels` says which keys are present. `db` holds the committed
tables, `tx` those the open transaction sees. `BeginSnapshot`, `RecordSample`
(one entry of the response: `resolve_sample_identity`, `record_sample`),
`FinishSnapshot` (`record_disappearances` and the commit) and `Rollback` are
`record_channel_snapshot_at_height`; the prune before its commit takes no row of
these two tables, and the rows that it does take are `SampleLog`'s and `HistoryStore`'s; `RecordChannelEvent` is
`record_channel_event`. The snapshot is cut into a step per entry so that a
failure or a crash can fall between any two; no other handler runs while it is
open, as in the code. `resolve_alias` is a *set* of answers (`Resolve`), because
its `ORDER BY` leaves ties: that the set has at most one element is a property,
not an assumption of the model. `recorded`, `carried`, `lastSample` and `latest` are
history: under which key, and with which SCID, entries of a channel are stored, what a
channel's stored entries could be told by (the values they list, and their position
while they have no name), the latest sample of each channel, and the keys of the last
complete snapshot.

Two assumptions limit the reports: a value that is reported under one kind of
identifier is not reported under another (`KindAssumption`: a SCID is no channel
ID), and identifiers differ from the keys the code invents (`pending:…` and the
peer ID) and from an absent field.

### SampleLog

One channel's rows are a set of `[id, ts, value]`; a value stands for all the
columns `ChannelSample::eq` compares. `Snapshot(o)` is the whole of a snapshot:
detect the change, insert, prune. `seen` and `last` are history. `SetClockBack`
is the wall clock, which `now()` reads, being set back; each scenario says by how
much, and the properties that need a steady clock (`Steady`) say so.

### HistoryStore

`pairs`, `events`, `probes`, `hops` and `runs` are the tables
`forward_pair_buckets`, `channel_events`, `probe_events`, `probe_hops` and
`collector_runs`, `channel` is one row of `channels` with its `disappeared_at`. An event
is what a handler stores (`notice`) or one that a snapshot stores of the channel
(`Lifecycle`: it was absent and is listed, or present and is not). `BeginCollection` is the interval firing and the clock being
read; `Snapshot` and `CollectionFails` are what `collect_once` ends in, up to
`Timeout` later, and every handler (`RecordForward`, `RecordEvent`,
`RecordProbe`) may come in between. `Prune` is `prune` on all of these tables with
its one cutoff, from the snapshot's `collected_at` or from a probe's
`observed_at`; `channel_samples` is `SampleLog`'s. `known` says whether the
forwards' channel has its alias bound, which decides the name they are counted
under. `NextDue` is tokio's `MissedTickBehavior::Skip`. `Aggregate` is
`aggregate_probe_events`, written as the loop it is and compared with a
definition by sets. `stored`, `attempts` and `begun` are history.

Probes arrive at most `MaxLag` late and never ahead of the clock; the window is
at least a lag and a bucket long, as 30 days and minutes are.

### HistoryPages

`rows` is the table being paged, a sequence indexed by id. `BeginCollect` and
`Commit` are the two ends of `collect_once`, with the RPCs between them;
`Notify` stores an event, a forward or a probe at once, under the time that each
has (`Times`). `FirstPage` chooses a range and `NextPage` passes the cursor on; an
open range ends at the time of each page. `load_samples` is `SampleResult` (range,
cursor, baselines on the first page, buckets, order by id), `events` and raw
`probe_events` are `EventResult` (order by time, cursor on id), `forward_pairs`
and aggregated `probe_events` are `GroupResult`: the list of groups, each shown as
the set of rows it sums up, with an offset as the cursor. `horizon` is history: the
time from which on writers could still add to the range when it was first read.
`Queries` is any set of reads with any page sizes, intervals and bounds
(`QueriesAssumption`). Ranges lie within the retention window, filters are left out
(they remove rows, whatever the page), and the clock does not go back.

### SchemaMigration

`disk` is the file as committed, `tx` as the open transaction sees it. Every
statement of `connection` and `migrate` is a step; `Interrupt` is a crash or a
failed statement between any two. A table is *wide* when it has the columns of
the current release, and a row has a *detail* that only wide tables can store, so
that inventing one shows. `MCFiles` holds the files of all releases, complete or
with one table as the tests make them, and those of releases that died before
stamping them. `Record` is the use of an opened file, `written` and `seeds` are
history.

### DiscoveryCache

`methods()` is cut where it releases the lock: `Hit`, or `Miss`, `Help` (the node
answers), and `Store`, `Refuse` or `Fail`. Ages are counted up to a bound past
which they cannot matter. `raced` is history: a notification was handled while
this answer was in flight. The names every state machine has carry the prefix `DC`
here, because `NotificationProofs` extends this module beside `EventCounters`.

### Scrape

`answer` and `plugin` say how each call stands, `clock` is the time since the
scrape began. Calls end in any order (`Answered`, `Failed`, `Discovered`,
`PluginAnswered`, `PluginFailed`), or at their deadline (`TimesOut`). `Join` is
`render` up to its second await, `Finish` the rest. `output.written` is the set of
names with their writer; a name is the sequence of its parts, because
`cln_tracker_bwatch_height` can be spelled by two namespaces. Node and tracker
write their real names, where plugins are tried against them; the other
collectors write one name each. Values are abstracted but for two that relate
several answers or many entries: HTLCs near their expiry (`Near`, with the height
of another call) and the balances of bookkeeper (`Balances`): any accounts, each with
natural amounts by coin.

### EventCounters

One action per topic; every notification is one step because the lock is held
throughout and nothing is awaited under it. `truth` is history. Field values,
labels and channels are model values; a forward moves 2 msat in, 1 out, 1 fee, and
either side of it may be missing: the outbound one is then skipped, the inbound one
has a flow under `unknown`. `now()` is the wall clock, which `SetClockBack` sets back
by as much as the scenario allows.

## 3. Runs

| run | shows | bounds, and why they are enough |
|---|---|---|
| `identity` | the alias table stays sound and implements the directory, the active set follows snapshots, channels stay apart unless a value or a position connects them; a channel keeps its identity while all that is stored of it carries one SCID | two channels of one peer, two channel IDs for `a`: a change of identifier, a collision and a reordering need no more, and the two are interchangeable (`SYMMETRY`); in one regime the SCID stays, in the second every identifier may change or be missing, in the third both channels may be nameless in any position and share a remote alias |
| `identity_fracture` | *violation*: a notification with only a new channel ID starts a second identity | – |
| `samples` | refinement of the history, changes recorded, fresh, sparse, one baseline | one channel (channels are independent in the log), two values; 7 s for a checkpoint of 2 and a window of 3, and 5 s with a clock that jumps back by up to 2 s |
| `store` | nothing lost in the window or kept beyond it, lifecycle events agree with the channel's row, buckets and probes whole, health honest, bounds exact, polls paced | window 3, bucket 2, interval 2 and timeout 4 in 6 s: buckets that straddle the cutoff, calls over two intervals, two windows; three forwards with a restart, three events with a restart (a channel leaves, comes back and leaves again, or its disappearance is pruned before it comes back), or two records of probes and forwards or of probes and events |
| `pages` | the range can be rebuilt from the pages, buckets, events, probes and closed periods come once | two keys, 4 rows, pages of 1, 2 and 4 rows or groups, a snapshot or probe up to 1 s late (0 for events and raw probes); ranges with and without an end; periods that fit and do not fit the forward buckets |
| `pages_events_late` | *violation*: an event stored late is skipped | – |
| `pages_htlc_buckets` | *violation*: an HTLC bucket appears on two pages | – |
| `schema` | no history lost or invented, the stamp can be trusted, foreign files are refused, upgrades end | every release from 0 (unknown) to 6 (newer), two channels that share an identifier or not, two rows with or without a detail, two interruptions: one of an upgrade and one of its repetition |
| `discovery` | bounded staleness, wrong only after a race, convergence | two scrapes, two methods (one over the limit of 1), TTL 2, timeout 1, all under the fairness below |
| `discovery_lost` | *violation*: an invalidation during a call is lost | – |
| `scrape` | isolation, rejection as a unit, one writer of a name, deadlines, balances, time | timeout 2, warning 2 with HTLCs below, at and above it and 2 blocks during the scrape; three plugins with valid, invalid and conflicting answers at bounds of 2; every three accounts of five kinds for a bound of 1 |
| `counters` | bounded maps, flows, histograms, payments, connections | bounds of 2 with 3 fields, channels and peers; 2 invoices for 1 place; 4 to 6 notifications, 3 s and a clock set back by up to 2 s, restarts |

An invariant that has several sides is checked as a conjunction of named parts:
`ChangeOnly`, `CappedWithoutLoss`, `PaymentsExact`, `StampTrusted`,
`RetentionExact` and `AllOrNothing`, of which most contain their module's type
invariant.

`samples`, `store`, `counters` and `scrape` choose one of several scenarios in
`Init`: bounds, or inputs, that put one part of the module under load at a time.

The violation runs are findings: each contradicts a sentence of the README,
quoted in `PROJECT.json`. The passing runs are restricted where the code relies
on its surroundings, and only there:

* identity is preserved while all samples and events that are stored of a channel
  carry one SCID (see `identity_fracture` for what happens without);
* recording of changes is checked while the wall clock does not go back:
  `latest_sample` is the row with the largest `ts`, not the newest one. `store` and
  `pages` have such a clock too;
* a value is reported under one kind of identifier only (`KindAssumption`). The code
  does not enforce it: a peer may choose a remote alias that is another channel's
  SCID, and that alias could then lead two ways;
* channels stay apart in `identity` unless a value that both listed, or the position
  at which both were nameless, connects them. Where one does, the code merges them:
  a nameless channel has the key `pending:{peer}:{index}`, whose index depends on the
  order of the response, and a remote alias is whatever the peer says. Events that name
  no channel are filed under the peer;
* a return whose disappearance is older than the retention stands alone among the
  lifecycle events: `prune` deletes events by age and no row of `channels`;
* the connected seconds of a peer fall when the wall clock is set back, by no more
  than that: `collect_events` adds the time since the connect to what is stored, and renders
  the sum as a counter;
* `pages` gives events and raw probes no lag (see `pages_events_late`), HTLC
  buckets one page (see `pages_htlc_buckets`), and raw channel reads a page that
  holds all baselines: `load_samples` adds them to the first page only and then
  cuts it;
* `OneWriter` excepts the tracker fallback against a plugin whose namespace
  extends `tracker`: `collect_tracker` is rendered last and without the check;
* `InTime` counts from the end of discovery. With a discovery that is not cached
  a scrape can take three timeouts, 15 s by default, where the README's
  Prometheus configuration gives it 10 s;
* health is honest *within the window*: the prune that a probe triggers after an
  outage longer than the retention removes the last success, and the age is 0.

**Deadlock** is checked in every run but `store` and `scrape`, which end: the
bound on time is reached, or the scrape is over.

**Fairness.** `discovery`: time passes; Prometheus keeps scraping (weak fairness
of `Hit \/ Miss`); the runtime runs ready tasks; and of infinitely many calls not
all fail (strong fairness of `Help` and `Store`, as a failure of a single call can
disable either). `schema`: the collector opens the file at every interval and no
statement waits for anything but SQLite (weak fairness of `Migrate`); interruptions
are bounded. `scrape`: time passes, and tokio ends a call at its deadline and
resumes the join (weak fairness of `Tick`, `TimesOut`, `Join`, `Finish`); that the
node ever answers is not assumed. Nothing else is live by itself: cln-history
writes only when the node answers or notifies.

## 4. Proofs

The theorems hold for every value of the constants under the named assumptions of
each module (`KindAssumption`, `ConstantsAssumption`, `FilesAssumption`, ...),
which TLC evaluates on the instances. Every proof has the same shape: an inductive
invariant `IInv`, its initial case, one lemma per action and part, and the
properties from `IInv`. What `IInv` adds to the properties of the run is the
interesting part, and is told here.

*The alias table* (`ChannelIdentityProofs`). That resolution is a function is not
inductive: `record_alias` could bind a value under a second kind to another key.
It cannot because of three further facts, which with it make `SoundTable`:
every key a row leads to is a root, with a row that leads to itself (`Rooted`);
a row is the identity row of its own key or some report's value under that kind
(`Kinded`); and a value that has rows has one that is not an identity row
(`Named`), which by `KindAssumption` is the row of the value's own kind, so a
new report finds it and `ON CONFLICT` keeps its key. `IInv` is `TypeOK` with
`SoundAliases`; the step is proved action by action, with `RecordAliasesSound`
for `record_alias` and one lemma each for what samples and events insert. From
it follow `AliasesStaySound`, `TypeCorrect` and `ResolutionIsFunctional`.

*Snapshots and the directory* (`ChannelIdentityProofs`). `Lifecycle` carries both
sides of an open transaction: the keys recorded so far are active in `tx`, and `db` is
as the last commit left it. It yields `ActiveFollowsSnapshots`. For the directory,
`Ahead` says that an open transaction extends the committed aliases; a commit is then a
`Bind` step of `IdentityDirectory` and every other step a stutter or an extension:
`DirectoryIsImplemented`.

*Separation* (`ChannelIdentityProofs`). `HistoriesStayApart` proves `NoMerge` for any
node, with no condition on what its channels share and without `KindAssumption`. It is
about sets of channels: that two channels have nothing in common does not keep them
apart, as a third may have something of both. So `Unconnected` takes a set S whose
members have no mark in common with any channel outside, and `Separation` says of every
such set that rows of its marks lead to its marks, and that entries of its channels are
stored there or under a peer. The induction works because marks are only added: a set
that is unconnected now was so in every earlier state (`Apart`).

*Anchored channels* (`ChannelIdentityProofs`). `AnchorsKeepIdentity` proves under
`OwnedIds` what is left of the README's sentence that `identity_fracture` refutes.
That two samples in a row have one key is no invariant; `AnchorsHold` is the one
behind it: while everything stored of a channel carries one SCID, the rows that lead
to a value of the channel are those of its values, all of them lead where the SCID
leads (`AnchoredTable`), and its latest sample is stored there. Both handlers fit one
description of how they choose a key (`Chooses`): a row of the channel gives it, or
the SCID has no row and the key is a value of the channel or made up. So either the
channel has no row at all, or the key is where the SCID leads already. The rows of
another channel stay away, because `OwnedIds` keeps its values, and thus its keys, out
of the anchored one's; channels without any identifier are allowed here.

*The sample log* (`SampleLogProofs`). While the clock is steady the rows of a
channel *stand for* what was observed (`Stands`): ids and times agree in order, so
the row `latest_sample` finds is the row inserted last; neighbours differ or are a
checkpoint apart; the newest row has the value of the last observation and is
younger than a checkpoint; and at every promised time there is a row to read. Of
these the order is what makes change detection right: without it, which a clock set
back destroys, `latest_sample` compares with the wrong row. From `IInv` follow
`LogIsChangeOnly`, `ChangesAreRecorded` and the refinement `HistoryIsImplemented`,
in which a snapshot is an observation of `SampleHistory` followed by its
forgetting, and everything else a stutter. `BaselineStays` needs the types only
and holds with the clock set back.

*The store* (`HistoryStoreProofs`). Retention from both sides is inductive once the
histories are bounded by the clock: no attempt and no record is later than the
clock, and a collection under way began no earlier than any attempt, so that a
failure stored at `collected_at` lies in the window of every success. A prune by a
probe's time is a prune by a time in the past, which spares what the clock's window
holds (`WindowMoves`). `ForwardsAddUp` is about sums over a map that loses keys and
gains them; `AllCounted` states it for buckets that have not begun too. A bucket
that takes a forward began within a bucket's length, and is in the window because
the window is no shorter (`Retention >= Bucket`): so it never takes one after it was
pruned. `EventsTellTheStory` needs that the lifecycle events rise in id and time alike
(`Rising`), which they do because each has the time of a successful collection and
those begin one after the other: a prune then cuts the log at its start only
(`LogPruned`), and the newest event either stays or goes with all before it, so that the
row of the channel is not contradicted. `Whole` carries probes with their hops through the foreign key.
`AggregatesAreExact` compares the loop of `aggregate_probe_events` with sets. The
ids tell probes apart (`ProbesApart`), so that ordering by time and id lists each once
(`OrderedLists`); the fold is unfolded into the groups after each probe, and after
every one of them the groups are those of the probes so far, each with their counts,
extremes and newest times (`BoundsAdd`): an order is chosen and does not matter.
`CollectionsArePaced` rests on `Paced`: the next tick of the interval is later than
the beginning of the collection by one interval at most, and the clock is within
that or the timeout.

*The migration* (`SchemaMigrationProofs`). `TransactionOf` says what `migrate` has
done at each statement: the columns widened so far, the rows untouched, the seeded
aliases, the stamp last. With it a rolled back upgrade leaves the file that was
read, and a commit leaves a complete one (`StampCanBeTrusted`,
`UpgradesKeepHistory`, `ForeignFilesStay`). `NoDetail` is why a rebuilt table may
fill the new columns with NULL: a narrow table has nothing to lose there; `SeedsOf`
is why `INSERT OR IGNORE` may ignore: a file to be seeded has no aliases yet.
`FilesAssumption` says what the releases left: files before version 2 have no
aliases, and `(alias_type, alias)` is a key.

*The pages* (`HistoryPagesProofs`). Everything follows from one number. `Horizons`
says of a read's `horizon`, taken at its first request, that rows stored since and rows
still to come, a snapshot in flight included, are not older: what ended before it is
settled. How a page is cut from a list is said once, without the list's order
(`IsLeast` for ids, `FoldTheorems` for ranks): a page has the least of what is beyond
the cursor, up to its own last, and everything if nothing remains.

* `PromptEventsAreListed` (hypothesis: events and raw probes are stored in the second
  of their time, lag 0) and `StatesReadBack` (hypothesis: raw channel reads have pages
  with room for a row of every channel). In prompt reads times rise with ids
  (`Sorted`), so the order of a page is the order of its cursor, and a page goes on
  above all that was shown (`Rising`); `Through` is what is inductive then: all of the
  range up to the cursor has been shown, and with it the channels' last states before
  the range.
* `BucketsAreShownOnce` (hypothesis: HTLC reads with an interval fit one page). The
  page aggregates only what is beyond the cursor; `Shows` says that over a settled
  range this makes no difference, because the row that stands for a bucket of channels
  is its last: it is beyond the cursor exactly when its bucket is still to come. For
  the busiest row of HTLCs that is false, which is the run `pages_htlc_buckets`.
* `ClosedPeriodsAreOnce` (no hypothesis). The cursor is an offset into a list that
  every page computes anew. `Placed` says that a group no writer can join has one place
  in all of these lists (`Spot`), since groups that may still come or change belong to
  later periods, that the pages so far hold it there when they reach it, and that
  every other group shown is disjoint from it.

The hypotheses are the conditions of the run `pages`, and each is necessary: the two
runs that drop one are the findings about pages, and without room for the baselines a
page cuts some of them off.

*The discovery cache* (`NotificationProofs`). `Aged` bounds a list's age by the
time its call took and then by the time in the cache; `Accurate` states
`ExactUnlessRaced` for the answers in flight as well. `StalenessIsBounded` and
`RacesAreTheOnlyLies` follow for any number of scrapes.

*The counters* (`NotificationProofs`). A bounded map is explained by what arrived:
an entry is complete, and what has no entry has not arrived or met a full map
(`Counted`, `Carried`, `Connected`). Completeness alone is not inductive: a channel
that was cut off could get an entry later, with part of its flow; it cannot,
because a full map stays full. `NothingIsDropped`, `FlowsAreWhole`,
`PaymentsAreExact` and `ConnectionTimeFollowsTheClock` follow for any bounds and any
sequence of buckets; the last for a clock set back too, as an entry shows no more time
than its clock allows in either direction (`SecondsFollow`). That the sums of these maps are what `Total` and the histograms
say is an induction over finite sets. `FoldTheorems` does it without the library's
induction rules, which take an operator: among the subsets of a finite set on which
a fact fails one is minimal, as strict inclusion is well-founded, and removing an
element from it gives the contradiction. The same argument unfolds the folds of the
other modules, and shows that a strict order on a finite set ranks its members from 1
to their number, so that `Listing` lists each of them once (`ListsAll`).

*The scrape* (`ScrapeProofs`). `Awaited` and `Timed` say which calls may be open in
each phase and bound the clock by their deadlines: the discovery has one timeout,
the plugins one after it, and listnodes one after all of them
(`ScrapesEndInTime`). `Advertised` and `Finished` say what the output is made of
after the join and in the end. The rendering of the plugins is a `FoldLeft`;
`RenderedOneByOne` unfolds it into a sequence of outputs, each the one before with
one more plugin, and `Progress` is what each of them satisfies: the accepted plugins'
names are disjoint from each other and from what was written. With that,
`SourcesAreAllOrNothing` tells who wrote what, and `NamesHaveOneWriter` follows from
`WriterIs`, that a collector's name tells its collector; the exception it leaves to
the fallback is the one of the property, and `NamespaceFirst` is why a plugin of
namespace `tracker` itself is not part of it. `DeadlinesAreWarned` rests on the
monotony of a cardinality between three heights. `PluginsAssumption` says that
methods are a set (a `BTreeSet` of names that end in `-metrics`, which no collector's
does).

`BalancesAreComplete` unfolds the three folds of the bookkeeper: what each coin's
accounts have in all (`GivenOneByOne`), what is added up for those beyond
`MAX_ACCOUNTS` (`OthersOneByOne`) and what the rows written amount to (`AmountIs`,
`RowsAddUp`). The rows of a coin are those of the first accounts and at most one for
the others, and a sum over accounts splits at the bound (`TotalSplits`).

All invariants and action properties of the passing runs are stated by these theorems.
Only model-checked are

* liveness (`EventuallyCurrent`, `EventuallyReady`, `ScrapeEnds`), as fairness and
  `ENABLED` are outside what the prover handles;
* the violations, which are behaviours of the instances.

## 5. Not modelled

* The HTTP server and the start-up of both plugins: options, a listener with one
  route, no state of their own.
* The values that built-in collectors copy from one answer into text, among them
  the liquidity ratios and the anchor tank's arithmetic; the counts and file sizes
  of `status` and `metrics`.
* The filters of the queries and the alias resolution in them, and a prune between
  two pages of one read.
* Formats: amounts, parameters, label escaping, the byte and character bounds of
  plugin metrics.
* Dashboards, alerts and packaging: configuration.

## 6. Plan

All invariants and action properties are proved. What remains is in the models: a
prune between two pages of one read, and the filters that resolve aliases, with the
proofs of `HistoryPages` extended to both.
