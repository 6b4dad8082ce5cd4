------------------------------ MODULE EventCounters ------------------------------
(***************************************************************************)
(* The counters cln-exporter keeps of CLN's notifications (src/events.rs)  *)
(* and renders on every scrape (collect_events of src/metrics.rs).         *)
(*                                                                         *)
(* on_notification changes the counters under one lock and awaits nothing  *)
(* while it holds it: a notification is one step.  The maps are bounded,   *)
(* and nothing but invoice_created_at ever loses a key, so what a map      *)
(* shows depends on everything that arrived before.  The history variable  *)
(* `truth` keeps what really arrived.                                      *)
(***************************************************************************)
EXTENDS Integers, Sequences, FiniteSets, FiniteSetsExt

CONSTANTS
  Scenarios,     \* bounds: the topics the node sends in a behaviour, how long
                 \* and how often, and how many seconds the wall clock may be
                 \* set back at once, as [topics, time, events, stepBack]
  Field,         \* what a field of a notification may hold
  Other,         \* the overflow key of a bounded map
  Channel,       \* channels that forward payments
  Unknown,       \* the value of a field that is missing
  Peer,
  Label,         \* invoice labels
  None,
  MaxKeys,       \* MAX_DYNAMIC_KEYS
  MaxPeers,      \* MAX_TRACKED_PEERS
  MaxPending,    \* MAX_PENDING_INVOICES
  Buckets,       \* LATENCY_BUCKETS without u64::MAX, increasing
  MaxTime        \* bound on all times

Topics == UNION {s.topics : s \in Scenarios}

ASSUME ConstantsAssumption ==
  /\ Other \notin Field \cup Topics
  /\ Unknown \notin Channel
  /\ {MaxKeys, MaxPeers, MaxPending, MaxTime} \subseteq Nat
  /\ \A s \in Scenarios :
       s.time \in 0..MaxTime /\ s.events \in Nat /\ s.stepBack \in Nat
  /\ Buckets \in Seq(Nat)
  /\ \A i, j \in DOMAIN Buckets : i < j => Buckets[i] < Buckets[j]

VARIABLES
  scenario,    \* the member of Scenarios this behaviour is about
  clock,       \* the wall clock: now() reads SystemTime
  counts,      \* the maps that bounded_increment keeps
  flows,       \* forwarding_channels
  peers,
  invoices,    \* invoice_events, invoice_created_at and invoice_latency
  sendpays,    \* sendpay_events and sendpay_latency
  block,       \* latest_block_height and latest_block_time
  truth        \* history: what the notifications said

vars == <<scenario, clock, counts, flows, peers, invoices, sendpays, block, truth>>

\* What in_channel and out_channel of a forward may be.
Party == Channel \cup {Unknown}

\* The map in which the fields of a topic are counted.
Tallied == [warning |-> "warnings", plugin_started |-> "plugin_events",
            plugin_stopped |-> "plugin_events",
            channel_state_changed |-> "channel_transitions",
            coin_movement |-> "coin_movements"]
Counter == {"notifications", "forwards"} \cup {Tallied[t] : t \in DOMAIN Tallied}

Minus(x, y) == IF x > y THEN x - y ELSE 0
Empty == [x \in {} |-> 0]
At(map, x, default) == IF x \in DOMAIN map THEN map[x] ELSE default
Set(map, x, value) == [y \in DOMAIN map \cup {x} |-> IF y = x THEN value ELSE map[y]]
Total(map) == MapThenSumSet(LAMBDA x : map[x], DOMAIN map)

Add(map, x) == Set(map, x, At(map, x, 0) + 1)

\* A broken build that drops what does not fit.
BoundedIncrementDropping(map, x) ==
  IF x \in DOMAIN map \/ Cardinality(DOMAIN map) < MaxKeys THEN Add(map, x) ELSE map

\* bounded_increment
BoundedIncrement(map, x) ==
  Add(map, IF x \in DOMAIN map \/ Cardinality(DOMAIN map) < MaxKeys
           THEN x ELSE Other)

\* An entry of a bounded map of records is used if it exists or there is room.
Tracked(map, x, max) == x \in DOMAIN map \/ Cardinality(DOMAIN map) < max

(***************************************************************************)
(* LatencyHistogram: the last bucket is the one of u64::MAX.               *)
(***************************************************************************)

NoLatency == [buckets |-> [i \in 1..Len(Buckets) + 1 |-> 0], count |-> 0, sum |-> 0]

Observe(h, seconds) ==
  [buckets |-> [i \in DOMAIN h.buckets |->
                  IF i > Len(Buckets) \/ seconds <= Buckets[i]
                  THEN h.buckets[i] + 1 ELSE h.buckets[i]],
   count |-> h.count + 1,
   sum |-> h.sum + seconds]

(***************************************************************************)
(* on_notification, one action per topic.                                  *)
(***************************************************************************)

\* What every notification does; `maps` is what the topic does besides.
Notified(topic, maps) ==
  /\ topic \in scenario.topics
  /\ truth.handled < scenario.events
  /\ counts' = [maps EXCEPT !["notifications"] = BoundedIncrement(@, topic)]
  /\ UNCHANGED <<scenario, clock>>

Handled == [truth EXCEPT !.handled = @ + 1]

Tally(topic, field) ==
  /\ Notified(topic, [counts EXCEPT
                        ![Tallied[topic]] = BoundedIncrement(@, field)])
  /\ truth' = [Handled EXCEPT !.tallied[Tallied[topic]] = @ + 1]
  /\ UNCHANGED <<flows, peers, invoices, sendpays, block>>

NoFlow == [received |-> 0, sent |-> 0, fees |-> 0]

\* A broken build that forgets that a channel it knows needs no room.
ReceivedNoUpdate(map, c, msat, fee) ==
  IF Cardinality(DOMAIN map) < MaxKeys
  THEN Set(map, c, [At(map, c, NoFlow) EXCEPT !.received = @ + msat, !.fees = @ + fee])
  ELSE map

\* The inbound and the outbound side of a settled forward.
Received(map, c, msat, fee) ==
  IF Tracked(map, c, MaxKeys)
  THEN Set(map, c, [At(map, c, NoFlow) EXCEPT !.received = @ + msat, !.fees = @ + fee])
  ELSE map

Sent(map, c, msat) ==
  IF c # Unknown /\ Tracked(map, c, MaxKeys)
  THEN Set(map, c, [At(map, c, NoFlow) EXCEPT !.sent = @ + msat])
  ELSE map

\* A forward of 2 msat in, 1 msat out and 1 msat of fees.  A missing in_channel is
\* a channel of its own, "unknown", a missing out_channel is none.
ForwardEvent(status, inbound, outbound) ==
  /\ Notified("forward_event",
              [counts EXCEPT !["forwards"] = BoundedIncrement(@, status)])
  /\ IF status = "settled"
     THEN /\ flows' = Sent(Received(flows, inbound, 2, 1), outbound, 1)
          /\ truth' = [Handled EXCEPT
                         !.tallied["forwards"] = @ + 1,
                         !.received[inbound] = @ + 2,
                         !.sent[outbound] = @ + IF outbound = Unknown THEN 0 ELSE 1]
     ELSE /\ truth' = [Handled EXCEPT !.tallied["forwards"] = @ + 1]
          /\ UNCHANGED flows
  /\ UNCHANGED <<peers, invoices, sendpays, block>>

NoConnection == [since |-> None, total |-> 0, connects |-> 0, disconnects |-> 0]

\* A broken build in which a second connect restarts the connection's time.
SinceRestarted(c) == clock

\* connected_since.get_or_insert_with(now)
Since(c) == IF c.since = None THEN clock ELSE c.since

Connect(p) ==
  LET c == At(peers, p, NoConnection)
  IN /\ Notified("connect", counts)
     /\ peers' = IF Tracked(peers, p, MaxPeers)
                 THEN Set(peers, p, [c EXCEPT !.connects = @ + 1, !.since = Since(c)])
                 ELSE peers
     /\ truth' = [Handled EXCEPT !.connects[p] = @ + 1]
     /\ UNCHANGED <<flows, invoices, sendpays, block>>

Disconnect(p) ==
  LET c == At(peers, p, NoConnection)
      d == IF c.since = None THEN 0 ELSE Minus(clock, c.since)
  IN /\ Notified("disconnect", counts)
     /\ peers' = IF Tracked(peers, p, MaxPeers)
                 THEN Set(peers, p, [c EXCEPT !.disconnects = @ + 1,
                                              !.total = @ + d, !.since = None])
                 ELSE peers
     /\ truth' = Handled
     /\ UNCHANGED <<flows, invoices, sendpays, block>>

InvoiceCreation(l) ==
  /\ Notified("invoice_creation", counts)
  /\ invoices' = [invoices EXCEPT
                    !.created = @ + 1,
                    !.pending = IF Tracked(@, l, MaxPending) THEN Set(@, l, clock)
                                ELSE @]
  /\ truth' = Handled
  /\ UNCHANGED <<flows, peers, sendpays, block>>

\* A broken build that leaves a paid invoice among the pending ones.
WithoutNothing(map, l) == map

Without(map, l) == [x \in DOMAIN map \ {l} |-> map[x]]

InvoicePayment(l) ==
  /\ Notified("invoice_payment", counts)
  /\ IF l \in DOMAIN invoices.pending
     THEN /\ invoices' = [invoices EXCEPT
                            !.paid = @ + 1,
                            !.pending = Without(@, l),
                            !.latency = Observe(@, Minus(clock, invoices.pending[l]))]
          /\ truth' = [Handled EXCEPT
                         !.invoices = Add(@, Minus(clock, invoices.pending[l]))]
     ELSE /\ invoices' = [invoices EXCEPT !.paid = @ + 1]
          /\ truth' = Handled
  /\ UNCHANGED <<flows, peers, sendpays, block>>

\* A block whose height may be missing.
BlockAdded(height) ==
  /\ Notified("block_added", counts)
  /\ block' = [height |-> height, time |-> clock]
  /\ truth' = Handled
  /\ UNCHANGED <<flows, peers, invoices, sendpays>>

\* sendpay_success and sendpay_failure carry their own created_at and completed_at:
\* the times are <<created, completed>>, or <<>> when one is missing.
Sendpay(topic, times) ==
  LET seconds == Minus(times[2], times[1])
  IN /\ Notified(topic, counts)
     /\ sendpays' = [sendpays EXCEPT
                       !.events = Add(@, topic),
                       !.latency = IF times = <<>> THEN @ ELSE Observe(@, seconds)]
     /\ truth' = [Handled EXCEPT !.sendpays = IF times = <<>> THEN @ ELSE Add(@, seconds)]
     /\ UNCHANGED <<flows, peers, invoices, block>>

Tick ==
  /\ clock < scenario.time
  /\ clock' = clock + 1
  /\ UNCHANGED <<scenario, counts, flows, peers, invoices, sendpays, block, truth>>

\* The wall clock is set back.
SetClockBack ==
  /\ \E n \in 1..scenario.stepBack : n <= clock /\ clock' = clock - n
  /\ UNCHANGED <<scenario, counts, flows, peers, invoices, sendpays, block, truth>>

\* EventCounters::default()
NoCounts   == [m \in Counter |-> Empty]
NoInvoices == [created |-> 0, paid |-> 0, pending |-> Empty, latency |-> NoLatency]
NoSendpays == [events |-> Empty, latency |-> NoLatency]
NoBlock    == [height |-> None, time |-> None]
NoTruth    == [handled |-> 0,
               tallied |-> [m \in Counter |-> 0],
               received |-> [c \in Party |-> 0],
               sent |-> [c \in Party |-> 0],
               connects |-> [p \in Peer |-> 0],
               invoices |-> Empty,
               sendpays |-> Empty]

\* The process ends and starts again: "process-lifetime scope" (README).
Restart ==
  /\ counts' = NoCounts
  /\ flows' = Empty
  /\ peers' = Empty
  /\ invoices' = NoInvoices
  /\ sendpays' = NoSendpays
  /\ block' = NoBlock
  /\ truth' = NoTruth
  /\ UNCHANGED <<scenario, clock>>

Init ==
  /\ scenario \in Scenarios
  /\ clock = 0
  /\ counts = NoCounts
  /\ flows = Empty
  /\ peers = Empty
  /\ invoices = NoInvoices
  /\ sendpays = NoSendpays
  /\ block = NoBlock
  /\ truth = NoTruth

Next ==
  \/ Tick
  \/ SetClockBack
  \/ Restart
  \/ \E height \in {None, 1} : BlockAdded(height)
  \/ \E topic \in DOMAIN Tallied, f \in Field : Tally(topic, f)
  \/ \E status \in {"offered", "settled"}, c, d \in Party : ForwardEvent(status, c, d)
  \/ \E p \in Peer : Connect(p) \/ Disconnect(p)
  \/ \E l \in Label : InvoiceCreation(l) \/ InvoicePayment(l)
  \/ \E topic \in {"sendpay_success", "sendpay_failure"},
        times \in {<<>>} \cup ((0..MaxTime) \X (0..MaxTime)) : Sendpay(topic, times)

Spec == Init /\ [][Next]_vars

(***************************************************************************)
(* Properties.                                                             *)
(***************************************************************************)

Histogram == [buckets : [1..Len(Buckets) + 1 -> Nat], count : Nat, sum : Nat]

\* The types of the counters; the keys of forwarding_channels are channels, or the
\* one that is missing.
TypeOK ==
  /\ clock \in 0..scenario.time
  /\ DOMAIN counts = Counter
  /\ \A m \in Counter :
       /\ DOMAIN counts[m] \subseteq Topics \cup Field \cup {"offered", "settled", Other}
       /\ counts[m] \in [DOMAIN counts[m] -> Nat \ {0}]
  /\ DOMAIN flows \subseteq Party
  /\ flows \in [DOMAIN flows -> [received : Nat, sent : Nat, fees : Nat]]
  /\ DOMAIN peers \subseteq Peer
  /\ peers \in [DOMAIN peers -> [since : 0..MaxTime \cup {None}, total : Nat,
                                connects : Nat, disconnects : Nat]]
  /\ invoices.created \in Nat /\ invoices.paid \in Nat
  /\ DOMAIN invoices.pending \subseteq Label
  /\ invoices.pending \in [DOMAIN invoices.pending -> 0..MaxTime]
  /\ {invoices.latency, sendpays.latency} \subseteq Histogram
  /\ sendpays.events \in [DOMAIN sendpays.events -> Nat \ {0}]
  /\ block.height \in Nat \cup {None} /\ block.time \in 0..MaxTime \cup {None}

\* "Dynamically observed notification topics and sources are capped, with excess
\* values grouped under `other`" (README): a map holds the overflow key at most
\* beyond its bound, and the maps of records never exceed theirs.
Capped ==
  /\ \A m \in Counter : Cardinality(DOMAIN counts[m] \ {Other}) <= MaxKeys
  /\ Cardinality(DOMAIN flows) <= MaxKeys
  /\ Cardinality(DOMAIN peers) <= MaxPeers
  /\ Cardinality(DOMAIN invoices.pending) <= MaxPending

\* The cap groups and never drops: the series of a map add up to the number of
\* notifications it counts.
NothingDropped ==
  /\ Total(counts["notifications"]) = truth.handled
  /\ \A m \in Counter \ {"notifications"} : Total(counts[m]) = truth.tallied[m]

\* The bounded maps: of the right types, bounded, and without a loss.
CappedWithoutLoss == TypeOK /\ Capped /\ NothingDropped

\* A channel that is shown is shown completely: a full map cuts off whole
\* channels, and those from their first forward on, never part of one's flow.  So
\* is "unknown", the channel of what came in from nobody.
FlowsCompleteOrAbsent ==
  \A c \in DOMAIN flows :
    flows[c].received = truth.received[c] /\ flows[c].sent = truth.sent[c]

Shows(h, seen) ==
  LET observed(S) == MapThenSumSet(LAMBDA x : seen[x], DOMAIN seen \cap S)
  IN /\ \A i \in DOMAIN Buckets : h.buckets[i] = observed(0..Buckets[i])
     /\ h.buckets[Len(Buckets) + 1] = observed(Nat) /\ h.count = observed(Nat)

\* The buckets of both histograms are those of what was observed, cumulative, and
\* the count is the +Inf bucket.
HistogramExact ==
  Shows(invoices.latency, truth.invoices) /\ Shows(sendpays.latency, truth.sendpays)

\* cln_invoice_observed_payment_ratio stays a ratio: every latency and every
\* pending invoice has a creation of its own.
PaidWereCreated ==
  invoices.latency.count + Cardinality(DOMAIN invoices.pending) <= invoices.created

\* What is shown of payments is what was observed of them, and each belongs to an
\* invoice of this process.
PaymentsExact == HistogramExact /\ PaidWereCreated

\* What collect_events renders as cln_peer_connection_seconds_total.
Seconds(p) ==
  LET c == At(peers, p, NoConnection)
  IN c.total + IF c.since = None THEN 0 ELSE Minus(clock, c.since)

\* The connection time of a peer behaves like the counter it is rendered as,
\* whether connects repeat or disconnects come unannounced: within one life of the
\* process no notification changes it, it grows with the clock and no faster, and
\* only the step that sets the wall clock back lowers it, by no more than that.  A
\* tracked peer's connects are complete.
ConnectionTimeCounts ==
  [][truth'.handled >= truth.handled => \A p \in Peer :
       /\ LET change == Seconds(p)' - Seconds(p)
              passed == clock' - clock
          IN change \in (IF passed >= 0 THEN 0..passed ELSE passed..0)
       /\ p \in DOMAIN peers' => peers'[p].connects = truth'.connects[p]]_vars

================================================================================
