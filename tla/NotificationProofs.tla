---------------------------- MODULE NotificationProofs ----------------------------
(***************************************************************************)
(* Proofs about what cln-exporter keeps between scrapes, which the node's  *)
(* notifications change.                                                   *)
(*                                                                         *)
(* EventCounters: for any fields, channels, peers and labels, any bounds   *)
(* of the maps, any buckets of the histograms, any number of notifications *)
(* and restarts.  DiscoveryCache: for any number of concurrent scrapes,    *)
(* any methods, and any TTL and call timeout.                              *)
(***************************************************************************)
EXTENDS EventCounters, DiscoveryCache, FoldTheorems

(***************************************************************************)
(* The inductive invariant, one part for each counter and what arrived.    *)
(***************************************************************************)

\* Maps from some members of D to members of R.
Map(D, R) == UNION {[E -> R] : E \in SUBSET D}

Key        == Topics \cup Field \cup {"offered", "settled", Other}
Flow       == [received : Nat, sent : Nat, fees : Nat]
Connection == [since : 0..MaxTime \cup {None}, total : Nat, connects : Nat, disconnects : Nat]
Truth      == [handled : Nat, tallied : [Counter -> Nat], received : [Party -> Nat],
               sent : [Party -> Nat], connects : [Peer -> Nat],
               invoices : Map(Nat, Nat), sendpays : Map(Nat, Nat)]

\* A map of bounded_increment that counted n notifications.
Counted(map, n) ==
  /\ map \in Map(Key, Nat \ {0}) /\ IsFiniteSet(DOMAIN map)
  /\ Cardinality(DOMAIN map \ {Other}) <= MaxKeys
  /\ Total(map) = n

\* A bounded map of records: what it lacks of `arrived` it had no room for.
Room(map, max) == Cardinality(DOMAIN map) < max
Bounded(map, max) == IsFiniteSet(DOMAIN map) /\ Cardinality(DOMAIN map) <= max

\* forwarding_channels: who has an entry has all of it, and who has none has not
\* forwarded anything or came too late.
Carried(map, received, sent) ==
  /\ map \in Map(Party, Flow) /\ Bounded(map, MaxKeys)
  /\ \A c \in DOMAIN map : map[c].received = received[c] /\ map[c].sent = sent[c]
  /\ \A c \in Party \ DOMAIN map :
       (received[c] = 0 /\ sent[c] = 0) \/ ~Room(map, MaxKeys)

\* The peers: likewise.
Connected(map, connects) ==
  /\ map \in Map(Peer, Connection) /\ Bounded(map, MaxPeers)
  /\ \A p \in DOMAIN map : map[p].connects = connects[p]
  /\ \A p \in Peer \ DOMAIN map : connects[p] = 0 \/ ~Room(map, MaxPeers)

\* A histogram of what was seen.
Observed(h, seen) ==
  /\ h \in Histogram /\ seen \in Map(Nat, Nat) /\ IsFiniteSet(DOMAIN seen)
  /\ Shows(h, seen)

ClockOK  == scenario \in Scenarios /\ clock \in 0..scenario.time
CountsOK ==
  /\ counts \in [Counter -> Map(Key, Nat \ {0})]
  /\ Counted(counts["notifications"], truth.handled)
  /\ \A m \in Counter \ {"notifications"} : Counted(counts[m], truth.tallied[m])
FlowsOK  == Carried(flows, truth.received, truth.sent)
PeersOK  == Connected(peers, truth.connects) /\ (truth.handled = 0 => DOMAIN peers = {})
InvoicesOK ==
  /\ invoices \in [created : Nat, paid : Nat, pending : Map(Label, 0..MaxTime),
                   latency : Histogram]
  /\ Bounded(invoices.pending, MaxPending)
  /\ Observed(invoices.latency, truth.invoices)
  /\ PaidWereCreated
SendpaysOK ==
  /\ sendpays \in [events : Map({"sendpay_success", "sendpay_failure"}, Nat \ {0}),
                   latency : Histogram]
  /\ Observed(sendpays.latency, truth.sendpays)
BlockOK  == block \in [height : Nat \cup {None}, time : 0..MaxTime \cup {None}]

IInv ==
  /\ truth \in Truth
  /\ ClockOK /\ CountsOK /\ FlowsOK /\ PeersOK /\ InvoicesOK /\ SendpaysOK /\ BlockOK

(***************************************************************************)
(* The maps.                                                               *)
(***************************************************************************)

\* A map is a function on some of its keys.
LEMMA MapType ==
  ASSUME NEW D, NEW R, NEW map
  PROVE  map \in Map(D, R) <=> DOMAIN map \subseteq D /\ map \in [DOMAIN map -> R]
BY DEF Map

\* Set adds a key or replaces its value.
LEMMA SetMap ==
  ASSUME NEW D, NEW R, NEW map \in Map(D, R), NEW x \in D, NEW value \in R
  PROVE  /\ Set(map, x, value) \in Map(D, R)
         /\ DOMAIN Set(map, x, value) = DOMAIN map \cup {x}
<1>1. DOMAIN map \subseteq D /\ \A y \in DOMAIN map : map[y] \in R
  BY MapType
<1>2. Set(map, x, value) \in [DOMAIN map \cup {x} -> R]
  BY <1>1 DEF Set
<1>3. DOMAIN Set(map, x, value) = DOMAIN map \cup {x} /\ DOMAIN map \cup {x} \subseteq D
  BY <1>1 DEF Set
<1>4. Set(map, x, value) \in Map(D, R)
  BY <1>2, <1>3, MapType
<1> QED BY <1>3, <1>4

\* The sum of a map over its keys in S.
SumIn(map, S) == SumOf(map, DOMAIN map \cap S)

\* Adding one to a key.
LEMMA AddMap ==
  ASSUME NEW D, NEW map \in Map(D, Nat), IsFiniteSet(DOMAIN map), NEW x \in D
  PROVE  /\ Add(map, x) \in Map(D, Nat) /\ DOMAIN Add(map, x) = DOMAIN map \cup {x}
         /\ IsFiniteSet(DOMAIN Add(map, x))
<1>1. DOMAIN map \subseteq D /\ map \in [DOMAIN map -> Nat] /\ At(map, x, 0) \in Nat
  BY MapType DEF At
<1>2. Add(map, x) \in [DOMAIN map \cup {x} -> Nat] /\ DOMAIN map \cup {x} \subseteq D
  BY <1>1 DEF Add, Set
<1>3. DOMAIN Add(map, x) = DOMAIN map \cup {x} /\ Add(map, x) \in Map(D, Nat)
  BY <1>2 DEF Map
<1>4. IsFiniteSet(DOMAIN Add(map, x))
  BY <1>3, FS_AddElement
<1> QED BY <1>3, <1>4

\* It adds one to the sum over every set with the key.
LEMMA AddSum ==
  ASSUME NEW D, NEW map \in Map(D, Nat), IsFiniteSet(DOMAIN map), NEW x \in D, NEW S
  PROVE  SumIn(Add(map, x), S) = SumIn(map, S) + IF x \in S THEN 1 ELSE 0
<1> DEFINE new == Add(map, x)
           E == DOMAIN map \cap S
<1>1. /\ new \in Map(D, Nat) /\ DOMAIN new = DOMAIN map \cup {x}
      /\ new[x] = At(map, x, 0) + 1
      /\ \A y \in DOMAIN map \ {x} : new[y] = map[y]
  <2>1. new \in Map(D, Nat) /\ DOMAIN new = DOMAIN map \cup {x}
    BY AddMap
  <2> QED BY <2>1 DEF Add, Set
<1>2. IsFiniteSet(DOMAIN map \cup {x}) /\ IsFiniteSet(E)
  BY FS_AddElement, FS_Subset
<1>3. \A y \in DOMAIN map : map[y] \in Nat
  BY MapType
<1>4. SumOf(map, E) \in Nat
  BY <1>2, <1>3, SumType
<1> HIDE DEF new
<1> SUFFICES SumOf(new, DOMAIN new \cap S) = SumOf(map, E) + IF x \in S THEN 1 ELSE 0
  BY DEF new, SumIn
<1>5. CASE x \notin S
  <2>1. DOMAIN new \cap S = E
    BY <1>1, <1>5
  <2>2. SumOf(new, E) = SumOf(map, E)
    BY <1>1, <1>2, <1>5, SumSame
  <2> QED BY <1>4, <1>5, <2>1, <2>2
<1>6. CASE x \in S /\ x \in DOMAIN map
  <2>1. DOMAIN new \cap S = E /\ x \in E
    BY <1>1, <1>6
  <2>2. new[x] = map[x] + 1
    BY <1>1, <1>6 DEF At
  <2>3. SumOf(new, E) = SumOf(map, E) + 1
    BY <1>1, <1>2, <1>3, <2>1, <2>2, SumGrows
  <2> QED BY <1>4, <1>6, <2>1, <2>3
<1>7. CASE x \in S /\ x \notin DOMAIN map
  <2>1. DOMAIN new \cap S = E \cup {x} /\ x \notin E
    BY <1>1, <1>7
  <2>2. new[x] = 1
    BY <1>1, <1>7 DEF At
  <2>3. \A y \in E : new[y] = map[y]
    BY <1>1, <1>7
  <2>4. SumOf(new, E \cup {x}) = new[x] + SumOf(new, E)
    BY <1>2, <1>3, <2>1, <2>2, <2>3, SumAdd
  <2>5. SumOf(new, E) = SumOf(map, E)
    BY <1>2, <2>3, SumSame
  <2>6. SumOf(new, DOMAIN new \cap S) = new[x] + SumOf(map, E)
    BY <2>1, <2>4, <2>5, Zenon
  <2> HIDE DEF E
  <2> QED BY <1>4, <1>7, <2>2, <2>6
<1> QED BY <1>5, <1>6, <1>7

\* Positive counts stay positive.
LEMMA AddPositive ==
  ASSUME NEW D, NEW map \in Map(D, Nat \ {0}), NEW x \in D
  PROVE  map \in Map(D, Nat) /\ Add(map, x) \in Map(D, Nat \ {0})
<1>1. DOMAIN map \subseteq D /\ \A y \in DOMAIN map : map[y] \in Nat /\ map[y] # 0
  BY DEF Map
<1>2. map \in [DOMAIN map -> Nat]
  BY DEF Map
<1>3. At(map, x, 0) \in Nat
  BY <1>1 DEF At
<1>4. Add(map, x) \in [DOMAIN map \cup {x} -> Nat \ {0}] /\ DOMAIN map \cup {x} \subseteq D
  BY <1>1, <1>3 DEF Add, Set
<1> QED BY <1>1, <1>2, <1>4 DEF Map

\* bounded_increment counts exactly one more, under the key or the overflow key,
\* and opens no key of its own beyond the bound.
LEMMA BoundedIncrementCounts ==
  ASSUME NEW map, NEW n, Counted(map, n), NEW x \in Key
  PROVE  Counted(BoundedIncrement(map, x), n + 1)
<1> DEFINE full == ~(x \in DOMAIN map \/ Cardinality(DOMAIN map) < MaxKeys)
           key == IF full THEN Other ELSE x
           new == Add(map, key)
           D == DOMAIN map
<1>1. /\ map \in Map(Key, Nat \ {0}) /\ IsFiniteSet(D)
      /\ Cardinality(D \ {Other}) <= MaxKeys /\ Total(map) = n
  BY DEF Counted
<1>2. key \in Key /\ BoundedIncrement(map, x) = new /\ MaxKeys \in Nat
  BY ConstantsAssumption DEF Key, BoundedIncrement
<1> HIDE DEF key
<1>3. map \in Map(Key, Nat) /\ new \in Map(Key, Nat \ {0})
  BY <1>1, <1>2, AddPositive
<1>4. /\ DOMAIN new = D \cup {key} /\ IsFiniteSet(D \cup {key})
      /\ SumIn(new, Key) = SumIn(map, Key) + 1
  <2>1. DOMAIN new = D \cup {key} /\ IsFiniteSet(DOMAIN new)
    BY <1>1, <1>2, <1>3, AddMap
  <2>2. SumIn(new, Key) = SumIn(map, Key) + IF key \in Key THEN 1 ELSE 0
    BY <1>1, <1>2, <1>3, AddSum
  <2> QED BY <1>2, <2>1, <2>2
<1> HIDE DEF new
<1>5. DOMAIN new \cap Key = DOMAIN new /\ D \cap Key = D
  BY <1>1, <1>3, MapType
<1>6. SumOf(new, DOMAIN new) = SumOf(map, D) + 1
  <2>1. SumIn(new, Key) = SumOf(new, DOMAIN new) /\ SumIn(map, Key) = SumOf(map, D)
    BY <1>5, Zenon DEF SumIn
  <2> QED BY <1>4, <2>1
<1>7. Total(new) = n + 1
  BY <1>1, <1>6 DEF Total, SumOf
<1>8. Cardinality(DOMAIN new \ {Other}) <= MaxKeys
  <2>1. CASE full
    <3>1. DOMAIN new \ {Other} = D \ {Other}
      BY <1>4, <2>1 DEF key
    <3> QED BY <1>1, <3>1
  <2>2. CASE x \in D
    <3>1. DOMAIN new \ {Other} = D \ {Other}
      BY <1>4, <2>2 DEF key
    <3> QED BY <1>1, <3>1
  <2>3. CASE x \notin D /\ Cardinality(D) < MaxKeys
    <3>1. DOMAIN new = D \cup {x}
      BY <1>4, <2>3 DEF key
    <3>2. /\ Cardinality(D \cup {x}) = Cardinality(D) + 1 /\ Cardinality(D) \in Nat
          /\ IsFiniteSet(D \cup {x})
      BY <1>1, <2>3, FS_AddElement, FS_CardinalityType
    <3>3. /\ Cardinality((D \cup {x}) \ {Other}) <= Cardinality(D \cup {x})
          /\ Cardinality((D \cup {x}) \ {Other}) \in Nat
      BY <3>2, FS_Subset, FS_CardinalityType
    <3> QED BY <1>2, <2>3, <3>1, <3>2, <3>3
  <2> QED BY <2>1, <2>2, <2>3
<1> QED BY <1>2, <1>3, <1>4, <1>7, <1>8 DEF Counted

\* The histogram: a time observed counts in every bucket that reaches it.
LEMMA ObserveExact ==
  ASSUME NEW h, NEW seen, Observed(h, seen), NEW s \in Nat
  PROVE  Observed(Observe(h, s), Add(seen, s))
<1> DEFINE g == Observe(h, s)
           new == Add(seen, s)
<1>1. h \in Histogram /\ seen \in Map(Nat, Nat) /\ IsFiniteSet(DOMAIN seen) /\ Shows(h, seen)
  BY DEF Observed
<1>2. Len(Buckets) \in Nat /\ DOMAIN Buckets = 1..Len(Buckets)
      /\ \A i \in DOMAIN Buckets : Buckets[i] \in Nat
  BY ConstantsAssumption
<1>3. /\ h.buckets \in [1..Len(Buckets) + 1 -> Nat] /\ h.count \in Nat /\ h.sum \in Nat
  BY <1>1 DEF Histogram
<1>4. /\ g.buckets \in [1..Len(Buckets) + 1 -> Nat] /\ g.count = h.count + 1
      /\ g.sum = h.sum + s /\ g \in Histogram
      /\ \A i \in DOMAIN Buckets :
           g.buckets[i] = h.buckets[i] + IF s <= Buckets[i] THEN 1 ELSE 0
      /\ g.buckets[Len(Buckets) + 1] = h.buckets[Len(Buckets) + 1] + 1
  <2> DEFINE b == [i \in DOMAIN h.buckets |->
                     IF i > Len(Buckets) \/ s <= Buckets[i]
                     THEN h.buckets[i] + 1 ELSE h.buckets[i]]
  <2>1. g = [buckets |-> b, count |-> h.count + 1, sum |-> h.sum + s]
    BY DEF Observe
  <2>2. DOMAIN h.buckets = 1..Len(Buckets) + 1
    BY <1>3
  <2>3. b \in [1..Len(Buckets) + 1 -> Nat]
    BY <1>2, <1>3, <2>2
  <2>4. /\ \A i \in DOMAIN Buckets :
             b[i] = h.buckets[i] + IF s <= Buckets[i] THEN 1 ELSE 0
        /\ b[Len(Buckets) + 1] = h.buckets[Len(Buckets) + 1] + 1
    BY <1>2, <1>3, <2>2
  <2> HIDE DEF b, g
  <2>5. g.buckets = b /\ g.count = h.count + 1 /\ g.sum = h.sum + s
    BY <2>1
  <2>6. g \in Histogram
    BY <1>3, <2>1, <2>3 DEF Histogram
  <2> QED BY <2>3, <2>4, <2>5, <2>6
<1>5. /\ \A i \in DOMAIN Buckets : h.buckets[i] = SumIn(seen, 0..Buckets[i])
      /\ h.buckets[Len(Buckets) + 1] = SumIn(seen, Nat)
      /\ h.count = SumIn(seen, Nat)
  BY <1>1 DEF Shows, SumOf, SumIn
<1>6. new \in Map(Nat, Nat) /\ IsFiniteSet(DOMAIN new)
  BY <1>1, AddMap
<1>7. ASSUME NEW S PROVE SumIn(new, S) = SumIn(seen, S) + IF s \in S THEN 1 ELSE 0
  BY <1>1, AddSum
<1> HIDE DEF new, g
<1>8. \A i \in DOMAIN Buckets : g.buckets[i] = SumIn(new, 0..Buckets[i])
  <2> SUFFICES ASSUME NEW i \in DOMAIN Buckets PROVE g.buckets[i] = SumIn(new, 0..Buckets[i])
    OBVIOUS
  <2>1. s \in 0..Buckets[i] <=> s <= Buckets[i]
    BY <1>2
  <2>2. SumIn(new, 0..Buckets[i])
          = SumIn(seen, 0..Buckets[i]) + IF s \in 0..Buckets[i] THEN 1 ELSE 0
    BY <1>7
  <2> QED BY <1>4, <1>5, <2>1, <2>2
<1>9. g.buckets[Len(Buckets) + 1] = SumIn(new, Nat) /\ g.count = SumIn(new, Nat)
  <2>1. SumIn(new, Nat) = SumIn(seen, Nat) + IF s \in Nat THEN 1 ELSE 0
    BY <1>7
  <2> QED BY <1>4, <1>5, <2>1
<1>10. Shows(g, new)
  BY <1>8, <1>9 DEF Shows, SumOf, SumIn
<1> QED BY <1>4, <1>6, <1>10 DEF Observed, g, new

\* A bounded map takes a key that it has, or that it has room for.
LEMMA BoundedSet ==
  ASSUME NEW map, NEW max \in Nat, Bounded(map, max), NEW x, Tracked(map, x, max)
  PROVE  /\ IsFiniteSet(DOMAIN map \cup {x})
         /\ Cardinality(DOMAIN map \cup {x}) <= max
         /\ Cardinality(DOMAIN map) <= Cardinality(DOMAIN map \cup {x})
<1>1. /\ IsFiniteSet(DOMAIN map) /\ Cardinality(DOMAIN map) \in Nat
      /\ Cardinality(DOMAIN map) <= max
  BY FS_CardinalityType DEF Bounded
<1>2. CASE x \in DOMAIN map
  <2>1. DOMAIN map \cup {x} = DOMAIN map
    BY <1>2
  <2> QED BY <1>1, <2>1
<1>3. CASE x \notin DOMAIN map /\ Cardinality(DOMAIN map) < max
  BY <1>1, <1>3, FS_AddElement
<1> QED BY <1>2, <1>3 DEF Tracked

\* The inbound side of a settled forward: a channel gets an entry at its first, if at
\* all, so there is nothing that the entry misses.
LEMMA ReceivedCarries ==
  ASSUME NEW map, NEW received \in [Party -> Nat], NEW sent, Carried(map, received, sent),
         NEW c \in Party, NEW msat \in Nat, NEW fee \in Nat
  PROVE  Carried(Received(map, c, msat, fee), [received EXCEPT ![c] = @ + msat], sent)
<1> DEFINE new == Received(map, c, msat, fee)
           now == [received EXCEPT ![c] = @ + msat]
<1>1. /\ map \in Map(Party, Flow) /\ Bounded(map, MaxKeys) /\ MaxKeys \in Nat
      /\ \A d \in DOMAIN map : map[d].received = received[d] /\ map[d].sent = sent[d]
      /\ \A d \in Party \ DOMAIN map :
           (received[d] = 0 /\ sent[d] = 0) \/ ~Room(map, MaxKeys)
  BY ConstantsAssumption DEF Carried
<1>2. /\ now[c] = received[c] + msat /\ \A d \in Party \ {c} : now[d] = received[d]
  OBVIOUS
<1>3. NoFlow \in Flow /\ DOMAIN map \subseteq Party /\ \A d \in DOMAIN map : map[d] \in Flow
  BY <1>1 DEF NoFlow, Flow, Map
<1> HIDE DEF now
<1>4. CASE Tracked(map, c, MaxKeys)
  <2> DEFINE old == At(map, c, NoFlow)
             flow == [old EXCEPT !.received = @ + msat, !.fees = @ + fee]
  <2>1. old \in Flow
    BY <1>3 DEF At
  <2>2. old.received = received[c] /\ old.sent = sent[c]
    BY <1>1, <1>4 DEF At, NoFlow, Tracked, Room
  <2> HIDE DEF old
  <2>3. flow \in Flow /\ flow.received = old.received + msat /\ flow.sent = old.sent
    <3>1. old.received \in Nat /\ old.sent \in Nat /\ old.fees \in Nat
      BY <2>1 DEF Flow
    <3>2. ASSUME NEW r \in Nat, NEW f \in Nat
          PROVE  LET g == [old EXCEPT !.received = r, !.fees = f]
                 IN  g \in Flow /\ g.received = r /\ g.sent = old.sent
      BY <2>1 DEF Flow
    <3>3. old.received + msat \in Nat /\ old.fees + fee \in Nat
      BY <3>1
    <3> QED BY <3>2, <3>3, Zenon
  <2>4. new = Set(map, c, flow)
    BY <1>4 DEF Received, old
  <2> HIDE DEF flow, new
  <2>5. /\ new \in Map(Party, Flow) /\ DOMAIN new = DOMAIN map \cup {c}
        /\ new[c] = flow /\ \A d \in DOMAIN map \ {c} : new[d] = map[d]
    <3>1. new \in Map(Party, Flow) /\ DOMAIN new = DOMAIN map \cup {c}
      <4>1. /\ Set(map, c, flow) \in Map(Party, Flow)
            /\ DOMAIN Set(map, c, flow) = DOMAIN map \cup {c}
        <5>1. map \in Map(Party, Flow) /\ c \in Party /\ flow \in Flow
          BY <1>1, <2>3
        <5>2. ASSUME NEW g \in Flow
              PROVE  /\ Set(map, c, g) \in Map(Party, Flow)
                     /\ DOMAIN Set(map, c, g) = DOMAIN map \cup {c}
          <6>1. map \in Map(Party, Flow) /\ c \in Party /\ g \in Flow
            BY <5>1
          <6> QED BY ONLY <6>1, SetMap
        <5> QED BY <5>1, <5>2
      <4> QED BY <2>4, <4>1
    <3> QED BY <2>4, <3>1 DEF Set
  <2>6. /\ Bounded(new, MaxKeys)
        /\ ~Room(map, MaxKeys) => ~Room(new, MaxKeys)
    <3>1. /\ IsFiniteSet(DOMAIN new) /\ Cardinality(DOMAIN new) <= MaxKeys
          /\ Cardinality(DOMAIN map) <= Cardinality(DOMAIN new)
      BY <1>1, <1>4, <2>5, BoundedSet
    <3>2. Cardinality(DOMAIN map) \in Nat /\ Cardinality(DOMAIN new) \in Nat
      BY <1>1, <3>1, FS_CardinalityType DEF Bounded
    <3> QED BY <1>1, <3>1, <3>2 DEF Bounded, Room
  <2>7. \A d \in DOMAIN new : new[d].received = now[d] /\ new[d].sent = sent[d]
    BY <1>1, <1>2, <1>3, <2>2, <2>3, <2>5
  <2>8. \A d \in Party \ DOMAIN new :
          (now[d] = 0 /\ sent[d] = 0) \/ ~Room(new, MaxKeys)
    BY <1>1, <1>2, <2>5, <2>6
  <2> QED BY <2>5, <2>6, <2>7, <2>8 DEF Carried, new, now
<1>5. CASE ~Tracked(map, c, MaxKeys)
  <2>1. new = map /\ c \notin DOMAIN map /\ ~Room(map, MaxKeys)
    BY <1>5 DEF Received, Tracked, Room
  <2> HIDE DEF new
  <2>2. \A d \in DOMAIN map : map[d].received = now[d] /\ map[d].sent = sent[d]
    BY <1>1, <1>2, <1>3, <2>1
  <2> QED BY <1>1, <2>1, <2>2 DEF Carried, new, now
<1> QED BY <1>4, <1>5

\* The outbound side, when the notification names it.
LEMMA SentCarries ==
  ASSUME NEW map, NEW received, NEW sent \in [Party -> Nat],
         Carried(map, received, sent), NEW c \in Party, NEW msat \in Nat
  PROVE  Carried(Sent(map, c, msat), received, [sent EXCEPT ![c] = @ + IF c = Unknown THEN 0 ELSE msat])
<1> DEFINE new == Sent(map, c, msat)
           now == [sent EXCEPT ![c] = @ + IF c = Unknown THEN 0 ELSE msat]
<1>1. /\ map \in Map(Party, Flow) /\ Bounded(map, MaxKeys) /\ MaxKeys \in Nat
      /\ \A d \in DOMAIN map : map[d].received = received[d] /\ map[d].sent = sent[d]
      /\ \A d \in Party \ DOMAIN map :
           (received[d] = 0 /\ sent[d] = 0) \/ ~Room(map, MaxKeys)
  BY ConstantsAssumption DEF Carried
<1>2. /\ now[c] = sent[c] + (IF c = Unknown THEN 0 ELSE msat) /\ \A d \in Party \ {c} : now[d] = sent[d]
  OBVIOUS
<1>3. NoFlow \in Flow /\ DOMAIN map \subseteq Party /\ \A d \in DOMAIN map : map[d] \in Flow
  BY <1>1 DEF NoFlow, Flow, Map
<1> HIDE DEF now
<1>4. CASE c # Unknown /\ Tracked(map, c, MaxKeys)
  <2> DEFINE old == At(map, c, NoFlow)
             flow == [old EXCEPT !.sent = @ + msat]
  <2>1. old \in Flow /\ c \in Party
    BY <1>3, <1>4 DEF At
  <2>2. old.received = received[c] /\ old.sent = sent[c]
    BY <1>1, <1>4, <2>1 DEF At, NoFlow, Tracked, Room
  <2> HIDE DEF old
  <2>3. flow \in Flow /\ flow.sent = old.sent + msat /\ flow.received = old.received
    BY <2>1 DEF Flow
  <2>4. new = Set(map, c, flow)
    BY <1>4 DEF Sent, old
  <2> HIDE DEF flow, new
  <2>5. /\ new \in Map(Party, Flow) /\ DOMAIN new = DOMAIN map \cup {c}
        /\ new[c] = flow /\ \A d \in DOMAIN map \ {c} : new[d] = map[d]
    <3>1. new \in Map(Party, Flow) /\ DOMAIN new = DOMAIN map \cup {c}
      <4>1. /\ Set(map, c, flow) \in Map(Party, Flow)
            /\ DOMAIN Set(map, c, flow) = DOMAIN map \cup {c}
        <5>1. map \in Map(Party, Flow) /\ c \in Party /\ flow \in Flow
          BY <1>1, <2>1, <2>3
        <5> QED BY ONLY <5>1, SetMap
      <4> QED BY <2>4, <4>1
    <3> QED BY <2>4, <3>1 DEF Set
  <2>6. /\ Bounded(new, MaxKeys)
        /\ ~Room(map, MaxKeys) => ~Room(new, MaxKeys)
    <3>1. /\ IsFiniteSet(DOMAIN new) /\ Cardinality(DOMAIN new) <= MaxKeys
          /\ Cardinality(DOMAIN map) <= Cardinality(DOMAIN new)
      BY <1>1, <1>4, <2>5, BoundedSet
    <3>2. Cardinality(DOMAIN map) \in Nat /\ Cardinality(DOMAIN new) \in Nat
      BY <1>1, <3>1, FS_CardinalityType DEF Bounded
    <3> QED BY <1>1, <3>1, <3>2 DEF Bounded, Room
  <2>7. \A d \in DOMAIN new : new[d].received = received[d] /\ new[d].sent = now[d]
    <3>1. new[c].received = received[c] /\ new[c].sent = now[c]
      BY <1>2, <1>4, <2>2, <2>3, <2>5
    <3>2. ASSUME NEW d \in DOMAIN map \ {c}
          PROVE  new[d].received = received[d] /\ new[d].sent = now[d]
      BY <1>1, <1>2, <1>3, <2>5
    <3> QED BY <2>5, <3>1, <3>2
  <2>8. \A d \in Party \ DOMAIN new :
          (received[d] = 0 /\ now[d] = 0) \/ ~Room(new, MaxKeys)
    BY <1>1, <1>2, <2>5, <2>6
  <2> QED BY <2>5, <2>6, <2>7, <2>8 DEF Carried, new, now
<1>5. CASE ~(c # Unknown /\ Tracked(map, c, MaxKeys))
  <2>1. new = map /\ (c = Unknown \/ (c \notin DOMAIN map /\ ~Room(map, MaxKeys)))
    BY <1>5 DEF Sent, Tracked, Room
  <2> HIDE DEF new
  <2>2. \A d \in DOMAIN map : map[d].received = received[d] /\ map[d].sent = now[d]
    BY <1>1, <1>2, <1>3, <2>1
  <2>3. \A d \in Party \ DOMAIN map :
          (received[d] = 0 /\ now[d] = 0) \/ ~Room(map, MaxKeys)
    BY <1>1, <1>2, <2>1
  <2> QED BY <1>1, <2>1, <2>2, <2>3 DEF Carried, new, now
<1> QED BY <1>4, <1>5

\* A peer's entry, likewise: its connects are `arrived` in all, of which its record
\* has one less or, for a disconnect, as many.
LEMMA PeerConnects ==
  ASSUME NEW map, NEW connects \in [Peer -> Nat], Connected(map, connects), NEW p \in Peer,
         NEW more \in {0, 1}, Tracked(map, p, MaxPeers), NEW record \in Connection,
         record.connects = At(map, p, NoConnection).connects + more
  PROVE  Connected(Set(map, p, record), [connects EXCEPT ![p] = @ + more])
<1> DEFINE new == Set(map, p, record)
           now == [connects EXCEPT ![p] = @ + more]
<1>1. /\ map \in Map(Peer, Connection) /\ Bounded(map, MaxPeers) /\ MaxPeers \in Nat
      /\ \A q \in DOMAIN map : map[q].connects = connects[q]
      /\ \A q \in Peer \ DOMAIN map : connects[q] = 0 \/ ~Room(map, MaxPeers)
  BY ConstantsAssumption DEF Connected
<1>2. now[p] = connects[p] + more /\ \A q \in Peer \ {p} : now[q] = connects[q]
  OBVIOUS
<1>3. At(map, p, NoConnection).connects = connects[p]
  BY <1>1 DEF At, NoConnection, Tracked, Room
<1>4. /\ new \in Map(Peer, Connection) /\ DOMAIN new = DOMAIN map \cup {p}
      /\ new[p] = record /\ \A q \in DOMAIN map \ {p} : new[q] = map[q]
  <2>1. new \in Map(Peer, Connection) /\ DOMAIN new = DOMAIN map \cup {p}
    BY <1>1, SetMap
  <2> QED BY <2>1 DEF Set
<1>5. DOMAIN map \subseteq Peer
  BY <1>1, MapType
<1> HIDE DEF new, now
<1>6. Bounded(new, MaxPeers) /\ (~Room(map, MaxPeers) => ~Room(new, MaxPeers))
  <2>1. /\ IsFiniteSet(DOMAIN new) /\ Cardinality(DOMAIN new) <= MaxPeers
        /\ Cardinality(DOMAIN map) <= Cardinality(DOMAIN new)
    BY <1>1, <1>4, BoundedSet
  <2>2. Cardinality(DOMAIN map) \in Nat /\ Cardinality(DOMAIN new) \in Nat
    BY <1>1, <2>1, FS_CardinalityType DEF Bounded
  <2> QED BY <1>1, <2>1, <2>2 DEF Bounded, Room
<1>7. \A q \in DOMAIN new : new[q].connects = now[q]
  BY <1>1, <1>2, <1>3, <1>4, <1>5
<1>8. \A q \in Peer \ DOMAIN new : now[q] = 0 \/ ~Room(new, MaxPeers)
  BY <1>1, <1>2, <1>4, <1>6
<1> QED BY <1>4, <1>6, <1>7, <1>8 DEF Connected, new, now

(***************************************************************************)
(* The steps.                                                              *)
(***************************************************************************)

\* A process that just started has counted nothing of nothing.
LEMMA NothingYet ==
  /\ Empty \in Map(Key, Nat \ {0}) /\ Counted(Empty, 0)
  /\ Carried(Empty, NoTruth.received, NoTruth.sent)
  /\ Connected(Empty, NoTruth.connects)
  /\ Observed(NoLatency, Empty)
  /\ NoTruth \in Truth
<1>1. /\ DOMAIN Empty = {} /\ IsFiniteSet({}) /\ Cardinality({}) = 0
      /\ \A D, R : Empty \in Map(D, R)
  <2>1. \A D, R : Empty \in [{} -> R] /\ {} \in SUBSET D
    BY DEF Empty
  <2> QED BY <2>1, FS_EmptySet DEF Empty, Map
<1>2. SumOf(Empty, {}) = 0
  BY SumEmpty
<1>3. Total(Empty) = 0
  BY <1>1, <1>2 DEF Total, SumOf
<1>4. {MaxKeys, MaxPeers} \subseteq Nat
  BY ConstantsAssumption
<1>5. Counted(Empty, 0)
  <2>1. DOMAIN Empty \ {Other} = {}
    BY <1>1
  <2> QED BY <1>1, <1>3, <1>4, <2>1 DEF Counted
<1>6. Carried(Empty, NoTruth.received, NoTruth.sent)
  BY <1>1, <1>4 DEF Carried, Bounded, NoTruth
<1>7. Connected(Empty, NoTruth.connects)
  BY <1>1, <1>4 DEF Connected, Bounded, NoTruth
<1>8. Observed(NoLatency, Empty)
  <2>1. \A S : DOMAIN Empty \cap S = {}
    BY <1>1
  <2>2. \A S : SumOf(Empty, DOMAIN Empty \cap S) = 0
    BY <1>2, <2>1, Zenon
  <2>3. Len(Buckets) \in Nat /\ DOMAIN Buckets = 1..Len(Buckets)
    BY ConstantsAssumption
  <2>4. NoLatency \in Histogram
    BY <2>3 DEF NoLatency, Histogram
  <2>5. /\ \A i \in DOMAIN Buckets : NoLatency.buckets[i] = 0
        /\ NoLatency.buckets[Len(Buckets) + 1] = 0 /\ NoLatency.count = 0
    BY <2>3 DEF NoLatency
  <2>6. Shows(NoLatency, Empty)
    BY <2>2, <2>5 DEF Shows, SumOf
  <2> QED BY <1>1, <2>4, <2>6 DEF Observed
<1>9. NoTruth \in Truth
  BY <1>1 DEF NoTruth, Truth
<1> QED BY <1>1, <1>5, <1>6, <1>7, <1>8, <1>9

\* EventCounters::default()
Started ==
  /\ ClockOK /\ counts = NoCounts /\ flows = Empty /\ peers = Empty
  /\ invoices = NoInvoices /\ sendpays = NoSendpays /\ block = NoBlock
  /\ truth = NoTruth

\* The counters of a process that just started satisfy the invariant.
LEMMA FreshStart == Started => IInv
<1> SUFFICES ASSUME Started PROVE IInv
  OBVIOUS
<1> USE DEF Started
<1>1. CountsOK
  <2>1. /\ counts \in [Counter -> Map(Key, Nat \ {0})]
        /\ \A m \in Counter : counts[m] = Empty
    BY NothingYet DEF NoCounts
  <2>2. /\ truth.handled = 0 /\ \A m \in Counter : truth.tallied[m] = 0
        /\ "notifications" \in Counter
    BY DEF NoTruth, Counter
  <2> QED BY <2>1, <2>2, NothingYet DEF CountsOK
<1>2. FlowsOK /\ PeersOK
  BY NothingYet DEF FlowsOK, PeersOK, Empty
<1>3. DOMAIN Empty = {} /\ IsFiniteSet({}) /\ Cardinality({}) = 0 /\ MaxPending \in Nat
      /\ \A D, R : Empty \in Map(D, R)
  <2>1. \A D, R : Empty \in [{} -> R] /\ {} \in SUBSET D
    BY DEF Empty
  <2> QED BY <2>1, FS_EmptySet, ConstantsAssumption DEF Empty, Map
<1>4. /\ NoLatency \in Histogram /\ NoLatency.count = 0
      /\ NoTruth.invoices = Empty /\ NoTruth.sendpays = Empty
  BY NothingYet DEF Observed, NoLatency, NoTruth
<1>5. InvoicesOK
  <2>1. invoices.pending = Empty /\ invoices.latency = NoLatency /\ invoices.created = 0
        /\ invoices.paid = 0
    BY DEF NoInvoices
  <2>2. invoices \in [created : Nat, paid : Nat, pending : Map(Label, 0..MaxTime),
                      latency : Histogram]
    BY <1>3, <1>4 DEF NoInvoices
  <2> QED BY <1>3, <1>4, <2>1, <2>2, NothingYet DEF InvoicesOK, Bounded, PaidWereCreated
<1>6. SendpaysOK
  BY <1>3, <1>4, NothingYet DEF SendpaysOK, NoSendpays
<1>7. BlockOK
  BY DEF BlockOK, NoBlock
<1> QED BY <1>1, <1>2, <1>5, <1>6, <1>7, NothingYet DEF IInv

\* The maps after a notification, given what its topic does to them.
LEMMA NotifiedCounts ==
  ASSUME ClockOK, NEW topic, NEW maps \in [Counter -> Map(Key, Nat \ {0})],
         Notified(topic, maps), truth.handled \in Nat,
         Counted(maps["notifications"], truth.handled),
         \A m \in Counter \ {"notifications"} : Counted(maps[m], truth'.tallied[m]),
         truth'.handled = truth.handled + 1
  PROVE  CountsOK' /\ ClockOK'
<1>1. /\ topic \in Key /\ "notifications" \in Counter
      /\ counts' = [maps EXCEPT !["notifications"] = BoundedIncrement(@, topic)]
      /\ UNCHANGED <<scenario, clock>>
  BY DEF ClockOK, Notified, Key, Topics, Counter
<1>2. Counted(BoundedIncrement(maps["notifications"], topic), truth.handled + 1)
  BY <1>1, BoundedIncrementCounts
<1>3. BoundedIncrement(maps["notifications"], topic) \in Map(Key, Nat \ {0})
  BY <1>2 DEF Counted
<1>4. counts' \in [Counter -> Map(Key, Nat \ {0})]
  BY <1>1, <1>3
<1>5. Counted(counts'["notifications"], truth'.handled)
  BY <1>1, <1>2
<1>6. \A m \in Counter \ {"notifications"} : Counted(counts'[m], truth'.tallied[m])
  BY <1>1
<1>7. CountsOK'
  BY <1>4, <1>5, <1>6 DEF CountsOK
<1> QED BY <1>1, <1>7 DEF ClockOK

\* A topic that no other map counts.
LEMMA PlainNotification ==
  ASSUME IInv, NEW topic, Notified(topic, counts), truth'.handled = truth.handled + 1,
         truth'.tallied = truth.tallied
  PROVE  CountsOK' /\ ClockOK'
<1>1. truth.handled \in Nat
  BY DEF IInv, Truth
<1> QED BY <1>1, NotifiedCounts DEF IInv, CountsOK

\* A topic one of whose fields is counted in another map.
LEMMA FieldNotification ==
  ASSUME IInv, NEW topic, NEW map \in Counter \ {"notifications"}, NEW field \in Key,
         Notified(topic, [counts EXCEPT ![map] = BoundedIncrement(@, field)]),
         truth'.handled = truth.handled + 1,
         truth'.tallied = [truth.tallied EXCEPT ![map] = @ + 1]
  PROVE  CountsOK' /\ ClockOK'
<1> DEFINE maps == [counts EXCEPT ![map] = BoundedIncrement(@, field)]
<1>1. /\ truth.handled \in Nat /\ truth.tallied \in [Counter -> Nat]
      /\ counts \in [Counter -> Map(Key, Nat \ {0})] /\ "notifications" \in Counter
  BY DEF IInv, Truth, CountsOK, Counter
<1>2. Counted(counts[map], truth.tallied[map])
  BY DEF IInv, CountsOK
<1>3. Counted(BoundedIncrement(counts[map], field), truth.tallied[map] + 1)
  BY <1>2, BoundedIncrementCounts
<1>4. BoundedIncrement(counts[map], field) \in Map(Key, Nat \ {0})
  BY <1>3 DEF Counted
<1>5. maps \in [Counter -> Map(Key, Nat \ {0})]
  BY <1>1, <1>4
<1>6. Counted(maps["notifications"], truth.handled)
  BY <1>1 DEF IInv, CountsOK
<1>7. \A m \in Counter \ {"notifications"} : Counted(maps[m], truth'.tallied[m])
  BY <1>1, <1>3 DEF IInv, CountsOK
<1> HIDE DEF maps
<1>8. Notified(topic, maps)
  BY DEF maps
<1> QED BY <1>1, <1>5, <1>6, <1>7, <1>8, NotifiedCounts DEF IInv

\* What a notification leaves alone stays true.
LEMMA PartsKept ==
  ASSUME IInv, truth' \in Truth, truth'.handled = truth.handled + 1
  PROVE  /\ /\ UNCHANGED flows
            /\ truth'.received = truth.received /\ truth'.sent = truth.sent
            => FlowsOK'
         /\ UNCHANGED peers /\ truth'.connects = truth.connects => PeersOK'
         /\ UNCHANGED invoices /\ truth'.invoices = truth.invoices => InvoicesOK'
         /\ UNCHANGED sendpays /\ truth'.sendpays = truth.sendpays => SendpaysOK'
         /\ UNCHANGED block => BlockOK'
<1>1. truth'.handled # 0
  BY DEF IInv, Truth
<1> QED BY <1>1 DEF IInv, FlowsOK, PeersOK, InvoicesOK, SendpaysOK, BlockOK, PaidWereCreated

\* Notifications of which a field is counted.
LEMMA TallyStep ==
  ASSUME IInv, NEW topic \in DOMAIN Tallied, NEW f \in Field, Tally(topic, f)
  PROVE  IInv'
<1>1. Tallied[topic] \in Counter \ {"notifications"} /\ f \in Key
  BY DEF Tallied, Counter, Key
<1>2. /\ Notified(topic, [counts EXCEPT ![Tallied[topic]] = BoundedIncrement(@, f)])
      /\ truth' = [Handled EXCEPT !.tallied[Tallied[topic]] = @ + 1]
      /\ UNCHANGED <<flows, peers, invoices, sendpays, block>>
  BY DEF Tally
<1> DEFINE map == Tallied[topic]
<1> HIDE DEF map
<1>3. /\ truth' \in Truth /\ truth'.handled = truth.handled + 1
      /\ truth'.tallied = [truth.tallied EXCEPT ![map] = @ + 1]
      /\ truth'.received = truth.received /\ truth'.sent = truth.sent
      /\ truth'.connects = truth.connects
      /\ truth'.invoices = truth.invoices /\ truth'.sendpays = truth.sendpays
  <2>1. truth \in Truth /\ map \in Counter
    BY <1>1 DEF IInv, map
  <2>2. truth.handled + 1 \in Nat /\ [truth.tallied EXCEPT ![map] = @ + 1] \in [Counter -> Nat]
    BY <2>1 DEF Truth
  <2>3. truth' = [truth EXCEPT !.handled = truth.handled + 1,
                               !.tallied = [truth.tallied EXCEPT ![map] = @ + 1]]
    BY <1>2, <2>1 DEF Handled, Truth, map
  <2> QED BY <2>1, <2>2, <2>3 DEF Truth
<1>4. CountsOK' /\ ClockOK'
  BY <1>1, <1>2, <1>3, FieldNotification DEF map
<1> QED BY <1>2, <1>3, <1>4, PartsKept DEF IInv

\* What a step of the history variable does that only counts the notification.
LEMMA OnlyHandled ==
  ASSUME IInv, truth' = Handled
  PROVE  /\ truth' \in Truth /\ truth'.handled = truth.handled + 1
         /\ truth'.tallied = truth.tallied
         /\ truth'.received = truth.received /\ truth'.sent = truth.sent
         /\ truth'.connects = truth.connects
         /\ truth'.invoices = truth.invoices /\ truth'.sendpays = truth.sendpays
<1>1. truth \in Truth /\ truth.handled + 1 \in Nat
  BY DEF IInv, Truth
<1> QED BY <1>1 DEF Handled, Truth

\* forward_event.
LEMMA ForwardStep ==
  ASSUME IInv, NEW status \in {"offered", "settled"}, NEW c \in Party,
         NEW d \in Party, ForwardEvent(status, c, d)
  PROVE  IInv'
<1>1. "forwards" \in Counter \ {"notifications"} /\ status \in Key
  BY DEF Counter, Key
<1>2. /\ Notified("forward_event", [counts EXCEPT !["forwards"] = BoundedIncrement(@, status)])
      /\ UNCHANGED <<peers, invoices, sendpays, block>>
  BY DEF ForwardEvent
<1> DEFINE tallied == [truth.tallied EXCEPT !["forwards"] = @ + 1]
           received == [truth.received EXCEPT ![c] = @ + 2]
           out == IF d = Unknown THEN 0 ELSE 1
           sent == [truth.sent EXCEPT ![d] = @ + out]
<1>3. /\ truth \in Truth /\ truth.handled + 1 \in Nat /\ tallied \in [Counter -> Nat]
      /\ received \in [Party -> Nat] /\ sent \in [Party -> Nat]
      /\ truth.received \in [Party -> Nat] /\ truth.sent \in [Party -> Nat]
  BY <1>1 DEF IInv, Truth
<1>4. /\ truth' \in Truth /\ truth'.handled = truth.handled + 1 /\ truth'.tallied = tallied
      /\ truth'.connects = truth.connects
      /\ truth'.invoices = truth.invoices /\ truth'.sendpays = truth.sendpays
      /\ FlowsOK'
  <2>1. CASE status = "settled"
    <3>1. /\ flows' = Sent(Received(flows, c, 2, 1), d, 1)
          /\ truth' = [Handled EXCEPT !.tallied["forwards"] = @ + 1,
                                      !.received[c] = @ + 2, !.sent[d] = @ + out]
      BY <2>1 DEF ForwardEvent
    <3>2. truth' = [truth EXCEPT !.handled = truth.handled + 1, !.tallied = tallied,
                                 !.received = received, !.sent = sent]
      BY <1>3, <3>1 DEF Handled, Truth
    <3>3. Carried(Received(flows, c, 2, 1), received, truth.sent)
      BY <1>3, ReceivedCarries DEF IInv, FlowsOK
    <3> HIDE DEF tallied, received
    <3>4. Carried(flows', received, sent)
      BY <1>3, <3>1, <3>3, SentCarries
    <3> HIDE DEF sent
    <3> QED BY <1>3, <3>2, <3>4 DEF Truth, FlowsOK
  <2>2. CASE status # "settled"
    <3>1. flows' = flows /\ truth' = [Handled EXCEPT !.tallied["forwards"] = @ + 1]
      BY <2>2 DEF ForwardEvent
    <3>2. truth' = [truth EXCEPT !.handled = truth.handled + 1, !.tallied = tallied]
      BY <1>3, <3>1 DEF Handled, Truth
    <3> HIDE DEF tallied, received, sent
    <3> QED BY <1>3, <3>1, <3>2 DEF Truth, FlowsOK, IInv
  <2> QED BY <2>1, <2>2
<1>5. CountsOK' /\ ClockOK'
  BY <1>1, <1>2, <1>4, FieldNotification
<1> QED BY <1>2, <1>4, <1>5, PartsKept DEF IInv

\* The time of a connection is one of this instance.
LEMMA ClockTime == ASSUME ClockOK PROVE clock \in 0..MaxTime /\ clock \in Nat
BY ConstantsAssumption DEF ClockOK

\* A peer's entry is one, present or new.
LEMMA PeerEntry ==
  ASSUME IInv, NEW p \in Peer
  PROVE  At(peers, p, NoConnection) \in Connection
<1>1. NoConnection \in Connection
  BY DEF NoConnection, Connection
<1> QED BY <1>1 DEF IInv, PeersOK, Connected, Map, At

\* connect.
LEMMA ConnectStep ==
  ASSUME IInv, NEW p \in Peer, Connect(p)
  PROVE  IInv'
<1> DEFINE c == At(peers, p, NoConnection)
           record == [c EXCEPT !.connects = @ + 1, !.since = Since(c)]
           connects == [truth.connects EXCEPT ![p] = @ + 1]
<1>1. /\ Notified("connect", counts)
      /\ peers' = IF Tracked(peers, p, MaxPeers) THEN Set(peers, p, record) ELSE peers
      /\ truth' = [Handled EXCEPT !.connects[p] = @ + 1]
      /\ UNCHANGED <<flows, invoices, sendpays, block>>
  BY DEF Connect
<1>2. /\ truth \in Truth /\ truth.handled + 1 \in Nat /\ truth.connects \in [Peer -> Nat]
      /\ connects \in [Peer -> Nat] /\ connects[p] = truth.connects[p] + 1
      /\ \A q \in Peer \ {p} : connects[q] = truth.connects[q]
  BY DEF IInv, Truth
<1>3. truth' = [truth EXCEPT !.handled = truth.handled + 1, !.connects = connects]
  BY <1>1, <1>2 DEF Handled, Truth
<1> HIDE DEF connects
<1>4. /\ truth' \in Truth /\ truth'.handled = truth.handled + 1 /\ truth'.connects = connects
      /\ truth'.tallied = truth.tallied
      /\ truth'.received = truth.received /\ truth'.sent = truth.sent
      /\ truth'.invoices = truth.invoices /\ truth'.sendpays = truth.sendpays
  BY <1>2, <1>3 DEF Truth
<1>5. record \in Connection /\ record.connects = c.connects + 1
  <2>1. c \in Connection /\ clock \in 0..MaxTime
    BY PeerEntry, ClockTime DEF IInv
  <2> HIDE DEF c
  <2>2. Since(c) \in 0..MaxTime \cup {None} /\ c.connects + 1 \in Nat
    BY <2>1 DEF Since, Connection
  <2>3. ASSUME NEW n \in Nat, NEW s \in 0..MaxTime \cup {None}
        PROVE  LET r == [c EXCEPT !.connects = n, !.since = s]
               IN  r \in Connection /\ r.connects = n
    BY <2>1 DEF Connection
  <2> QED BY <2>2, <2>3, Zenon
<1> HIDE DEF record
<1>6. Connected(peers', connects)
  <2>1. CASE Tracked(peers, p, MaxPeers)
    <3>1. Connected(Set(peers, p, record), [truth.connects EXCEPT ![p] = @ + 1])
      BY <1>2, <1>5, <2>1, PeerConnects DEF IInv, PeersOK
    <3> QED BY <1>1, <2>1, <3>1 DEF connects
  <2>2. CASE ~Tracked(peers, p, MaxPeers)
    <3>1. DOMAIN peers \subseteq Peer
      BY DEF IInv, PeersOK, Connected, Map
    <3> QED BY <1>1, <1>2, <2>2, <3>1 DEF IInv, PeersOK, Connected, Tracked, Room
  <2> QED BY <2>1, <2>2
<1>7. PeersOK'
  BY <1>2, <1>4, <1>6 DEF PeersOK, Truth
<1>8. CountsOK' /\ ClockOK'
  BY <1>1, <1>4, PlainNotification
<1> QED BY <1>1, <1>4, <1>7, <1>8, PartsKept DEF IInv

\* disconnect, of a peer that may be unknown.
LEMMA DisconnectStep ==
  ASSUME IInv, NEW p \in Peer, Disconnect(p)
  PROVE  IInv'
<1> DEFINE c == At(peers, p, NoConnection)
           d == IF c.since = None THEN 0 ELSE Minus(clock, c.since)
           record == [c EXCEPT !.disconnects = @ + 1, !.total = @ + d, !.since = None]
<1>1. /\ Notified("disconnect", counts)
      /\ peers' = IF Tracked(peers, p, MaxPeers) THEN Set(peers, p, record) ELSE peers
      /\ truth' = Handled
      /\ UNCHANGED <<flows, invoices, sendpays, block>>
  BY DEF Disconnect
<1>2. /\ truth.connects \in [Peer -> Nat] /\ truth.handled \in Nat
      /\ [truth.connects EXCEPT ![p] = @ + 0] = truth.connects
  BY DEF IInv, Truth
<1>3. record \in Connection /\ record.connects = c.connects + 0
  <2>1. c \in Connection /\ clock \in 0..MaxTime /\ clock \in Nat
    BY PeerEntry, ClockTime DEF IInv
  <2> HIDE DEF c
  <2>2. d \in Nat
    BY <2>1 DEF Connection, Minus
  <2> HIDE DEF d
  <2>3. c.disconnects + 1 \in Nat /\ c.total + d \in Nat /\ c.connects + 0 = c.connects
    BY <2>1, <2>2 DEF Connection
  <2>4. ASSUME NEW n \in Nat, NEW t \in Nat
        PROVE  LET r == [c EXCEPT !.disconnects = n, !.total = t, !.since = None]
               IN  r \in Connection /\ r.connects = c.connects
    BY <2>1 DEF Connection
  <2> QED BY <2>3, <2>4, Zenon
<1> HIDE DEF record
<1>4. Connected(peers', truth.connects)
  <2>1. CASE Tracked(peers, p, MaxPeers)
    <3>1. Connected(Set(peers, p, record), [truth.connects EXCEPT ![p] = @ + 0])
      BY <1>2, <1>3, <2>1, PeerConnects DEF IInv, PeersOK
    <3> QED BY <1>1, <1>2, <2>1, <3>1
  <2>2. CASE ~Tracked(peers, p, MaxPeers)
    BY <1>1, <2>2 DEF IInv, PeersOK
  <2> QED BY <2>1, <2>2
<1>5. PeersOK'
  BY <1>1, <1>2, <1>4, OnlyHandled DEF PeersOK
<1>6. CountsOK' /\ ClockOK'
  BY <1>1, OnlyHandled, PlainNotification
<1> QED BY <1>1, <1>5, <1>6, OnlyHandled, PartsKept DEF IInv

\* The invoices in parts.
LEMMA InvoiceParts ==
  ASSUME IInv
  PROVE  /\ invoices = [created |-> invoices.created, paid |-> invoices.paid,
                        pending |-> invoices.pending, latency |-> invoices.latency]
         /\ invoices.created \in Nat /\ invoices.paid \in Nat
         /\ invoices.pending \in Map(Label, 0..MaxTime) /\ invoices.latency \in Histogram
         /\ invoices.latency.count \in Nat /\ MaxPending \in Nat
         /\ Cardinality(DOMAIN invoices.pending) \in Nat
BY FS_CardinalityType, ConstantsAssumption DEF IInv, InvoicesOK, Bounded, Histogram

\* invoice_creation: the label is pending if there is room, and created in any case.
LEMMA InvoiceCreationStep ==
  ASSUME IInv, NEW l \in Label, InvoiceCreation(l)
  PROVE  IInv'
<1> DEFINE pending == IF Tracked(invoices.pending, l, MaxPending)
                      THEN Set(invoices.pending, l, clock) ELSE invoices.pending
<1>1. /\ Notified("invoice_creation", counts)
      /\ invoices' = [invoices EXCEPT !.created = @ + 1, !.pending = pending]
      /\ truth' = Handled
      /\ UNCHANGED <<flows, peers, sendpays, block>>
  BY DEF InvoiceCreation
<1>2. /\ pending \in Map(Label, 0..MaxTime) /\ Bounded(pending, MaxPending)
      /\ Cardinality(DOMAIN pending) \in Nat
      /\ Cardinality(DOMAIN pending) <= Cardinality(DOMAIN invoices.pending) + 1
  <2> DEFINE old == invoices.pending
  <2>1. /\ old \in Map(Label, 0..MaxTime) /\ clock \in 0..MaxTime /\ Bounded(old, MaxPending)
        /\ Cardinality(DOMAIN old) \in Nat /\ MaxPending \in Nat
    BY InvoiceParts, ClockTime DEF IInv, InvoicesOK
  <2> HIDE DEF old
  <2>2. CASE Tracked(old, l, MaxPending)
    <3>1. pending = Set(old, l, clock)
      BY <2>2 DEF old
    <3> HIDE DEF pending
    <3>2. pending \in Map(Label, 0..MaxTime) /\ DOMAIN pending = DOMAIN old \cup {l}
      <4> DEFINE Time == 0..MaxTime
      <4>1. old \in Map(Label, Time) /\ clock \in Time
        BY <2>1
      <4> HIDE DEF Time
      <4>2. /\ Set(old, l, clock) \in Map(Label, Time)
            /\ DOMAIN Set(old, l, clock) = DOMAIN old \cup {l}
        BY <4>1, SetMap
      <4> QED BY <3>1, <4>2 DEF Time
    <3>3. IsFiniteSet(DOMAIN pending) /\ Cardinality(DOMAIN pending) <= MaxPending
      BY <2>1, <2>2, <3>2, BoundedSet
    <3>4. Cardinality(DOMAIN pending) <= Cardinality(DOMAIN old) + 1
      <4>1. Cardinality(DOMAIN old \cup {l})
              = IF l \in DOMAIN old THEN Cardinality(DOMAIN old) ELSE Cardinality(DOMAIN old) + 1
        BY <2>1, FS_AddElement DEF Bounded
      <4> QED BY <2>1, <3>2, <4>1
    <3> QED BY <3>2, <3>3, <3>4, FS_CardinalityType DEF Bounded, old
  <2>3. CASE ~Tracked(old, l, MaxPending)
    <3>1. pending = old
      BY <2>3 DEF old
    <3> QED BY <2>1, <3>1 DEF old
  <2> QED BY <2>2, <2>3
<1> HIDE DEF pending
<1>3. /\ invoices'.created = invoices.created + 1 /\ invoices'.paid = invoices.paid
      /\ invoices'.pending = pending /\ invoices'.latency = invoices.latency
      /\ invoices' = [created |-> invoices.created + 1, paid |-> invoices.paid,
                      pending |-> pending, latency |-> invoices.latency]
  <2>1. invoices' = [[created |-> invoices.created, paid |-> invoices.paid,
                      pending |-> invoices.pending, latency |-> invoices.latency]
                       EXCEPT !.created = invoices.created + 1, !.pending = pending]
    BY <1>1, InvoiceParts, Zenon
  <2> QED BY <2>1
<1>4. InvoicesOK'
  <2>1. invoices' \in [created : Nat, paid : Nat, pending : Map(Label, 0..MaxTime),
                       latency : Histogram]
    <3>1. invoices.created + 1 \in Nat
      BY InvoiceParts
    <3> QED BY <1>2, <1>3, <3>1, InvoiceParts
  <2>2. PaidWereCreated'
    BY <1>2, <1>3, InvoiceParts DEF IInv, InvoicesOK, PaidWereCreated
  <2> QED BY <1>1, <1>2, <1>3, <2>1, <2>2, OnlyHandled DEF IInv, InvoicesOK
<1>5. CountsOK' /\ ClockOK'
  BY <1>1, OnlyHandled, PlainNotification
<1> QED BY <1>1, <1>4, <1>5, OnlyHandled, PartsKept DEF IInv

\* invoice_payment: a pending invoice turns into an observation of the histogram.
LEMMA InvoicePaymentStep ==
  ASSUME IInv, NEW l \in Label, InvoicePayment(l)
  PROVE  IInv'
<1>1. /\ Notified("invoice_payment", counts)
      /\ UNCHANGED <<flows, peers, sendpays, block>>
  BY DEF InvoicePayment
<1>2. /\ truth' \in Truth /\ truth'.handled = truth.handled + 1
      /\ truth'.tallied = truth.tallied /\ truth'.connects = truth.connects
      /\ truth'.received = truth.received /\ truth'.sent = truth.sent
      /\ truth'.sendpays = truth.sendpays
      /\ InvoicesOK'
  <2>1. CASE l \in DOMAIN invoices.pending
    <3> DEFINE old == invoices.pending
               s == Minus(clock, old[l])
               seen == Add(truth.invoices, s)
               h == Observe(invoices.latency, s)
               pending == Without(old, l)
    <3>1. /\ invoices' = [invoices EXCEPT !.paid = @ + 1, !.pending = pending, !.latency = h]
          /\ truth' = [Handled EXCEPT !.invoices = seen]
      BY <2>1 DEF InvoicePayment, Handled
    <3>2. old \in Map(Label, 0..MaxTime) /\ Bounded(old, MaxPending) /\ clock \in Nat
      BY InvoiceParts, ClockTime DEF IInv, InvoicesOK
    <3>3. s \in Nat
      <4>1. old[l] \in 0..MaxTime
        BY <2>1, <3>2 DEF Map
      <4> HIDE DEF old
      <4> QED BY <3>2, <4>1 DEF Minus
    <3> HIDE DEF s
    <3>4. Observed(h, seen)
      BY <3>3, ObserveExact DEF IInv, InvoicesOK
    <3>5. /\ pending \in Map(Label, 0..MaxTime) /\ Bounded(pending, MaxPending)
          /\ Cardinality(DOMAIN pending) \in Nat
          /\ Cardinality(DOMAIN pending) = Cardinality(DOMAIN old) - 1
      <4> HIDE DEF old
      <4>1. DOMAIN old \subseteq Label /\ \A x \in DOMAIN old : old[x] \in 0..MaxTime
        BY <3>2 DEF Map
      <4>2. pending \in [DOMAIN old \ {l} -> 0..MaxTime] /\ DOMAIN pending = DOMAIN old \ {l}
        BY <4>1 DEF Without
      <4>3. pending \in Map(Label, 0..MaxTime)
        BY <4>1, <4>2 DEF Map
      <4> HIDE DEF pending
      <4>4. /\ IsFiniteSet(DOMAIN pending) /\ l \in DOMAIN old
            /\ Cardinality(DOMAIN pending) = Cardinality(DOMAIN old) - 1
        BY <2>1, <3>2, <4>2, FS_RemoveElement DEF Bounded, old
      <4>5. /\ Cardinality(DOMAIN pending) \in Nat /\ Cardinality(DOMAIN old) \in Nat
            /\ MaxPending \in Nat
        BY <3>2, <4>4, FS_CardinalityType, ConstantsAssumption DEF Bounded
      <4> QED BY <3>2, <4>3, <4>4, <4>5 DEF Bounded
    <3>6. h \in Histogram /\ h.count = invoices.latency.count + 1 /\ seen \in Map(Nat, Nat)
      BY <3>4 DEF Observed, Observe
    <3> HIDE DEF h, seen, pending
    <3>7. /\ invoices'.created = invoices.created /\ invoices'.paid = invoices.paid + 1
          /\ invoices'.pending = pending /\ invoices'.latency = h
          /\ invoices' = [created |-> invoices.created, paid |-> invoices.paid + 1,
                          pending |-> pending, latency |-> h]
      <4>1. invoices' = [[created |-> invoices.created, paid |-> invoices.paid,
                          pending |-> invoices.pending, latency |-> invoices.latency]
                           EXCEPT !.paid = invoices.paid + 1, !.pending = pending, !.latency = h]
        BY <3>1, InvoiceParts, Zenon
      <4> QED BY <4>1
    <3>8. /\ truth' \in Truth /\ truth'.handled = truth.handled + 1 /\ truth'.invoices = seen
          /\ truth'.tallied = truth.tallied /\ truth'.connects = truth.connects
          /\ truth'.received = truth.received /\ truth'.sent = truth.sent
          /\ truth'.sendpays = truth.sendpays
      <4>1. truth \in Truth /\ truth.handled + 1 \in Nat
        BY DEF IInv, Truth
      <4>2. truth' = [truth EXCEPT !.handled = truth.handled + 1, !.invoices = seen]
        BY <3>1, <4>1 DEF Handled, Truth
      <4> QED BY <3>6, <4>1, <4>2 DEF Truth
    <3>9. InvoicesOK'
      <4>1. invoices' \in [created : Nat, paid : Nat, pending : Map(Label, 0..MaxTime),
                           latency : Histogram]
        <5>1. invoices.paid + 1 \in Nat
          BY InvoiceParts
        <5> QED BY <3>5, <3>6, <3>7, <5>1, InvoiceParts
      <4>2. PaidWereCreated'
        BY <3>5, <3>6, <3>7, InvoiceParts DEF IInv, InvoicesOK, PaidWereCreated
      <4> QED BY <3>4, <3>5, <3>7, <3>8, <4>1, <4>2 DEF InvoicesOK
    <3> QED BY <3>8, <3>9
  <2>2. CASE l \notin DOMAIN invoices.pending
    <3>1. invoices' = [invoices EXCEPT !.paid = @ + 1] /\ truth' = Handled
      BY <2>2 DEF InvoicePayment
    <3>2. /\ invoices'.created = invoices.created /\ invoices'.pending = invoices.pending
          /\ invoices'.latency = invoices.latency
          /\ invoices' \in [created : Nat, paid : Nat, pending : Map(Label, 0..MaxTime),
                            latency : Histogram]
      <4>1. invoices' = [[created |-> invoices.created, paid |-> invoices.paid,
                          pending |-> invoices.pending, latency |-> invoices.latency]
                           EXCEPT !.paid = invoices.paid + 1]
        BY <3>1, InvoiceParts, Zenon
      <4>2. invoices.paid + 1 \in Nat
        BY InvoiceParts
      <4> QED BY <4>1, <4>2, InvoiceParts
    <3>3. InvoicesOK'
      BY <3>1, <3>2, OnlyHandled DEF IInv, InvoicesOK, PaidWereCreated
    <3> QED BY <3>1, <3>3, OnlyHandled
  <2> QED BY <2>1, <2>2
<1>3. CountsOK' /\ ClockOK'
  BY <1>1, <1>2, PlainNotification
<1> QED BY <1>1, <1>2, <1>3, PartsKept DEF IInv

\* block_added.
LEMMA BlockStep ==
  ASSUME IInv, NEW height \in {None, 1}, BlockAdded(height)
  PROVE  IInv'
<1>1. /\ Notified("block_added", counts) /\ block' = [height |-> height, time |-> clock]
      /\ truth' = Handled /\ UNCHANGED <<flows, peers, invoices, sendpays>>
  BY DEF BlockAdded
<1>2. BlockOK'
  BY <1>1, ClockTime DEF IInv, BlockOK
<1>3. CountsOK' /\ ClockOK'
  BY <1>1, OnlyHandled, PlainNotification
<1> QED BY <1>1, <1>2, <1>3, OnlyHandled, PartsKept DEF IInv

\* sendpay_success and sendpay_failure: observed when both times are there.
LEMMA SendpayStep ==
  ASSUME IInv, NEW topic \in {"sendpay_success", "sendpay_failure"},
         NEW times \in {<<>>} \cup ((0..MaxTime) \X (0..MaxTime)), Sendpay(topic, times)
  PROVE  IInv'
<1> DEFINE s == Minus(times[2], times[1])
           seen == IF times = <<>> THEN truth.sendpays ELSE Add(truth.sendpays, s)
           h == IF times = <<>> THEN sendpays.latency ELSE Observe(sendpays.latency, s)
           events == Add(sendpays.events, topic)
<1>1. /\ Notified(topic, counts)
      /\ sendpays' = [sendpays EXCEPT !.events = events, !.latency = h]
      /\ truth' = [Handled EXCEPT !.sendpays = seen]
      /\ UNCHANGED <<flows, peers, invoices, block>>
  BY DEF Sendpay, Handled
<1>2. Observed(h, seen)
  <2>1. CASE times = <<>>
    BY <2>1 DEF IInv, SendpaysOK
  <2>2. CASE times # <<>>
    <3>1. times[1] \in 0..MaxTime /\ times[2] \in 0..MaxTime /\ MaxTime \in Nat
      BY <2>2, ConstantsAssumption
    <3>2. s \in Nat
      BY <3>1 DEF Minus
    <3> HIDE DEF s
    <3>3. Observed(Observe(sendpays.latency, s), Add(truth.sendpays, s))
      BY <3>2, ObserveExact DEF IInv, SendpaysOK
    <3> QED BY <2>2, <3>3
  <2> QED BY <2>1, <2>2
<1>3. h \in Histogram /\ seen \in Map(Nat, Nat)
  BY <1>2 DEF Observed
<1>4. events \in Map({"sendpay_success", "sendpay_failure"}, Nat \ {0})
  BY AddPositive DEF IInv, SendpaysOK
<1> HIDE DEF h, seen, events
<1>5. SendpaysOK' /\ truth' \in Truth /\ truth'.handled = truth.handled + 1
      /\ truth'.tallied = truth.tallied /\ truth'.connects = truth.connects
      /\ truth'.received = truth.received /\ truth'.sent = truth.sent
      /\ truth'.invoices = truth.invoices
  <2>1. truth \in Truth /\ truth.handled + 1 \in Nat
    BY DEF IInv, Truth
  <2>2. truth' = [truth EXCEPT !.handled = truth.handled + 1, !.sendpays = seen]
    BY <1>1, <2>1 DEF Handled, Truth
  <2>3. /\ truth' \in Truth /\ truth'.handled = truth.handled + 1
        /\ truth'.tallied = truth.tallied /\ truth'.connects = truth.connects
        /\ truth'.received = truth.received /\ truth'.sent = truth.sent
        /\ truth'.invoices = truth.invoices /\ truth'.sendpays = seen
    BY <1>3, <2>1, <2>2 DEF Truth
  <2>4. /\ sendpays'.latency = h
        /\ sendpays' \in [events : Map({"sendpay_success", "sendpay_failure"}, Nat \ {0}),
                          latency : Histogram]
    BY <1>1, <1>3, <1>4 DEF IInv, SendpaysOK
  <2>5. SendpaysOK'
    BY <1>2, <2>3, <2>4 DEF SendpaysOK
  <2> QED BY <2>3, <2>5
<1>6. CountsOK' /\ ClockOK'
  BY <1>1, <1>5, PlainNotification
<1> QED BY <1>1, <1>5, <1>6, PartsKept DEF IInv

\* The clock goes on or is set back, or nothing happens.
LEMMA TickStep ==
  ASSUME IInv, Tick \/ SetClockBack \/ UNCHANGED vars
  PROVE  IInv'
<1>1. UNCHANGED <<scenario, counts, flows, peers, invoices, sendpays, block, truth>>
  BY DEF Tick, SetClockBack, vars
<1>2. ClockOK'
  <2>1. /\ clock \in Nat /\ clock <= scenario.time /\ scenario \in Scenarios
        /\ scenario.time \in Nat /\ scenario.stepBack \in Nat
    BY ClockTime, ConstantsAssumption DEF IInv, ClockOK
  <2>2. clock' \in 0..scenario.time
    BY <2>1 DEF Tick, SetClockBack, vars
  <2> QED BY <1>1, <2>1, <2>2 DEF ClockOK
<1> QED BY <1>1, <1>2 DEF IInv, CountsOK, FlowsOK, PeersOK, InvoicesOK, SendpaysOK, BlockOK,
                        PaidWereCreated

\* The process is started, or started again.
LEMMA StartSteps ==
  /\ Init => IInv
  /\ IInv /\ Restart => IInv'
<1>1. ASSUME Init PROVE IInv
  <2>1. ClockOK
    BY <1>1, ConstantsAssumption DEF Init, ClockOK
  <2> QED BY <1>1, <2>1, FreshStart DEF Init, Started
<1>2. IInv /\ Restart => Started'
  BY DEF IInv, Restart, ClockOK, Started
<1>3. Started' => IInv'
  BY FreshStart, PTL
<1> QED BY <1>1, <1>2, <1>3

\* Every step of the next-state relation keeps the invariant.
LEMMA NextIInv == IInv /\ [Next]_vars => IInv'
<1> SUFFICES ASSUME IInv, [Next]_vars PROVE IInv'
  OBVIOUS
<1>1. CASE Tick \/ SetClockBack \/ UNCHANGED vars
  BY <1>1, TickStep
<1>2. CASE Restart
  BY <1>2, StartSteps
<1>3. CASE \E height \in {None, 1} : BlockAdded(height)
  BY <1>3, BlockStep
<1>4. CASE \E topic \in DOMAIN Tallied, f \in Field : Tally(topic, f)
  BY <1>4, TallyStep
<1>5. CASE \E status \in {"offered", "settled"}, c \in Party, d \in Party :
             ForwardEvent(status, c, d)
  BY <1>5, ForwardStep
<1>6. CASE \E p \in Peer : Connect(p) \/ Disconnect(p)
  BY <1>6, ConnectStep, DisconnectStep
<1>7. CASE \E l \in Label : InvoiceCreation(l) \/ InvoicePayment(l)
  BY <1>7, InvoiceCreationStep, InvoicePaymentStep
<1>8. CASE \E topic \in {"sendpay_success", "sendpay_failure"},
              times \in {<<>>} \cup ((0..MaxTime) \X (0..MaxTime)) : Sendpay(topic, times)
  BY <1>8, SendpayStep
<1> QED BY <1>1, <1>2, <1>3, <1>4, <1>5, <1>6, <1>7, <1>8 DEF Next

(***************************************************************************)
(* The theorems.                                                           *)
(***************************************************************************)

\* Every counter agrees with what arrived, as far as its bound lets it.
THEOREM InductiveInvariant == Spec => []IInv
BY StartSteps, NextIInv, PTL DEF Spec

\* The types of the counters.
LEMMA Types == IInv => TypeOK
<1> SUFFICES ASSUME IInv PROVE TypeOK
  OBVIOUS
<1>1. \A m \in Counter :
        /\ DOMAIN counts[m] \subseteq Topics \cup Field \cup {"offered", "settled", Other}
        /\ counts[m] \in [DOMAIN counts[m] -> Nat \ {0}]
  <2> SUFFICES ASSUME NEW m \in Counter
               PROVE  /\ DOMAIN counts[m] \subseteq Key
                      /\ counts[m] \in [DOMAIN counts[m] -> Nat \ {0}]
    BY DEF Key
  <2>1. counts[m] \in Map(Key, Nat \ {0})
    BY DEF IInv, CountsOK
  <2> QED BY <2>1, MapType
<1>2. DOMAIN counts = Counter /\ clock \in 0..scenario.time
  BY DEF IInv, CountsOK, ClockOK
<1>3. /\ DOMAIN flows \subseteq Party
      /\ flows \in [DOMAIN flows -> [received : Nat, sent : Nat, fees : Nat]]
  BY MapType DEF IInv, FlowsOK, Carried, Flow
<1>4. /\ DOMAIN peers \subseteq Peer
      /\ peers \in [DOMAIN peers -> [since : 0..MaxTime \cup {None}, total : Nat,
                                    connects : Nat, disconnects : Nat]]
  BY MapType DEF IInv, PeersOK, Connected, Connection
<1>5. /\ invoices.created \in Nat /\ invoices.paid \in Nat /\ invoices.latency \in Histogram
      /\ DOMAIN invoices.pending \subseteq Label
      /\ invoices.pending \in [DOMAIN invoices.pending -> 0..MaxTime]
  BY InvoiceParts, MapType
<1>6. /\ sendpays.latency \in Histogram
      /\ sendpays.events \in [DOMAIN sendpays.events -> Nat \ {0}]
  BY MapType DEF IInv, SendpaysOK
<1>7. block.height \in Nat \cup {None} /\ block.time \in 0..MaxTime \cup {None}
  BY DEF IInv, BlockOK
<1> QED BY <1>1, <1>2, <1>3, <1>4, <1>5, <1>6, <1>7 DEF TypeOK

\* Whatever arrives in whatever order, the maps stay within their bounds, at most one
\* key more for the overflow, and the series of each add up to the notifications it
\* counts: what does not fit is grouped, never dropped.
THEOREM NothingIsDropped == Spec => []CappedWithoutLoss
<1>1. IInv => CappedWithoutLoss
  <2> SUFFICES ASSUME IInv PROVE Capped /\ NothingDropped
    BY Types DEF CappedWithoutLoss
  <2>1. \A m \in Counter : Cardinality(DOMAIN counts[m] \ {Other}) <= MaxKeys
    BY DEF IInv, CountsOK, Counted
  <2>2. Capped
    BY <2>1 DEF IInv, FlowsOK, PeersOK, InvoicesOK, Carried, Connected, Bounded, Capped
  <2>3. NothingDropped
    BY DEF IInv, CountsOK, Counted, NothingDropped
  <2> QED BY <2>2, <2>3
<1> QED BY <1>1, InductiveInvariant, PTL

\* A channel has all of its flow or no series at all, however many channels there are.
THEOREM FlowsAreWhole == Spec => []FlowsCompleteOrAbsent
<1>1. IInv => FlowsCompleteOrAbsent
  BY DEF IInv, FlowsOK, Carried, FlowsCompleteOrAbsent
<1> QED BY <1>1, InductiveInvariant, PTL

\* The buckets, the counts and the paid invoices are those of what was observed, for
\* any limits of the buckets.
THEOREM PaymentsAreExact == Spec => []PaymentsExact
<1>1. IInv => PaymentsExact
  BY DEF IInv, InvoicesOK, SendpaysOK, Observed, PaymentsExact, HistogramExact
<1> QED BY <1>1, InductiveInvariant, PTL

\* The connection time of a peer in terms of its entry.
SecondsOf(c, now) == c.total + IF c.since = None THEN 0 ELSE Minus(now, c.since)

\* What the connection time may change by when the clock changes by this much.
ChangeIn(passed) == IF passed >= 0 THEN 0..passed ELSE passed..0

\* The entry of a peer follows the clock: a later one shows no less time and no more
\* than has passed, one set back no more and at most as much less.
LEMMA SecondsFollow ==
  ASSUME NEW c \in Connection, NEW now \in Nat, NEW later \in Nat
  PROVE  SecondsOf(c, later) - SecondsOf(c, now) \in ChangeIn(later - now)
<1>1. /\ c.total \in Nat
      /\ c.since = None \/ (c.since \in 0..MaxTime /\ MaxTime \in Nat)
  BY ConstantsAssumption DEF Connection
<1> DEFINE total == c.total
           since == c.since
<1> HIDE DEF total, since
<1>2. CASE since = None
  BY <1>1, <1>2 DEF SecondsOf, total, since, ChangeIn
<1>3. CASE since # None
  <2>1. total \in Nat /\ since \in Nat
    BY <1>1, <1>3 DEF total, since
  <2>2. SecondsOf(c, later) = total + Minus(later, since)
    BY <1>3 DEF SecondsOf, total, since
  <2>3. SecondsOf(c, now) = total + Minus(now, since)
    BY <1>3 DEF SecondsOf, total, since
  <2> QED BY <2>1, <2>2, <2>3 DEF Minus, ChangeIn
<1> QED BY <1>2, <1>3

\* Within one life of the process no notification changes the connection time of a
\* peer, through repeated connects, unannounced disconnects and peers without an
\* entry: it follows the wall clock, falls only when that is set back and by no more,
\* and grows no faster.  The connects of a peer with an entry are complete.
THEOREM ConnectionTimeFollowsTheClock == Spec => ConnectionTimeCounts
<1> DEFINE Counts(p) ==
             /\ Seconds(p)' - Seconds(p) \in ChangeIn(clock' - clock)
             /\ p \in DOMAIN peers' => peers'[p].connects = truth'.connects[p]
<1>1. ASSUME IInv, [Next]_vars, truth'.handled >= truth.handled, NEW p \in Peer
      PROVE  Counts(p)
  <2>1. IInv'
    BY <1>1, NextIInv
  <2>2. p \in DOMAIN peers' => peers'[p].connects = truth'.connects[p]
    BY <2>1 DEF IInv, PeersOK, Connected
  <2> DEFINE c == At(peers, p, NoConnection)
             d == At(peers', p, NoConnection)
  <2>3. Seconds(p) = SecondsOf(c, clock) /\ Seconds(p)' = SecondsOf(d, clock')
    BY DEF Seconds, SecondsOf
  <2>4. c \in Connection /\ clock \in Nat /\ clock' \in Nat
    <3>1. c \in Connection /\ clock \in Nat
      BY <1>1, PeerEntry, ClockTime DEF IInv
    <3>2. ClockOK' => clock' \in Nat
      BY ConstantsAssumption DEF ClockOK
    <3> QED BY <2>1, <3>1, <3>2 DEF IInv
  <2>5. SecondsOf(c, clock) \in Nat
    BY <2>4, ConstantsAssumption DEF SecondsOf, Connection, Minus
  <2>6. Seconds(p)' - Seconds(p) \in ChangeIn(clock' - clock)
    <3>1. CASE peers' = peers
      <4>1. c = d
        BY <3>1
      <4> HIDE DEF c, d
      <4> QED BY <2>3, <2>4, <4>1, SecondsFollow
    <3>2. ASSUME NEW q \in Peer, Connect(q) \/ Disconnect(q)
          PROVE  clock' = clock /\ SecondsOf(d, clock) = SecondsOf(c, clock)
      <4>1. clock' = clock
        BY <3>2 DEF Connect, Disconnect, Notified
      <4>2. CASE peers' = peers \/ q # p
        <5>1. c = d
          BY <3>2, <4>2 DEF Connect, Disconnect, Set, At
        <5> QED BY <4>1, <5>1
      <4>3. CASE peers' # peers /\ q = p /\ Connect(q)
        <5>1. d = [c EXCEPT !.connects = @ + 1, !.since = Since(c)]
          BY <4>3 DEF Connect, Set, At
        <5> HIDE DEF c, d
        <5>2. d.total = c.total /\ d.since = Since(c)
          BY <2>4, <5>1 DEF Connection
        <5> QED BY <2>4, <4>1, <5>2 DEF SecondsOf, Since, Minus, Connection
      <4>4. CASE peers' # peers /\ q = p /\ Disconnect(q)
        <5> DEFINE s == IF c.since = None THEN 0 ELSE Minus(clock, c.since)
        <5>1. d = [c EXCEPT !.disconnects = @ + 1, !.total = @ + s, !.since = None]
          BY <4>4 DEF Disconnect, Set, At
        <5> HIDE DEF c, d
        <5>2. d.total = c.total + s /\ d.since = None
          BY <2>4, <5>1 DEF Connection
        <5>3. SecondsOf(c, clock) = c.total + s /\ SecondsOf(c, clock) \in Nat
          BY <2>5 DEF SecondsOf
        <5> HIDE DEF s
        <5>4. SecondsOf(d, clock) = (c.total + s) + 0
          BY <5>2 DEF SecondsOf
        <5> QED BY <4>1, <5>3, <5>4
      <4> QED BY <3>2, <4>2, <4>3, <4>4, <4>1
    <3>3. CASE \E q \in Peer : Connect(q) \/ Disconnect(q)
      <4>1. clock' = clock /\ SecondsOf(d, clock) = SecondsOf(c, clock)
        BY <3>2, <3>3
      <4> HIDE DEF c, d
      <4> QED BY <2>3, <2>4, <2>5, <4>1 DEF ChangeIn
    <3>4. CASE Restart
      <4>1. truth.handled = 0
        BY <1>1, <3>4 DEF IInv, Truth, Restart, NoTruth
      <4>2. DOMAIN peers = {} /\ DOMAIN peers' = {} /\ clock' = clock
        BY <1>1, <3>4, <4>1 DEF IInv, PeersOK, Restart, Empty
      <4>3. c = d
        BY <4>2 DEF At
      <4> HIDE DEF c, d
      <4> QED BY <2>3, <2>4, <2>5, <4>2, <4>3 DEF ChangeIn
    <3>5. CASE ~Restart /\ ~(\E q \in Peer : Connect(q) \/ Disconnect(q))
      <4>1. peers' = peers
        BY <1>1, <3>5 DEF Next, Tick, SetClockBack, BlockAdded, Tally, ForwardEvent,
              InvoiceCreation, InvoicePayment, Sendpay, vars
      <4> QED BY <3>1, <4>1
    <3> QED BY <3>3, <3>4, <3>5
  <2> QED BY <2>2, <2>6
<1>2. IInv /\ [Next]_vars
        => [truth'.handled >= truth.handled => \A p \in Peer : Counts(p)]_vars
  BY <1>1
<1> QED BY <1>2, InductiveInvariant, PTL DEF Spec, ConnectionTimeCounts, ChangeIn

(***************************************************************************)
(* DiscoveryCache: the registry's list of methods.                         *)
(***************************************************************************)

\* A list grows old with the call that fetched it, and then with the cache.
Aged ==
  /\ \A s \in Scrape :
       call[s].phase = "answered" => call[s].list.age <= call[s].elapsed
  /\ Fresh => cache.list.age <= cache.elapsed + Timeout

\* A list is right unless a notification is still to come, or came while the list
\* was on its way: true of the answers in flight as of the cache.
Accurate ==
  notices = 0 =>
    /\ \A s \in Scrape :
         call[s].phase = "answered" /\ ~call[s].list.raced
           => call[s].list.methods = registered
    /\ Fresh /\ ~cache.list.raced => cache.list.methods = registered

RegistryInv == DCTypeOK /\ Aged /\ Accurate

\* Older ages a list by a tick at most, and changes nothing else.
LEMMA OlderList ==
  ASSUME NEW list \in List
  PROVE  /\ Older(list) \in List
         /\ Older(list).age <= list.age + 1
         /\ Older(list).methods = list.methods
         /\ Older(list).raced = list.raced
BY DCAssumption DEF Older, List

\* A list the node has just given.
LEMMA ReadList ==
  ASSUME NEW methods \in SUBSET Method
  PROVE  Read(methods) \in List
BY DCAssumption DEF Read, List

Call == [phase : {"idle", "calling", "answered"}, elapsed : 0..Timeout, list : List]

\* A scrape that calls nothing is in the state of a call too.
LEMMA NoCallType == NoCall \in Call
BY ReadList, DCAssumption DEF NoCall, Call

\* The exporter starts with an empty cache that is not fresh.
LEMMA RegistryInit == DCInit => RegistryInv
<1> SUFFICES ASSUME DCInit PROVE RegistryInv
  OBVIOUS
<1>1. Read({}) \in List /\ NoCall \in Call
  BY ReadList, NoCallType
<1>2. DCTypeOK
  BY <1>1, DCAssumption DEF DCInit, DCTypeOK, Elapsed, Call
<1>3. ~Fresh /\ \A s \in Scrape : call[s].phase = "idle"
  BY DCAssumption DEF DCInit, Fresh, NoCall
<1> QED BY <1>2, <1>3 DEF RegistryInv, Aged, Accurate

\* What a tick does to the cache: it grows older until its list is no longer fresh.
LEMMA TickOfCache ==
  ASSUME cache \in [list : List, elapsed : Elapsed], DCTick
  PROVE  /\ cache' = [list |-> Older(cache.list), elapsed |-> cache'.elapsed]
         /\ cache'.elapsed \in Elapsed
         /\ cache'.list = Older(cache.list)
         /\ cache'.elapsed < TTL => Fresh /\ cache'.elapsed = cache.elapsed + 1
<1>1. cache' = [list |-> Older(cache.list),
                elapsed |-> IF Fresh THEN cache.elapsed + 1 ELSE TTL]
  BY DEF DCTick, Elapse
<1> QED BY <1>1, DCAssumption DEF Fresh, Elapsed

\* Every step keeps the types.
LEMMA RegistryTypes == DCTypeOK /\ [DCNext]_dcvars => DCTypeOK'
<1> SUFFICES ASSUME DCTypeOK, [DCNext]_dcvars PROVE DCTypeOK'
  OBVIOUS
<1>0. /\ registered \in SUBSET Method /\ served \in SUBSET Method
      /\ notices \in 0..MaxNotices
      /\ cache \in [list : List, elapsed : Elapsed]
      /\ call \in [Scrape -> Call]
  BY DEF DCTypeOK, Call
<1> USE DCAssumption
<1>1. CASE PluginChange
  BY <1>0, <1>1 DEF PluginChange, DCTypeOK, Call
<1>2. CASE Invalidate
  <2>1. call' \in [Scrape -> Call]
    <3>1. ASSUME NEW s \in Scrape
          PROVE  [call[s] EXCEPT !.list.raced = TRUE] \in Call
      <4>1. call[s].list \in List /\ call[s] \in Call
        BY <1>0 DEF Call
      <4>2. [call[s].list EXCEPT !.raced = TRUE] \in List
        BY <4>1 DEF List
      <4> QED BY <4>1, <4>2 DEF Call
    <3> QED BY <1>0, <1>2, <3>1 DEF Invalidate, Race
  <2>2. cache' \in [list : List, elapsed : Elapsed] /\ notices' \in 0..MaxNotices
    BY <1>0, <1>2 DEF Invalidate, Elapsed
  <2> QED BY <1>0, <1>2, <2>1, <2>2 DEF Invalidate, DCTypeOK, Call
<1>3. CASE DCTick
  <2>1. cache' \in [list : List, elapsed : Elapsed]
    BY <1>0, <1>3, OlderList, TickOfCache
  <2>2. ASSUME NEW s \in Scrape, call[s].phase # "idle"
        PROVE  [call[s] EXCEPT !.elapsed = @ + 1,
                               !.list = IF call[s].phase = "answered" THEN Older(@)
                                        ELSE @] \in Call
    <3>1. call[s] \in Call /\ call[s].elapsed < Timeout
      BY <1>0, <1>3, <2>2 DEF DCTick
    <3>2. Older(call[s].list) \in List /\ call[s].list \in List
      BY <3>1, OlderList DEF Call
    <3>3. call[s].elapsed + 1 \in 0..Timeout
      BY <3>1 DEF Call
    <3>4. \A e \in 0..Timeout, list \in List :
            [call[s] EXCEPT !.elapsed = e, !.list = list] \in Call
      BY <3>1 DEF Call
    <3> QED BY <3>2, <3>3, <3>4
  <2>3. call' \in [Scrape -> Call]
    BY <1>0, <1>3, <2>2 DEF DCTick, Elapse
  <2> QED BY <1>0, <1>3, <2>1, <2>3 DEF DCTick, Elapse, DCTypeOK, Call
<1>4. ASSUME NEW s \in Scrape, Hit(s) PROVE DCTypeOK'
  BY <1>0, <1>4 DEF Hit, List, DCTypeOK, Call
<1>5. ASSUME NEW s \in Scrape, Miss(s) PROVE DCTypeOK'
  <2>1. call' \in [Scrape -> Call]
    BY <1>0, <1>5, NoCallType DEF Miss, Call
  <2> QED BY <1>0, <1>5, <2>1 DEF Miss, DCTypeOK, Call
<1>6. ASSUME NEW s \in Scrape, Help(s) PROVE DCTypeOK'
  <2>1. call' \in [Scrape -> Call]
    BY <1>0, <1>6, ReadList DEF Help, Call
  <2> QED BY <1>0, <1>6, <2>1 DEF Help, DCTypeOK, Call
<1>7. ASSUME NEW s \in Scrape, Store(s) PROVE DCTypeOK'
  <2>1. call' \in [Scrape -> Call]
    BY <1>0, <1>7, NoCallType DEF Store, Call
  <2>2. call[s].list \in List
    BY <1>0 DEF Call
  <2>3. call[s].list.methods \in SUBSET Method
    BY <2>2 DEF List
  <2> QED BY <1>0, <1>7, <2>1, <2>2, <2>3 DEF Store, DCTypeOK, Elapsed, Call
<1>8. ASSUME NEW s \in Scrape, Refuse(s) \/ Fail(s) PROVE DCTypeOK'
  <2>1. call' \in [Scrape -> Call]
    BY <1>0, <1>8, NoCallType DEF Refuse, Fail, Call
  <2> QED BY <1>0, <1>8, <2>1 DEF Refuse, Fail, DCTypeOK, Call
<1>9. CASE UNCHANGED dcvars
  BY <1>0, <1>9 DEF dcvars, DCTypeOK, Call
<1> QED BY <1>1, <1>2, <1>3, <1>4, <1>5, <1>6, <1>7, <1>8, <1>9 DEF DCNext

\* Every step keeps the ages: an answer starts at 0, a stored list takes its age
\* along, and only DCTick, which stops at the timeout, ages a list.
LEMMA RegistryAged == DCTypeOK /\ Aged /\ [DCNext]_dcvars => Aged'
<1> SUFFICES ASSUME DCTypeOK, Aged, [DCNext]_dcvars PROVE Aged'
  OBVIOUS
<1>1. /\ call \in [Scrape -> Call]
      /\ cache \in [list : List, elapsed : Elapsed]
      /\ \A s \in Scrape : call[s].elapsed \in Nat /\ call[s].elapsed <= Timeout
                           /\ call[s].list \in List /\ call[s].list.age \in Nat
      /\ cache.elapsed \in Nat /\ cache.list \in List /\ cache.list.age \in Nat
  BY DCAssumption DEF DCTypeOK, Call, List, Elapsed
<1> USE DCAssumption DEF Aged, Fresh
<1>2. CASE PluginChange
  BY <1>2 DEF PluginChange
<1>3. CASE Invalidate
  <2>1. \A s \in Scrape : /\ call'[s].phase = call[s].phase
                          /\ call'[s].elapsed = call[s].elapsed
                          /\ call'[s].list.age = call[s].list.age
    BY <1>1, <1>3 DEF Invalidate, Race, Call, List
  <2>2. cache'.elapsed = TTL
    BY <1>1, <1>3 DEF Invalidate
  <2> QED BY <1>1, <2>1, <2>2
<1>4. CASE DCTick
  <2>1. ASSUME NEW s \in Scrape, call'[s].phase = "answered"
        PROVE  call'[s].list.age <= call'[s].elapsed
    <3>1. /\ call[s].phase = "answered"
          /\ call'[s].elapsed = call[s].elapsed + 1
          /\ call'[s].list = Older(call[s].list)
      BY <1>1, <1>4, <2>1 DEF DCTick, Elapse, Call
    <3>2. call[s].list.age <= call[s].elapsed
      BY <3>1
    <3>3. Older(call[s].list).age <= call[s].list.age + 1
          /\ Older(call[s].list).age \in Nat
      BY <1>1, OlderList DEF List
    <3> QED BY <1>1, <3>1, <3>2, <3>3
  <2>2. ASSUME Fresh' PROVE cache'.list.age <= cache'.elapsed + Timeout
    <3>1. /\ Fresh
          /\ cache'.elapsed = cache.elapsed + 1
          /\ cache'.list = Older(cache.list)
      BY <1>1, <1>4, <2>2, TickOfCache
    <3>2. Older(cache.list).age <= cache.list.age + 1 /\ Older(cache.list).age \in Nat
      BY <1>1, OlderList DEF List
    <3> QED BY <1>1, <3>1, <3>2
  <2> QED BY <2>1, <2>2
<1>5. ASSUME NEW s \in Scrape, Hit(s) PROVE Aged'
  BY <1>5 DEF Hit
<1>6. ASSUME NEW s \in Scrape, Miss(s) PROVE Aged'
  BY <1>1, <1>6 DEF Miss, NoCall
<1>7. ASSUME NEW s \in Scrape, Help(s) PROVE Aged'
  <2>1. call'[s].list.age = 0 /\ call'[s].elapsed = call[s].elapsed
    BY <1>1, <1>7 DEF Help, Read, Call
  <2> QED BY <1>1, <1>7, <2>1 DEF Help
<1>8. ASSUME NEW s \in Scrape, Store(s) PROVE Aged'
  <2>1. cache'.list.age <= cache'.elapsed + Timeout
    BY <1>1, <1>8 DEF Store
  <2> QED BY <1>1, <1>8, <2>1 DEF Store, NoCall
<1>9. ASSUME NEW s \in Scrape, Refuse(s) \/ Fail(s) PROVE Aged'
  BY <1>1, <1>9 DEF Refuse, Fail, NoCall
<1>10. CASE UNCHANGED dcvars
  BY <1>10 DEF dcvars
<1> QED BY <1>2, <1>3, <1>4, <1>5, <1>6, <1>7, <1>8, <1>9, <1>10 DEF DCNext

\* Every step keeps the lists accurate: a change of the node leaves a notification
\* to come, and handling it marks every answer in flight and drops the cache.
LEMMA RegistryAccurate == DCTypeOK /\ Accurate /\ [DCNext]_dcvars => Accurate'
<1> SUFFICES ASSUME DCTypeOK, Accurate, [DCNext]_dcvars PROVE Accurate'
  OBVIOUS
<1>1. /\ call \in [Scrape -> Call]
      /\ cache \in [list : List, elapsed : Elapsed]
      /\ \A s \in Scrape : call[s].list \in List
      /\ cache.list \in List /\ notices \in Nat
  BY DCAssumption DEF DCTypeOK, Call, Elapsed
<1> USE DCAssumption DEF Accurate, Fresh
<1>2. CASE PluginChange
  BY <1>1, <1>2 DEF PluginChange
<1>3. CASE Invalidate
  <2>1. ~Fresh'
    BY <1>1, <1>3 DEF Invalidate
  <2>2. \A s \in Scrape : call'[s].phase = "answered" => call'[s].list.raced
    BY <1>1, <1>3 DEF Invalidate, Race, Call, List
  <2> QED BY <2>1, <2>2
<1>4. CASE DCTick
  <2>1. ASSUME NEW s \in Scrape, call'[s].phase = "answered"
        PROVE  /\ call[s].phase = "answered"
               /\ call'[s].list.raced = call[s].list.raced
               /\ call'[s].list.methods = call[s].list.methods
    <3>1. call[s].phase = "answered" /\ call'[s].list = Older(call[s].list)
      BY <1>1, <1>4, <2>1 DEF DCTick, Elapse, Call
    <3> QED BY <1>1, <3>1, OlderList
  <2>2. /\ Fresh' => Fresh
        /\ cache'.list.raced = cache.list.raced
        /\ cache'.list.methods = cache.list.methods
    BY <1>1, <1>4, OlderList, TickOfCache
  <2>3. UNCHANGED <<registered, notices>>
    BY <1>4 DEF DCTick, Elapse
  <2> QED BY <2>1, <2>2, <2>3
<1>5. ASSUME NEW s \in Scrape, Hit(s) PROVE Accurate'
  BY <1>5 DEF Hit
<1>6. ASSUME NEW s \in Scrape, Miss(s) PROVE Accurate'
  BY <1>1, <1>6 DEF Miss, NoCall
<1>7. ASSUME NEW s \in Scrape, Help(s) PROVE Accurate'
  <2>1. call'[s].list.methods = registered
    BY <1>1, <1>7 DEF Help, Read, Call
  <2> QED BY <1>1, <1>7, <2>1 DEF Help
<1>8. ASSUME NEW s \in Scrape, Store(s) PROVE Accurate'
  BY <1>1, <1>8 DEF Store, NoCall
<1>9. ASSUME NEW s \in Scrape, Refuse(s) \/ Fail(s) PROVE Accurate'
  BY <1>1, <1>9 DEF Refuse, Fail, NoCall
<1>10. CASE UNCHANGED dcvars
  BY <1>10 DEF dcvars
<1> QED BY <1>2, <1>3, <1>4, <1>5, <1>6, <1>7, <1>8, <1>9, <1>10 DEF DCNext

\* In every reachable state the lists have ages that their calls and the cache
\* account for, and are accurate unless a notification is or was in flight.
THEOREM RegistryInvariant == DCSpec => []RegistryInv
BY RegistryInit, RegistryTypes, RegistryAged, RegistryAccurate, PTL DEF DCSpec, RegistryInv

\* No scrape is given a list as old as TTL and timeout together, however scrapes,
\* failures and notifications interleave, nor waits longer than the timeout.
THEOREM StalenessIsBounded == DCSpec => []BoundedStaleness
<1>1. RegistryInv => BoundedStaleness
  <2> SUFFICES ASSUME RegistryInv, NEW list \in Offered PROVE list.age < TTL + Timeout
    BY DEF RegistryInv, BoundedStaleness
  <2>1. CASE Fresh /\ list = cache.list
    BY <2>1, DCAssumption DEF RegistryInv, DCTypeOK, Aged, Fresh, List, Elapsed
  <2>2. CASE \E s \in Scrape : call[s].phase = "answered" /\ list = call[s].list
    BY <2>2, DCAssumption DEF RegistryInv, DCTypeOK, Aged, List
  <2> QED BY <2>1, <2>2 DEF Offered
<1> QED BY <1>1, RegistryInvariant, PTL

\* With every notification handled, a fresh list that no notification met on its
\* way is the list of the registered methods.
THEOREM RacesAreTheOnlyLies == DCSpec => []ExactUnlessRaced
<1>1. RegistryInv => ExactUnlessRaced
  BY DEF RegistryInv, Accurate, ExactUnlessRaced
<1> QED BY <1>1, RegistryInvariant, PTL

================================================================================
