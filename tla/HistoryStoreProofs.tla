-------------------------- MODULE HistoryStoreProofs --------------------------
(***************************************************************************)
(* Proofs about HistoryStore for any probe results, periods, timeouts and  *)
(* scenarios: retention from both sides, the sums of the forward buckets,  *)
(* the probes with their hops, the health of the collector and its pace.   *)
(***************************************************************************)
EXTENDS HistoryStore, FoldTheorems

Kind == {"forward", "event", "probe"}

\* What the types of the tables leave open: the histories and the numbers of rows.
Recorded ==
  /\ scenario \in Scenarios
  /\ stored \in Seq([kind : Kind, ts : Nat])
  /\ \A i \in DOMAIN stored : stored[i].ts <= clock
  /\ attempts \in [DOMAIN attempts -> BOOLEAN]
  /\ DOMAIN attempts \subseteq 0..clock
  /\ collected # None => DOMAIN attempts \subseteq 0..collected
  /\ IsFiniteSet(DOMAIN pairs)
  /\ \A p \in probes : p.n \in 1..Len(stored)

\* When the collection under way, or the last one, began and the next is due.
Paced ==
  /\ collected # None => begun = collected
  /\ begun # None =>
       /\ begun \in 0..clock
       /\ begun < due /\ due <= begun + Interval
       /\ clock <= due \/ clock <= begun + Timeout

\* Of every run that the window still shows the outcome is kept.
RunsKept == Only(runs, Window) = Only(attempts, Window)

Counts(b) ==
  LET counted  == Count({k \in DOMAIN pairs : k.bucket = b})
      forwards == {i \in DOMAIN stored :
                     stored[i].kind = "forward" /\ BucketOf(stored[i].ts) = b}
  IN \/ counted = Cardinality(forwards)
     \/ counted = 0 /\ b \notin Window

\* The ids of probe_events tell the rows apart.
ProbesApart == \A p, q \in probes : p.n = q.n => p = q

\* A bucket adds up also before it has begun: nothing is counted in it.
AllCounted == \A b \in 0..scenario.until : Counts(b)

\* The events of a log rise in time with their ids, disappearances and returns
\* alternate, and the newest tells since when the channel is gone.
Rising(log) == \A e, f \in log : e.n < f.n => e.ts <= f.ts
Alternates(log) ==
  \A e, f \in log :
    f.n > e.n /\ (\A g \in log : g.n > e.n => f.n <= g.n) => f.kind # e.kind
Tells(log, at) ==
  \A e \in log :
    ~(\E g \in log : g.n > e.n)
      => at = IF e.kind = "disappeared" THEN e.ts ELSE None
Dated(log, at) == \E e \in log : e.ts = at /\ e.kind = "disappeared"

\* The events have the times of collections, which makes the log rise.
LifecycleKept ==
  /\ Rising(LifecycleEvents)
  /\ \A e \in LifecycleEvents : e.ts \in DOMAIN attempts
  /\ LifecycleEventsMatch

IInv ==
  /\ TypeOK
  /\ Recorded
  /\ Paced
  /\ WindowKept
  /\ AgedOut
  /\ RunsKept
  /\ AllCounted
  /\ ProbesWhole
  /\ ProbesApart
  /\ LifecycleKept

(***************************************************************************)
(* Arithmetic and functions.                                               *)
(***************************************************************************)

\* A bucket begins before the times it holds, by less than its length.
LEMMA BucketBounds ==
  ASSUME NEW t \in Nat
  PROVE  BucketOf(t) \in Nat /\ BucketOf(t) <= t /\ t < BucketOf(t) + Bucket
<1>1. Bucket \in Nat /\ Bucket > 0
  BY ConstantsAssumption
<1>2. /\ t \div Bucket \in Nat /\ t % Bucket \in 0..Bucket - 1
      /\ t = Bucket * (t \div Bucket) + (t % Bucket)
  BY <1>1, Z3
<1>3. (t \div Bucket) * Bucket = Bucket * (t \div Bucket)
  BY <1>1, <1>2
<1>4. Bucket * (t \div Bucket) \in Nat
  BY <1>1, <1>2
<1> DEFINE q == Bucket * (t \div Bucket)
           r == t % Bucket
<1>5. q \in Nat /\ r \in Nat /\ r < Bucket /\ t = q + r
  BY <1>1, <1>2, <1>4
<1>6. BucketOf(t) = q
  BY <1>3 DEF BucketOf
<1> HIDE DEF q, r
<1> QED BY <1>1, <1>5, <1>6

\* A skipped interval is due after the tick that fires now, by one interval at most.
LEMMA NextDueBounds ==
  ASSUME clock \in Nat, due \in Nat, clock >= due
  PROVE  NextDue \in Nat /\ clock < NextDue /\ NextDue <= clock + Interval
<1>1. Interval \in Nat /\ Interval > 0 /\ clock - due \in Nat
  BY ConstantsAssumption
<1>2. (clock - due) % Interval \in 0..Interval - 1
  BY <1>1
<1> QED BY <1>1, <1>2 DEF NextDue

\* A prune at ts keeps whatever is in the window of the clock.
LEMMA CutoffBelow ==
  ASSUME clock \in Nat, NEW ts \in 0..clock
  PROVE  /\ Cutoff(ts) \in Nat /\ Minus(clock, Retention) \in Nat
         /\ Cutoff(ts) <= Minus(clock, Retention) /\ Cutoff(ts) <= ts
BY ConstantsAssumption DEF Cutoff, Minus

\* The largest of some numbers up to one.
LEMMA MaxOf ==
  ASSUME NEW n \in Nat, NEW S \in SUBSET (0..n), S # {}
  PROVE  Max(S) \in S /\ \A x \in S : x <= Max(S)
<1>1. IsFiniteSet(0..n)
  BY FS_Interval
<1>2. IsFiniteSet(S)
  BY <1>1, FS_Subset
<1> QED BY <1>2, LargestOf

\* What Only makes of a function.
LEMMA OnlyIs ==
  ASSUME NEW f, NEW S
  PROVE  /\ DOMAIN Only(f, S) = DOMAIN f \cap S
         /\ \A y \in DOMAIN f \cap S : Only(f, S)[y] = f[y]
BY DEF Only

\* Two functions that agree on a set are the same where it is all that is left.
LEMMA SameOnly ==
  ASSUME NEW f, NEW g, NEW S, DOMAIN f \cap S = DOMAIN g \cap S,
         \A y \in DOMAIN f \cap S : f[y] = g[y]
  PROVE  Only(f, S) = Only(g, S)
BY DEF Only

\* What the constants say of a scenario and of the periods.
LEMMA ScenarioIs ==
  ASSUME scenario \in Scenarios
  PROVE  /\ scenario.until \in Nat /\ scenario.kinds \subseteq Kind
         /\ Bucket \in Nat /\ Interval \in Nat /\ Timeout \in Nat /\ Retention \in Nat
         /\ MaxLag \in Nat /\ Retention >= Bucket /\ MaxLag <= Retention
         /\ Bucket > 0 /\ Interval > 0 /\ Timeout > 0 /\ None \notin Nat
BY ConstantsAssumption DEF Kind

\* A record is appended: its number is the number of records.
LEMMA StoredIs ==
  ASSUME stored \in Seq([kind : Kind, ts : Nat]), NEW kind \in Kind, NEW ts \in Nat,
         Stored(kind, ts)
  PROVE  /\ stored' \in Seq([kind : Kind, ts : Nat])
         /\ Len(stored) \in Nat /\ Len(stored') = Len(stored) + 1
         /\ DOMAIN stored = 1..Len(stored) /\ DOMAIN stored' = 1..Len(stored')
         /\ stored'[Len(stored')].kind = kind /\ stored'[Len(stored')].ts = ts
         /\ \A i \in DOMAIN stored : stored'[i] = stored[i]
<1> DEFINE R == [kind : Kind, ts : Nat]
           e == [kind |-> kind, ts |-> ts]
<1>1. e \in R /\ e.kind = kind /\ e.ts = ts
  OBVIOUS
<1>2. stored' = Append(stored, e) /\ stored \in Seq(R)
  BY DEF Stored
<1> HIDE DEF R, e
<1>3. /\ stored' \in Seq(R) /\ Len(stored) \in Nat /\ Len(stored') = Len(stored) + 1
      /\ stored'[Len(stored')] = e
      /\ \A i \in 1..Len(stored) : stored'[i] = stored[i]
  BY <1>1, <1>2
<1>4. DOMAIN stored = 1..Len(stored) /\ DOMAIN stored' = 1..Len(stored')
  BY <1>2, <1>3
<1> QED BY <1>1, <1>3, <1>4 DEF R

\* The rows of channel_events, for n records at most.
EventsTo(n) == [n : 1..n, ts : 0..scenario.until,
                kind : {"notice", "disappeared", "reappeared"}]

\* The types of the tables, likewise.
Tables(n) ==
  /\ DOMAIN pairs \subseteq [bucket : 0..scenario.until, name : {"identity", "alias"}]
  /\ pairs \in [DOMAIN pairs -> Nat \ {0}]
  /\ IsFiniteSet(DOMAIN pairs)
  /\ events \subseteq EventsTo(n)
  /\ probes \subseteq Probe
  /\ \A p \in probes : p.n \in 1..n
  /\ hops \subseteq (1..n) \X Nat
  /\ DOMAIN runs \subseteq 0..scenario.until
  /\ runs \in [DOMAIN runs -> BOOLEAN]

\* The types of the rest.
Times ==
  /\ scenario \in Scenarios
  /\ clock \in 0..scenario.until
  /\ due \in Nat
  /\ collected # None => collected \in 0..clock /\ clock - collected <= Timeout
  /\ known \in BOOLEAN
  /\ channel \in [row : BOOLEAN, disappeared_at : 0..scenario.until \cup {None}]

Histories ==
  /\ stored \in Seq([kind : Kind, ts : Nat])
  /\ \A i \in DOMAIN stored : stored[i].ts <= clock
  /\ attempts \in [DOMAIN attempts -> BOOLEAN]
  /\ DOMAIN attempts \subseteq 0..clock
  /\ collected # None => DOMAIN attempts \subseteq 0..collected

\* An entry of the history is a record.
LEMMA RecordIs ==
  ASSUME Histories, NEW i \in DOMAIN stored
  PROVE  stored[i].kind \in Kind /\ stored[i].ts \in Nat
<1> DEFINE R == [kind : Kind, ts : Nat]
<1>1. stored \in Seq(R)
  BY DEF Histories
<1>2. stored[i] \in R
  <2> HIDE DEF R
  <2> QED BY <1>1
<1> QED BY <1>2

\* The two ways to state the types are the same.
LEMMA TypesAre == TypeOK /\ Recorded <=> Tables(Len(stored)) /\ Times /\ Histories
BY DEF TypeOK, Recorded, Tables, Times, Histories, Event, EventsTo

\* Everything is typed before anything has happened.
LEMMA TypesInit == Init => Tables(Len(stored)) /\ Times /\ Histories
<1> SUFFICES ASSUME Init PROVE Tables(Len(stored)) /\ Times /\ Histories
  OBVIOUS
<1>1. scenario.until \in Nat /\ scenario \in Scenarios
  BY ScenarioIs DEF Init
<1>2. DOMAIN Empty = {} /\ \A S : Empty \in [{} -> S]
  BY DEF Empty
<1>3. stored \in Seq([kind : Kind, ts : Nat]) /\ Len(stored) = 0 /\ DOMAIN stored = {}
  BY DEF Init
<1>4. Tables(Len(stored))
  BY <1>2, FS_EmptySet DEF Init, Tables
<1>5. Times
  <2>1. clock \in 0..scenario.until /\ due \in Nat
    BY <1>1 DEF Init
  <2>2. known \in BOOLEAN /\ collected = None
    BY DEF Init
  <2>3. channel \in [row : BOOLEAN, disappeared_at : 0..scenario.until \cup {None}]
    BY DEF Init
  <2> QED BY <1>1, <2>1, <2>2, <2>3, Zenon DEF Times
<1>6. Histories
  BY <1>2, <1>3 DEF Init, Histories
<1> QED BY <1>4, <1>5, <1>6

\* A prune at any time leaves typed tables of what it is given.
LEMMA PruneTypes ==
  ASSUME Tables(Len(stored)), NEW n \in Nat, Len(stored') = n,
         scenario' = scenario, scenario \in Scenarios,
         NEW ts, NEW es, NEW ps, NEW hs, NEW rs, Prune(ts, es, ps, hs, rs),
         es \subseteq EventsTo(n),
         ps \subseteq Probe, \A p \in ps : p.n \in 1..n, hs \subseteq (1..n) \X Nat,
         DOMAIN rs \subseteq 0..scenario.until, rs \in [DOMAIN rs -> BOOLEAN]
  PROVE  Tables(Len(stored))'
<1>1. Probe' = Probe
  BY DEF Probe, Status
<1>2. /\ DOMAIN pairs' \subseteq DOMAIN pairs
      /\ pairs' = [k \in DOMAIN pairs' |-> pairs[k]]
  BY DEF Prune, Only
<1>3. /\ DOMAIN pairs' \subseteq [bucket : 0..scenario.until, name : {"identity", "alias"}]
      /\ pairs' \in [DOMAIN pairs' -> Nat \ {0}]
  BY <1>2 DEF Tables
<1>4. IsFiniteSet(DOMAIN pairs')
  BY <1>2, FS_Subset DEF Tables
<1>5. events' \subseteq es /\ probes' \subseteq ps /\ hops' \subseteq hs
  BY DEF Prune, HopsOf
<1>6. DOMAIN runs' \subseteq DOMAIN rs /\ runs' = [t \in DOMAIN runs' |-> rs[t]]
  BY DEF Prune, Only
<1>7. runs' \in [DOMAIN runs' -> BOOLEAN]
  BY <1>6
<1> QED BY <1>1, <1>3, <1>4, <1>5, <1>6, <1>7 DEF Tables, EventsTo

\* An attempt is noted under the time it began.
LEMMA AttemptedIs ==
  ASSUME Times, Histories, NEW b \in BOOLEAN, Attempted(b)
  PROVE  /\ collected \in 0..clock /\ collected \in 0..scenario.until /\ collected' = None
         /\ DOMAIN attempts' = DOMAIN attempts \cup {collected}
         /\ attempts' \in [DOMAIN attempts' -> BOOLEAN]
         /\ \A t \in DOMAIN attempts \ {collected} : attempts'[t] = attempts[t]
         /\ attempts'[collected] = b
         /\ \A t \in DOMAIN attempts : t <= collected
         /\ DOMAIN attempts' \subseteq 0..clock
<1>1. attempts' = Put(attempts, collected, b) /\ collected # None /\ collected' = None
  BY DEF Attempted
<1>2. attempts \in [DOMAIN attempts -> BOOLEAN]
  BY DEF Histories
<1>3. /\ DOMAIN attempts' = DOMAIN attempts \cup {collected}
      /\ attempts' \in [DOMAIN attempts' -> BOOLEAN]
      /\ \A t \in DOMAIN attempts \ {collected} : attempts'[t] = attempts[t]
      /\ attempts'[collected] = b
  <2>1. attempts' = [t \in DOMAIN attempts \cup {collected} |->
                       IF t = collected THEN b ELSE attempts[t]]
    BY <1>1 DEF Put
  <2>2. DOMAIN attempts' = DOMAIN attempts \cup {collected}
    BY <2>1
  <2>3. attempts' \in [DOMAIN attempts' -> BOOLEAN]
    BY <1>2, <2>1
  <2>4. attempts'[collected] = b
    BY <2>1, Zenon
  <2>5. \A t \in DOMAIN attempts \ {collected} : attempts'[t] = attempts[t]
    BY <2>1, Zenon
  <2> QED BY <2>2, <2>3, <2>4, <2>5, Zenon
<1>4. scenario.until \in Nat
  BY ScenarioIs DEF Times
<1>5. collected \in 0..clock /\ collected \in 0..scenario.until
  BY <1>1, <1>4 DEF Times
<1>6. DOMAIN attempts \subseteq 0..collected
  BY <1>1 DEF Histories
<1>7. \A t \in DOMAIN attempts : t <= collected
  BY <1>5, <1>6
<1>8. DOMAIN attempts' \subseteq 0..clock
  BY <1>5, <1>3 DEF Histories
<1> QED BY <1>1, <1>3, <1>5, <1>7, <1>8, Zenon

Typed == Tables(Len(stored)) /\ Times /\ Histories

\* A record of a time that has passed is added to the history.
LEMMA HistoriesStored ==
  ASSUME Times, Histories, NEW kind \in Kind, NEW ts \in 0..clock, Stored(kind, ts),
         clock' = clock, attempts' = attempts, collected' = collected
  PROVE  Histories'
<1>1. clock \in Nat /\ ts \in Nat /\ ts <= clock
  BY ScenarioIs DEF Times
<1>2. /\ stored' \in Seq([kind : Kind, ts : Nat])
      /\ Len(stored) \in Nat /\ Len(stored') = Len(stored) + 1
      /\ DOMAIN stored = 1..Len(stored) /\ DOMAIN stored' = 1..Len(stored')
      /\ stored'[Len(stored')].ts = ts
      /\ \A i \in DOMAIN stored : stored'[i] = stored[i]
  BY <1>1, StoredIs DEF Histories
<1>3. \A i \in DOMAIN stored' : stored'[i].ts <= clock
  BY <1>1, <1>2 DEF Histories
<1> QED BY <1>2, <1>3 DEF Histories

\* record_forward_event keeps the types.
LEMMA TypesForward == ASSUME Typed, RecordForward PROVE Typed'
<1> DEFINE key == [bucket |-> BucketOf(clock),
                   name   |-> IF known THEN "identity" ELSE "alias"]
           v   == IF key \in DOMAIN pairs THEN Counted(pairs[key]) ELSE 1
<1>0. Tables(Len(stored)) /\ Times /\ Histories
  BY DEF Typed
<1>1. scenario.until \in Nat /\ clock \in Nat /\ clock <= scenario.until
  BY <1>0, ScenarioIs DEF Times
<1>2. Stored("forward", clock) /\ pairs' = Put(pairs, key, v)
  BY DEF RecordForward
<1>3. "forward" \in Kind
  BY DEF Kind
<1>4. Len(stored) \in Nat /\ Len(stored') = Len(stored) + 1
  BY <1>0, <1>1, <1>2, <1>3, StoredIs DEF Histories
<1>5. Histories'
  BY <1>0, <1>1, <1>2, <1>3, HistoriesStored DEF RecordForward, collector
<1>6. key \in [bucket : 0..scenario.until, name : {"identity", "alias"}]
  BY <1>1, BucketBounds
<1>7. v \in Nat \ {0}
  BY <1>0 DEF Tables, Counted
<1> HIDE DEF key, v
<1>8. pairs' = [k \in DOMAIN pairs \cup {key} |-> IF k = key THEN v ELSE pairs[k]]
  BY <1>2 DEF Put
<1>9. /\ DOMAIN pairs' \subseteq [bucket : 0..scenario.until, name : {"identity", "alias"}]
      /\ pairs' \in [DOMAIN pairs' -> Nat \ {0}]
      /\ IsFiniteSet(DOMAIN pairs')
  BY <1>0, <1>6, <1>7, <1>8, FS_AddElement DEF Tables
<1>10. Tables(Len(stored))'
  <2>1. UNCHANGED <<scenario, events, probes, hops, runs>> /\ Probe' = Probe
    BY DEF RecordForward, Probe, Status, EventsTo
  <2>2. /\ events \subseteq EventsTo(Len(stored'))
        /\ \A p \in probes : p.n \in 1..Len(stored')
        /\ hops \subseteq (1..Len(stored')) \X Nat
    BY <1>0, <1>4 DEF Tables, EventsTo
  <2> QED BY <1>0, <1>9, <2>1, <2>2 DEF Tables, EventsTo
<1>11. Times'
  BY <1>0 DEF Times, RecordForward, collector
<1> QED BY <1>5, <1>10, <1>11 DEF Typed

\* record_peer_connection_event and record_channel_event keep the types.
LEMMA TypesEvent == ASSUME Typed, NEW binds \in BOOLEAN, RecordEvent(binds) PROVE Typed'
<1>0. Tables(Len(stored)) /\ Times /\ Histories
  BY DEF Typed
<1>1. scenario.until \in Nat /\ clock \in Nat /\ clock <= scenario.until
  BY <1>0, ScenarioIs DEF Times
<1>2. Stored("event", clock) /\ "event" \in Kind
  BY DEF RecordEvent, Kind
<1>3. Len(stored) \in Nat /\ Len(stored') = Len(stored) + 1
  BY <1>0, <1>1, <1>2, StoredIs DEF Histories
<1>4. Histories'
  BY <1>0, <1>1, <1>2, HistoriesStored DEF RecordEvent, collector
<1>5. events' \subseteq EventsTo(Len(stored'))
  BY <1>0, <1>1, <1>3 DEF RecordEvent, EventRow, Tables, EventsTo
<1>6. Tables(Len(stored))'
  BY <1>0, <1>3, <1>5 DEF Tables, RecordEvent, collector, Probe, Status, EventsTo
<1>7. Times'
  BY <1>0 DEF Times, RecordEvent, collector
<1> QED BY <1>4, <1>6, <1>7 DEF Typed

\* record_probe_result keeps the types.
LEMMA TypesProbe ==
  ASSUME Typed, NEW r \in Results, NEW ts \in 0..clock, NEW bad \in BOOLEAN,
         RecordProbe(r, ts, bad)
  PROVE  Typed'
<1>0. Tables(Len(stored)) /\ Times /\ Histories
  BY DEF Typed
<1>1. /\ scenario.until \in Nat /\ clock \in Nat /\ clock <= scenario.until
      /\ ts \in Nat /\ ts \in 0..scenario.until
  BY <1>0, ScenarioIs DEF Times
<1>2. Stored("probe", ts) /\ "probe" \in Kind
  BY DEF RecordProbe, Kind
<1>3. Len(stored) \in Nat /\ Len(stored') = Len(stored) + 1
  BY <1>0, <1>1, <1>2, StoredIs DEF Histories
<1>4. Histories'
  BY <1>0, <1>1, <1>2, HistoriesStored DEF RecordProbe, collector
<1> DEFINE n == Len(stored')
           ps == probes \cup {ProbeRow(r, ts)}
           hs == hops \cup ({n} \X (0..r.hops - 1))
<1>5. n \in Nat /\ Len(stored) <= n
  BY <1>3
<1>6. r.status \in Status /\ r.amount \in Nat /\ r.hops \in Nat
  BY ConstantsAssumption
<1>7. ps \subseteq Probe /\ \A p \in ps : p.n \in 1..n
  BY <1>0, <1>1, <1>3, <1>6 DEF Tables, Probe, ProbeRow
<1>8. hs \subseteq (1..n) \X Nat
  BY <1>0, <1>3, <1>6 DEF Tables
<1>9. events \subseteq EventsTo(n)
  BY <1>0, <1>3 DEF Tables, EventsTo
<1>10. /\ DOMAIN runs \subseteq 0..scenario.until /\ runs \in [DOMAIN runs -> BOOLEAN]
       /\ scenario' = scenario /\ scenario \in Scenarios
  BY <1>0 DEF Tables, RecordProbe, Times
<1>11. Prune(ts, events, ps, hs, runs)
  BY DEF RecordProbe
<1>12. Tables(Len(stored))'
  <2>1. n = Len(stored')
    OBVIOUS
  <2> HIDE DEF ps, hs, n
  <2> QED BY <1>0, <1>5, <1>7, <1>8, <1>9, <1>10, <1>11, <2>1, PruneTypes
<1>13. Times'
  BY <1>0 DEF Times, RecordProbe, collector
<1> QED BY <1>4, <1>12, <1>13 DEF Typed

\* The beginning of a collection keeps the types.
LEMMA TypesBegin == ASSUME Typed, BeginCollection PROVE Typed'
<1>0. Tables(Len(stored)) /\ Times /\ Histories
  BY DEF Typed
<1>1. scenario.until \in Nat /\ clock \in Nat /\ Timeout \in Nat /\ due \in Nat /\ clock >= due
  BY <1>0, ScenarioIs DEF Times, BeginCollection
<1>2. due' \in Nat
  BY <1>1, NextDueBounds DEF BeginCollection
<1>3. Tables(Len(stored))'
  BY <1>0 DEF Tables, BeginCollection, tables, Probe, Status, EventsTo
<1>4. Times'
  BY <1>0, <1>1, <1>2 DEF Times, BeginCollection, tables
<1>5. Histories'
  BY <1>0, <1>1 DEF Histories, BeginCollection
<1> QED BY <1>3, <1>4, <1>5 DEF Typed

\* The clock keeps the types; it stops at the timeout of a collection.
LEMMA TypesTick == ASSUME Typed, Tick PROVE Typed'
<1>0. Tables(Len(stored)) /\ Times /\ Histories
  BY DEF Typed
<1>1. /\ scenario.until \in Nat /\ clock \in Nat /\ Timeout \in Nat
      /\ clock < scenario.until /\ clock' = clock + 1
      /\ UNCHANGED <<scenario, collector, tables, stored, attempts, crashes>>
  BY <1>0, ScenarioIs DEF Times, Tick
<1>2. Tables(Len(stored))'
  BY <1>0, <1>1 DEF Tables, tables, Probe, Status, EventsTo
<1>3. collected # None => collected \in 0..clock' /\ clock' - collected <= Timeout
  BY <1>0, <1>1 DEF Times, Tick
<1>4. Times'
  BY <1>0, <1>1, <1>3 DEF Times, tables, collector
<1>5. \A i \in DOMAIN stored : stored[i].ts <= clock'
  <2> SUFFICES ASSUME NEW i \in DOMAIN stored PROVE stored[i].ts <= clock'
    OBVIOUS
  <2>1. stored[i].ts \in Nat /\ stored[i].ts <= clock
    BY <1>0, RecordIs DEF Histories
  <2> QED BY <1>1, <2>1
<1>6. DOMAIN attempts \subseteq 0..clock'
  BY <1>0, <1>1 DEF Histories
<1>7. Histories'
  BY <1>0, <1>1, <1>5, <1>6 DEF Histories, collector
<1> QED BY <1>2, <1>4, <1>7 DEF Typed

\* A restart keeps the types.
LEMMA TypesRestart == ASSUME Typed, Restart PROVE Typed'
<1>0. Tables(Len(stored)) /\ Times /\ Histories
  BY DEF Typed
<1>1. clock \in Nat
  BY <1>0, ScenarioIs DEF Times
<1>2. Tables(Len(stored))'
  BY <1>0 DEF Tables, Restart, tables, Probe, Status, EventsTo
<1>3. Times'
  BY <1>0, <1>1 DEF Times, Restart, tables
<1>4. Histories'
  BY <1>0 DEF Histories, Restart
<1> QED BY <1>2, <1>3, <1>4 DEF Typed

\* A run of a typed table is put.
LEMMA RunsTyped ==
  ASSUME Tables(Len(stored)), NEW b \in BOOLEAN, collected \in 0..scenario.until
  PROVE  /\ DOMAIN WithRun(collected, b) \subseteq 0..scenario.until
         /\ WithRun(collected, b) \in [DOMAIN WithRun(collected, b) -> BOOLEAN]
         /\ DOMAIN WithRun(collected, b) = DOMAIN runs \cup {collected}
<1>1. WithRun(collected, b) = [t \in DOMAIN runs \cup {collected} |->
                                 IF t = collected THEN b ELSE runs[t]]
  BY DEF WithRun, Put
<1>2. runs \in [DOMAIN runs -> BOOLEAN] /\ DOMAIN runs \subseteq 0..scenario.until
  BY DEF Tables
<1>3. WithRun(collected, b) \in [DOMAIN WithRun(collected, b) -> BOOLEAN]
  BY <1>1, <1>2
<1>4. DOMAIN WithRun(collected, b) = DOMAIN runs \cup {collected}
  BY <1>1
<1> QED BY <1>2, <1>3, <1>4

\* A failed collection keeps the types.
LEMMA TypesFail == ASSUME Typed, CollectionFails PROVE Typed'
<1>0. Tables(Len(stored)) /\ Times /\ Histories
  BY DEF Typed
<1>1. /\ Attempted(FALSE) /\ runs' = WithRun(collected, FALSE)
      /\ UNCHANGED <<scenario, clock, due, begun, known, channel, pairs, events, probes,
                     hops, stored, crashes>>
  BY DEF CollectionFails
<1>2. /\ collected \in 0..scenario.until /\ collected' = None
      /\ attempts' \in [DOMAIN attempts' -> BOOLEAN] /\ DOMAIN attempts' \subseteq 0..clock
  BY <1>0, <1>1, AttemptedIs
<1>3. DOMAIN runs' \subseteq 0..scenario.until /\ runs' \in [DOMAIN runs' -> BOOLEAN]
  BY <1>0, <1>1, <1>2, RunsTyped
<1>4. Tables(Len(stored))'
  <2>1. Probe' = Probe
    BY <1>1 DEF Probe, Status, EventsTo
  <2> QED BY <1>0, <1>1, <1>3, <2>1 DEF Tables, EventsTo
<1>5. Times'
  BY <1>0, <1>1, <1>2 DEF Times
<1>6. Histories'
  BY <1>0, <1>1, <1>2 DEF Histories
<1> QED BY <1>4, <1>5, <1>6 DEF Typed

\* Whether a snapshot stores an event of the channel, and which.
Changes(listed) == Lifecycle(listed) # "unchanged"
Change(listed)  == EventRow(Lifecycle(listed), collected)

\* What a snapshot does.
LEMMA SnapshotIs ==
  ASSUME NEW listed \in BOOLEAN, Snapshot(listed)
  PROVE  /\ Attempted(TRUE)
         /\ IF Changes(listed) THEN Stored("event", collected) ELSE UNCHANGED stored
         /\ Prune(collected,
                  IF Changes(listed) THEN events \cup {Change(listed)} ELSE events,
                  probes, hops, WithRun(collected, TRUE))
         /\ known' = (known \/ listed) /\ channel' = ChannelRow(listed, collected)
         /\ UNCHANGED <<scenario, clock, due, begun, crashes>>
         /\ Change(listed).n = Len(stored') /\ Change(listed).ts = collected
         /\ Change(listed).kind = Lifecycle(listed)
         /\ Lifecycle(listed) \in {"disappeared", "reappeared", "unchanged"}
<1>1. Lifecycle(listed) \in {"disappeared", "reappeared", "unchanged"}
  BY DEF Lifecycle
<1>2. /\ Change(listed).n = Len(stored') /\ Change(listed).ts = collected
      /\ Change(listed).kind = Lifecycle(listed)
  BY DEF Change, EventRow
<1>3. CASE Lifecycle(listed) = "unchanged"
  BY <1>1, <1>2, <1>3 DEF Snapshot, Changes
<1>4. CASE Lifecycle(listed) # "unchanged"
  BY <1>1, <1>2, <1>4 DEF Snapshot, Changes, Change
<1> QED BY <1>3, <1>4

\* A snapshot keeps the types.
LEMMA TypesSnapshot ==
  ASSUME Typed, NEW listed \in BOOLEAN, Snapshot(listed)
  PROVE  Typed'
<1>0. Tables(Len(stored)) /\ Times /\ Histories
  BY DEF Typed
<1> DEFINE es == IF Changes(listed) THEN events \cup {Change(listed)} ELSE events
           rs == WithRun(collected, TRUE)
<1>1. /\ Attempted(TRUE) /\ Prune(collected, es, probes, hops, rs)
      /\ known' = (known \/ listed) /\ channel' = ChannelRow(listed, collected)
      /\ UNCHANGED <<scenario, clock, due, begun, crashes>>
  BY SnapshotIs
<1>2. IF Changes(listed) THEN Stored("event", collected) ELSE UNCHANGED stored
  BY SnapshotIs
<1>3. /\ collected \in 0..clock /\ collected \in 0..scenario.until /\ collected' = None
      /\ attempts' \in [DOMAIN attempts' -> BOOLEAN] /\ DOMAIN attempts' \subseteq 0..clock
  BY <1>0, <1>1, AttemptedIs
<1>4. "event" \in Kind /\ clock \in Nat /\ collected \in Nat
  BY <1>0, <1>3, ScenarioIs DEF Kind, Times
<1>5. /\ stored' \in Seq([kind : Kind, ts : Nat])
      /\ \A i \in DOMAIN stored' : stored'[i].ts <= clock
      /\ Len(stored') \in Nat /\ Len(stored) \in Nat
      /\ Len(stored') = IF Changes(listed) THEN Len(stored) + 1 ELSE Len(stored)
  <2>1. CASE ~Changes(listed)
    BY <1>0, <1>2, <2>1 DEF Histories
  <2>2. CASE Changes(listed)
    <3>1. Stored("event", collected)
      BY <1>2, <2>2
    <3>2. /\ stored' \in Seq([kind : Kind, ts : Nat])
          /\ Len(stored) \in Nat /\ Len(stored') = Len(stored) + 1
          /\ DOMAIN stored = 1..Len(stored) /\ DOMAIN stored' = 1..Len(stored')
          /\ stored'[Len(stored')].ts = collected
          /\ \A i \in DOMAIN stored : stored'[i] = stored[i]
      BY <1>0, <1>4, <3>1, StoredIs DEF Histories
    <3> QED BY <1>0, <1>3, <2>2, <3>2 DEF Histories
  <2> QED BY <2>1, <2>2
<1>6. Histories'
  BY <1>1, <1>3, <1>5 DEF Histories
<1>7. Times'
  <2>1. channel' \in [row : BOOLEAN, disappeared_at : 0..scenario.until \cup {None}]
    BY <1>0, <1>1, <1>3 DEF Times, ChannelRow
  <2> QED BY <1>0, <1>1, <1>3, <2>1 DEF Times
<1> DEFINE n == Len(stored')
<1>8. es \subseteq EventsTo(n)
  <2>1. Changes(listed) => Change(listed) \in EventsTo(n)
    <3>1. ASSUME Changes(listed)
          PROVE  n \in 1..n /\ Lifecycle(listed) \in {"disappeared", "reappeared"}
      <4>1. n \in Nat /\ n > 0
        BY <1>5, <3>1
      <4>2. Lifecycle(listed) \in {"disappeared", "reappeared"}
        BY <3>1, SnapshotIs DEF Changes
      <4> QED BY <4>1, <4>2
    <3> QED BY <1>3, <3>1 DEF Change, EventRow, EventsTo
  <2> QED BY <1>0, <1>5, <2>1 DEF Tables, EventsTo
<1>9. (\A p \in probes : p.n \in 1..n) /\ hops \subseteq (1..n) \X Nat /\ probes \subseteq Probe
  BY <1>0, <1>5 DEF Tables
<1>10. DOMAIN rs \subseteq 0..scenario.until /\ rs \in [DOMAIN rs -> BOOLEAN]
  BY <1>0, <1>3, RunsTyped
<1>11. Tables(Len(stored))'
  <2>1. n \in Nat /\ n = Len(stored') /\ scenario' = scenario /\ scenario \in Scenarios
    BY <1>0, <1>1, <1>5 DEF Times
  <2> HIDE DEF es, rs, n
  <2> QED BY <1>0, <1>1, <1>8, <1>9, <1>10, <2>1, PruneTypes
<1> QED BY <1>6, <1>7, <1>11 DEF Typed

\* The types hold in every state.
LEMMA TypesNext == Typed /\ [Next]_vars => Typed'
<1> SUFFICES ASSUME Typed, [Next]_vars PROVE Typed'
  OBVIOUS
<1>1. CASE Tick BY <1>1, TypesTick
<1>2. CASE RecordForward BY <1>2, TypesForward
<1>3. ASSUME NEW binds \in BOOLEAN, RecordEvent(binds) PROVE Typed'
  BY <1>3, TypesEvent
<1>4. ASSUME NEW r \in Results, NEW lag \in 0..MaxLag, NEW bad \in BOOLEAN, lag <= clock,
             RecordProbe(r, clock - lag, bad)
      PROVE  Typed'
  <2>1. clock - lag \in 0..clock
    BY <1>4, ScenarioIs DEF Typed, Times
  <2> QED BY <1>4, <2>1, TypesProbe
<1>5. CASE BeginCollection BY <1>5, TypesBegin
<1>6. ASSUME NEW listed \in BOOLEAN, Snapshot(listed)
      PROVE  Typed'
  BY <1>6, TypesSnapshot
<1>7. CASE CollectionFails BY <1>7, TypesFail
<1>8. CASE Restart BY <1>8, TypesRestart
<1>9. CASE UNCHANGED vars
  BY <1>9 DEF vars, collector, tables, Typed, Tables, Times, Histories, Probe, Status, EventsTo
<1> QED BY <1>1, <1>2, <1>3, <1>4, <1>5, <1>6, <1>7, <1>8, <1>9 DEF Next

(***************************************************************************)
(* The pace of the collections.                                            *)
(***************************************************************************)

\* A collection begins when it is due, and the next is due within an interval.
LEMMA PacedNext == Typed /\ Paced /\ [Next]_vars => Paced'
<1> SUFFICES ASSUME Typed, Paced, [Next]_vars PROVE Paced'
  OBVIOUS
<1>0. /\ clock \in Nat /\ due \in Nat /\ Interval \in Nat /\ Timeout \in Nat
      /\ Interval > 0 /\ Timeout > 0 /\ None \notin Nat
      /\ collected # None => collected \in 0..clock
  BY ScenarioIs DEF Typed, Times
<1>1. CASE Tick
  <2>1. clock' = clock + 1 /\ UNCHANGED <<due, collected, begun>>
    BY <1>1 DEF Tick, collector
  <2>2. CASE collected = None
    BY <1>0, <1>1, <2>1, <2>2 DEF Paced, Tick
  <2>3. CASE collected # None
    BY <1>0, <1>1, <2>1, <2>3 DEF Paced, Tick
  <2> QED BY <2>2, <2>3
<1>2. CASE BeginCollection
  <2>1. /\ collected' = clock /\ begun' = clock /\ due' = NextDue /\ clock' = clock
        /\ clock >= due
    BY <1>2 DEF BeginCollection
  <2>2. clock < due' /\ due' <= clock + Interval
    BY <1>0, <2>1, NextDueBounds
  <2> QED BY <1>0, <2>1, <2>2 DEF Paced
<1>3. CASE \/ RecordForward \/ (\E binds \in BOOLEAN : RecordEvent(binds))
           \/ (\E r \in Results, lag \in 0..MaxLag, bad \in BOOLEAN :
                 lag <= clock /\ RecordProbe(r, clock - lag, bad))
  <2>1. UNCHANGED <<clock, due, collected, begun>>
    BY <1>3 DEF RecordForward, RecordEvent, RecordProbe, collector
  <2> QED BY <2>1 DEF Paced
<1>4. CASE (\E listed \in BOOLEAN : Snapshot(listed)) \/ CollectionFails
  <2>1. collected' = None /\ UNCHANGED <<clock, due, begun>>
    BY <1>4 DEF Snapshot, CollectionFails, Attempted
  <2> QED BY <2>1 DEF Paced
<1>5. CASE Restart
  BY <1>5 DEF Restart, Paced
<1>6. CASE UNCHANGED vars
  BY <1>6 DEF vars, collector, Paced
<1> QED BY <1>1, <1>2, <1>3, <1>4, <1>5, <1>6 DEF Next

\* The beginning of a collection follows the last one of the process in time.
LEMMA BeginPaced ==
  ASSUME Typed, Paced, BeginCollection, begun # None
  PROVE  clock - begun \in 1..Max({Interval, Timeout})
<1>1. /\ clock \in Nat /\ due \in Nat /\ Interval \in Nat /\ Timeout \in Nat
      /\ collected = None /\ clock >= due
  BY ScenarioIs DEF Typed, Times, BeginCollection
<1>2. /\ begun \in 0..clock /\ begun < due /\ due <= begun + Interval
      /\ clock <= due \/ clock <= begun + Timeout
  BY DEF Paced
<1>3. {Interval, Timeout} \in SUBSET (0..Interval + Timeout) /\ Interval + Timeout \in Nat
  BY <1>1
<1>4. /\ Max({Interval, Timeout}) \in {Interval, Timeout}
      /\ Interval <= Max({Interval, Timeout}) /\ Timeout <= Max({Interval, Timeout})
  BY <1>3, MaxOf
<1> QED BY <1>1, <1>2, <1>4

(***************************************************************************)
(* Retention.                                                              *)
(***************************************************************************)

\* A difference that does not fall below zero.
LEMMA MinusIs ==
  ASSUME NEW x \in Nat, NEW y \in Nat, NEW z \in Nat
  PROVE  Minus(x, z) \in Nat /\ (x <= y => Minus(x, z) <= Minus(y, z))
BY DEF Minus

\* The window only ever moves forward.
LEMMA WindowMoves ==
  ASSUME Times, scenario' = scenario, clock' \in Nat, clock' >= clock
  PROVE  /\ \A t \in Window' : t \in Window
         /\ \A t \in Window, ts \in 0..clock : t >= Cutoff(ts)
<1>1. clock \in Nat /\ Retention \in Nat /\ scenario.until \in Nat
  BY ScenarioIs DEF Times
<1>2. \A t \in Window' : t \in Window
  <2>1. Window' = {t \in 0..scenario.until : t >= Minus(clock', Retention)}
    BY DEF Window
  <2>2. /\ Minus(clock, Retention) \in Nat /\ Minus(clock', Retention) \in Nat
        /\ Minus(clock, Retention) <= Minus(clock', Retention)
    BY <1>1, MinusIs
  <2> QED BY <1>1, <2>1, <2>2 DEF Window
<1>3. \A t \in Window, ts \in 0..clock : t >= Cutoff(ts)
  BY <1>1 DEF Window, Minus, Cutoff
<1> QED BY <1>2, <1>3

\* Rows that a prune keeps, with a row for every new record, keep the window.
LEMMA WindowKeptBy ==
  ASSUME Times, scenario' = scenario, clock' \in Nat, clock' >= clock, WindowKept,
         NEW ts \in 0..clock,
         \A e \in events : e.ts >= Cutoff(ts) => e \in events',
         \A p \in probes : p.ts >= Cutoff(ts) => p \in probes',
         \A i \in DOMAIN stored : stored'[i] = stored[i],
         \A i \in DOMAIN stored' \ DOMAIN stored :
           stored'[i].kind # "forward" =>
             \E r \in (IF stored'[i].kind = "event" THEN events' ELSE probes') :
               r.n = i /\ r.ts = stored'[i].ts
  PROVE  WindowKept'
<1> SUFFICES ASSUME NEW i \in DOMAIN stored', stored'[i].kind # "forward",
                    stored'[i].ts \in Window'
             PROVE  \E r \in (IF stored'[i].kind = "event" THEN events' ELSE probes') :
                      r.n = i /\ r.ts = stored'[i].ts
  BY DEF WindowKept, RowsOf
<1>1. CASE i \notin DOMAIN stored
  BY <1>1
<1>2. CASE i \in DOMAIN stored
  <2>1. stored'[i] = stored[i] /\ stored[i].ts \in Window
    BY <1>2, WindowMoves
  <2>2. PICK r \in RowsOf(stored[i].kind) : r.n = i /\ r.ts = stored[i].ts
    BY <1>2, <2>1 DEF WindowKept
  <2>3. r.ts >= Cutoff(ts)
    BY <2>1, <2>2, WindowMoves
  <2> QED BY <2>1, <2>2, <2>3 DEF RowsOf
<1> QED BY <1>1, <1>2

\* Nothing is lost within the window.
LEMMA WindowKeptNext == Typed /\ Typed' /\ WindowKept /\ [Next]_vars => WindowKept'
<1> SUFFICES ASSUME Typed, Typed', WindowKept, [Next]_vars PROVE WindowKept'
  OBVIOUS
<1>0. /\ Times /\ Times' /\ Histories /\ clock \in Nat /\ clock' \in Nat /\ clock \in 0..clock
      /\ stored \in Seq([kind : Kind, ts : Nat])
  BY ScenarioIs DEF Typed, Times, Histories
<1>1. CASE Tick \/ BeginCollection \/ CollectionFails \/ Restart \/ UNCHANGED vars
  <2>1. /\ scenario' = scenario
        /\ clock' = clock \/ clock' = clock + 1
        /\ UNCHANGED <<events, probes, stored>>
    BY <1>1 DEF Tick, BeginCollection, CollectionFails, Restart, vars, tables
  <2>2. clock' >= clock
    BY <1>0, <2>1
  <2>3. /\ \A e \in events : e.ts >= Cutoff(clock) => e \in events'
        /\ \A p \in probes : p.ts >= Cutoff(clock) => p \in probes'
        /\ \A i \in DOMAIN stored : stored'[i] = stored[i]
        /\ DOMAIN stored' \ DOMAIN stored = {}
    BY <2>1
  <2> QED BY <1>0, <2>1, <2>2, <2>3, WindowKeptBy
<1>2. CASE RecordForward
  <2>1. /\ Stored("forward", clock) /\ scenario' = scenario /\ clock' = clock
        /\ events' = events /\ probes' = probes /\ "forward" \in Kind
    BY <1>2 DEF RecordForward, Kind
  <2>2. /\ DOMAIN stored' = 1..Len(stored') /\ DOMAIN stored = 1..Len(stored)
        /\ Len(stored) \in Nat /\ Len(stored') = Len(stored) + 1
        /\ stored'[Len(stored')].kind = "forward"
        /\ \A i \in DOMAIN stored : stored'[i] = stored[i]
    BY <1>0, <2>1, StoredIs
  <2>3. \A i \in DOMAIN stored' \ DOMAIN stored : stored'[i].kind = "forward"
    BY <2>2
  <2> QED BY <1>0, <2>1, <2>2, <2>3, WindowKeptBy
<1>3. ASSUME NEW binds \in BOOLEAN, RecordEvent(binds) PROVE WindowKept'
  <2>1. /\ Stored("event", clock) /\ scenario' = scenario /\ clock' = clock
        /\ events' = events \cup {EventRow("notice", clock)}
        /\ probes' = probes /\ "event" \in Kind
    BY <1>3 DEF RecordEvent, Kind
  <2>2. /\ DOMAIN stored' = 1..Len(stored') /\ DOMAIN stored = 1..Len(stored)
        /\ Len(stored) \in Nat /\ Len(stored') = Len(stored) + 1
        /\ stored'[Len(stored')].kind = "event" /\ stored'[Len(stored')].ts = clock
        /\ \A i \in DOMAIN stored : stored'[i] = stored[i]
    BY <1>0, <2>1, StoredIs
  <2>3. \A i \in DOMAIN stored' \ DOMAIN stored :
          \E r \in (IF stored'[i].kind = "event" THEN events' ELSE probes') :
            r.n = i /\ r.ts = stored'[i].ts
    <3>1. \A i \in DOMAIN stored' \ DOMAIN stored : i = Len(stored')
      BY <2>2
    <3> DEFINE row == EventRow("notice", clock)
    <3>2. row \in events' /\ row.n = Len(stored') /\ row.ts = clock
      BY <2>1 DEF EventRow
    <3> HIDE DEF row
    <3> QED BY <2>2, <3>1, <3>2
  <2> QED BY <1>0, <2>1, <2>2, <2>3, WindowKeptBy
<1>4. ASSUME NEW r \in Results, NEW lag \in 0..MaxLag, NEW bad \in BOOLEAN, lag <= clock,
             RecordProbe(r, clock - lag, bad)
      PROVE  WindowKept'
  <2> DEFINE ts == clock - lag
  <2>1. ts \in 0..clock /\ ts \in Nat
    BY <1>0, <1>4, ScenarioIs DEF Times
  <2> HIDE DEF ts
  <2>2. /\ Stored("probe", ts) /\ scenario' = scenario /\ clock' = clock
        /\ events' = {e \in events : Keeps(e.ts, ts)}
        /\ probes' = {p \in probes \cup {ProbeRow(r, ts)} : Keeps(p.ts, ts)}
        /\ "probe" \in Kind
    BY <1>4 DEF RecordProbe, Prune, Kind, ts
  <2>3. /\ DOMAIN stored' = 1..Len(stored') /\ DOMAIN stored = 1..Len(stored)
        /\ Len(stored) \in Nat /\ Len(stored') = Len(stored) + 1
        /\ stored'[Len(stored')].kind = "probe" /\ stored'[Len(stored')].ts = ts
        /\ \A i \in DOMAIN stored : stored'[i] = stored[i]
    BY <1>0, <2>1, <2>2, StoredIs
  <2>4. /\ ProbeRow(r, ts) \in probes' /\ ProbeRow(r, ts).n = Len(stored')
        /\ ProbeRow(r, ts).ts = ts
    BY <1>0, <2>1, <2>2, CutoffBelow DEF ProbeRow, Keeps
  <2>5. \A i \in DOMAIN stored' \ DOMAIN stored :
          \E q \in (IF stored'[i].kind = "event" THEN events' ELSE probes') :
            q.n = i /\ q.ts = stored'[i].ts
    BY <2>3, <2>4
  <2>6. /\ \A e \in events : e.ts >= Cutoff(ts) => e \in events'
        /\ \A p \in probes : p.ts >= Cutoff(ts) => p \in probes'
    BY <2>2 DEF Keeps
  <2>7. clock' \in Nat /\ clock' >= clock
    BY <1>0, <2>2
  <2> QED BY <1>0, <2>1, <2>2, <2>3, <2>5, <2>6, <2>7, WindowKeptBy
<1>5. ASSUME NEW listed \in BOOLEAN, Snapshot(listed)
      PROVE  WindowKept'
  <2> DEFINE row == Change(listed)
             changed == Changes(listed)
  <2>1. /\ Attempted(TRUE) /\ scenario' = scenario /\ clock' = clock
        /\ events' = {e \in IF changed THEN events \cup {row} ELSE events :
                        Keeps(e.ts, collected)}
        /\ probes' = {p \in probes : Keeps(p.ts, collected)}
        /\ IF changed THEN Stored("event", collected) ELSE UNCHANGED stored
        /\ "event" \in Kind
    BY <1>5, SnapshotIs DEF Prune, Kind
  <2>2. collected \in 0..clock /\ collected \in Nat
    BY <1>0, <2>1 DEF Attempted, Times
  <2>3. /\ \A e \in events : e.ts >= Cutoff(collected) => e \in events'
        /\ \A p \in probes : p.ts >= Cutoff(collected) => p \in probes'
    BY <2>1 DEF Keeps
  <2>4. CASE ~changed
    BY <1>0, <2>1, <2>2, <2>3, <2>4, WindowKeptBy
  <2>5. CASE changed
    <3>1. /\ DOMAIN stored' = 1..Len(stored') /\ DOMAIN stored = 1..Len(stored)
          /\ Len(stored) \in Nat /\ Len(stored') = Len(stored) + 1
          /\ stored'[Len(stored')].kind = "event" /\ stored'[Len(stored')].ts = collected
          /\ \A i \in DOMAIN stored : stored'[i] = stored[i]
      BY <1>0, <2>1, <2>2, <2>5, StoredIs
    <3>2. row \in events' /\ row.n = Len(stored') /\ row.ts = collected
      BY <1>0, <1>5, <2>1, <2>2, <2>5, CutoffBelow, SnapshotIs DEF Keeps
    <3>3. \A i \in DOMAIN stored' \ DOMAIN stored :
            \E q \in (IF stored'[i].kind = "event" THEN events' ELSE probes') :
              q.n = i /\ q.ts = stored'[i].ts
      BY <3>1, <3>2
    <3>4. clock' \in Nat /\ clock' >= clock
      BY <1>0, <2>1
    <3> QED BY <1>0, <2>1, <2>2, <2>3, <3>1, <3>3, <3>4, WindowKeptBy
  <2> QED BY <2>4, <2>5
<1> QED BY <1>1, <1>2, <1>3, <1>4, <1>5 DEF Next

\* The times of all rows, and those of the snapshots that were stored.
RowTimes  == {r.ts : r \in events \cup probes} \cup DOMAIN runs
               \cup {k.bucket : k \in DOMAIN pairs}
Successes == {t \in DOMAIN attempts : attempts[t]}

\* No row is older than the window of any snapshot.
LEMMA AgedOutIs == AgedOut <=> \A t \in RowTimes, s \in Successes : t >= Cutoff(s)
BY DEF AgedOut, RowTimes, Successes

\* A row that lies in the window changes nothing while no snapshot is stored.
LEMMA AgedOutBy ==
  ASSUME AgedOut, NEW x, RowTimes' \subseteq RowTimes \cup {x}, attempts' = attempts,
         \A s \in Successes : x >= Cutoff(s)
  PROVE  AgedOut'
<1>1. Successes' = Successes
  BY DEF Successes
<1>2. \A t \in RowTimes \cup {x}, s \in Successes : t >= Cutoff(s)
  BY AgedOutIs
<1>3. \A t \in RowTimes', s \in Successes' : t >= Cutoff(s)
  BY <1>1, <1>2
<1>4. AgedOut' <=> \A t \in RowTimes', s \in Successes' : t >= Cutoff(s)
  BY DEF AgedOut, RowTimes, Successes
<1> QED BY <1>3, <1>4

\* Successes lie in the past.
LEMMA SuccessesPast ==
  ASSUME Times, Histories
  PROVE  /\ \A s \in Successes : s \in 0..clock
         /\ collected # None => \A s \in Successes : s \in 0..collected
BY DEF Histories, Successes

\* Nothing stays beyond the window of the newest snapshot.
LEMMA AgedOutNext == Typed /\ AgedOut /\ [Next]_vars => AgedOut'
<1> SUFFICES ASSUME Typed, AgedOut, [Next]_vars PROVE AgedOut'
  OBVIOUS
<1>0. /\ Times /\ Histories /\ clock \in Nat /\ Retention \in Nat
      /\ Bucket \in Nat /\ Retention >= Bucket /\ MaxLag \in Nat /\ MaxLag <= Retention
      /\ \A s \in Successes : s \in 0..clock
  BY ScenarioIs, SuccessesPast DEF Typed, Times
<1>1. CASE Tick \/ BeginCollection \/ Restart \/ UNCHANGED vars
  <2>1. UNCHANGED <<events, probes, runs, pairs, attempts>>
    BY <1>1 DEF Tick, BeginCollection, Restart, vars, tables
  <2>2. RowTimes' \subseteq RowTimes \cup {clock}
    BY <2>1 DEF RowTimes
  <2>3. \A s \in Successes : clock >= Cutoff(s)
    BY <1>0 DEF Cutoff, Minus
  <2> QED BY <2>1, <2>2, <2>3, AgedOutBy
<1>2. CASE RecordForward
  <2> DEFINE b == BucketOf(clock)
             key == [bucket |-> b, name |-> IF known THEN "identity" ELSE "alias"]
  <2>1. /\ UNCHANGED <<events, probes, runs, attempts>>
        /\ DOMAIN pairs' = DOMAIN pairs \cup {key}
    BY <1>2 DEF RecordForward, Put
  <2>2. b \in Nat /\ clock < b + Bucket /\ key.bucket = b
    BY <1>0, BucketBounds
  <2> HIDE DEF b, key
  <2>3. RowTimes' \subseteq RowTimes \cup {b}
    BY <2>1, <2>2 DEF RowTimes
  <2>4. \A s \in Successes : b >= Cutoff(s)
    BY <1>0, <2>2 DEF Cutoff, Minus
  <2> QED BY <2>1, <2>3, <2>4, AgedOutBy
<1>3. ASSUME NEW binds \in BOOLEAN, RecordEvent(binds) PROVE AgedOut'
  <2>1. /\ UNCHANGED <<pairs, probes, runs, attempts>>
        /\ events' = events \cup {EventRow("notice", clock)}
    BY <1>3 DEF RecordEvent
  <2>2. RowTimes' \subseteq RowTimes \cup {clock}
    BY <2>1 DEF RowTimes, EventRow
  <2>3. \A s \in Successes : clock >= Cutoff(s)
    BY <1>0 DEF Cutoff, Minus
  <2> QED BY <2>1, <2>2, <2>3, AgedOutBy
<1>4. ASSUME NEW r \in Results, NEW lag \in 0..MaxLag, NEW bad \in BOOLEAN, lag <= clock,
             RecordProbe(r, clock - lag, bad)
      PROVE  AgedOut'
  <2> DEFINE ts == clock - lag
  <2>1. /\ attempts' = attempts /\ DOMAIN pairs' \subseteq DOMAIN pairs
        /\ events' \subseteq events /\ DOMAIN runs' \subseteq DOMAIN runs
        /\ probes' \subseteq probes \cup {ProbeRow(r, ts)} /\ ProbeRow(r, ts).ts = ts
    BY <1>4 DEF RecordProbe, Prune, Only, ProbeRow
  <2>2. ts \in Nat /\ clock <= ts + Retention
    BY <1>0, <1>4
  <2> HIDE DEF ts
  <2>3. RowTimes' \subseteq RowTimes \cup {ts}
    BY <2>1 DEF RowTimes
  <2>4. \A s \in Successes : ts >= Cutoff(s)
    BY <1>0, <2>2 DEF Cutoff, Minus
  <2> QED BY <2>1, <2>3, <2>4, AgedOutBy
<1>5. ASSUME NEW listed \in BOOLEAN, Snapshot(listed)
      PROVE  AgedOut'
  <2>1. /\ collected # None
        /\ attempts' = [t \in DOMAIN attempts \cup {collected} |->
                          IF t = collected THEN TRUE ELSE attempts[t]]
        /\ \A e \in events' : e.ts >= Cutoff(collected)
        /\ \A p \in probes' : p.ts >= Cutoff(collected)
        /\ \A t \in DOMAIN runs' : t >= Cutoff(collected)
        /\ \A k \in DOMAIN pairs' : k.bucket >= Cutoff(collected)
    BY <1>5, SnapshotIs DEF Attempted, Prune, Only, Keeps, Put
  <2>2. collected \in Nat /\ \A s \in Successes : s \in 0..collected
    BY <1>0, <2>1, SuccessesPast DEF Times
  <2>3. \A s \in Successes' : s \in 0..collected
    BY <2>1, <2>2 DEF Successes
  <2>4. \A s \in 0..collected : /\ Cutoff(s) \in Nat /\ Cutoff(collected) \in Nat
                                /\ Cutoff(s) <= Cutoff(collected)
    BY <1>0, <2>2 DEF Cutoff, Minus
  <2>5. \A t \in RowTimes' : t >= Cutoff(collected)
    BY <2>1 DEF RowTimes
  <2>6. RowTimes' \subseteq Int
    <3>1. RowTimes \subseteq Int
      BY DEF RowTimes, Typed, Tables, Probe, EventsTo
    <3>2. RowTimes' \subseteq RowTimes \cup {collected}
      <4>1. /\ events' \subseteq events \cup {Change(listed)} /\ probes' \subseteq probes
            /\ DOMAIN runs' \subseteq DOMAIN runs \cup {collected}
            /\ DOMAIN pairs' \subseteq DOMAIN pairs /\ Change(listed).ts = collected
        BY <1>5, SnapshotIs DEF Prune, Only, WithRun, Put
      <4> QED BY <4>1 DEF RowTimes
    <3> QED BY <2>2, <3>1, <3>2
  <2>7. \A t \in RowTimes', s \in Successes' : t >= Cutoff(s)
    BY <2>3, <2>4, <2>5, <2>6
  <2> QED BY <2>7 DEF AgedOut, RowTimes, Successes
<1>6. CASE CollectionFails
  <2>1. /\ collected # None
        /\ attempts' = [t \in DOMAIN attempts \cup {collected} |->
                          IF t = collected THEN FALSE ELSE attempts[t]]
        /\ UNCHANGED <<events, probes, pairs>>
        /\ DOMAIN runs' = DOMAIN runs \cup {collected}
    BY <1>6 DEF CollectionFails, Attempted, WithRun, Put
  <2>2. collected \in Nat /\ \A s \in Successes : s \in 0..collected
    BY <1>0, <2>1, SuccessesPast DEF Times
  <2>3. Successes' \subseteq Successes
    BY <2>1 DEF Successes
  <2>4. RowTimes' \subseteq RowTimes \cup {collected}
    BY <2>1 DEF RowTimes
  <2>5. \A s \in Successes : collected >= Cutoff(s)
    BY <1>0, <2>2 DEF Cutoff, Minus
  <2>6. \A t \in RowTimes', s \in Successes' : t >= Cutoff(s)
    BY <2>3, <2>4, <2>5, AgedOutIs
  <2> QED BY <2>6 DEF AgedOut, RowTimes, Successes
<1> QED BY <1>1, <1>2, <1>3, <1>4, <1>5, <1>6 DEF Next

(***************************************************************************)
(* The runs of the collector.                                              *)
(***************************************************************************)

\* Two functions are the same on a set.
Agree(f, g, S) ==
  /\ \A x \in S : x \in DOMAIN f <=> x \in DOMAIN g
  /\ \A x \in S : x \in DOMAIN f => f[x] = g[x]

\* What the equality of two functions on a set means.
LEMMA OnlySame ==
  ASSUME NEW f, NEW g, NEW S
  PROVE  Only(f, S) = Only(g, S) <=> Agree(f, g, S)
<1>0. /\ DOMAIN Only(f, S) = DOMAIN f \cap S /\ DOMAIN Only(g, S) = DOMAIN g \cap S
      /\ \A y \in DOMAIN f \cap S : Only(f, S)[y] = f[y]
      /\ \A y \in DOMAIN g \cap S : Only(g, S)[y] = g[y]
  BY OnlyIs
<1>1. ASSUME Only(f, S) = Only(g, S) PROVE Agree(f, g, S)
  <2>1. DOMAIN f \cap S = DOMAIN g \cap S
    BY <1>0, <1>1
  <2>2. \A x \in S : x \in DOMAIN f <=> x \in DOMAIN g
    BY <2>1
  <2>3. \A x \in S : x \in DOMAIN f => f[x] = g[x]
    BY <1>0, <1>1, <2>1
  <2> QED BY <2>2, <2>3 DEF Agree
<1>2. ASSUME Agree(f, g, S) PROVE Only(f, S) = Only(g, S)
  <2>1. DOMAIN f \cap S = DOMAIN g \cap S
    BY <1>2 DEF Agree
  <2>2. \A x \in DOMAIN f \cap S : f[x] = g[x]
    BY <1>2 DEF Agree
  <2> QED BY <2>1, <2>2, SameOnly
<1> QED BY <1>1, <1>2

\* Two functions that agree on a set still do when both get the same entry.
LEMMA PutSame ==
  ASSUME NEW f, NEW g, NEW S, NEW x, NEW v, Agree(f, g, S)
  PROVE  Agree(Put(f, x, v), Put(g, x, v), S)
<1>1. /\ DOMAIN Put(f, x, v) = DOMAIN f \cup {x}
      /\ DOMAIN Put(g, x, v) = DOMAIN g \cup {x}
      /\ Put(f, x, v)[x] = v /\ Put(g, x, v)[x] = v
  BY DEF Put
<1>2. /\ \A y \in DOMAIN f \ {x} : Put(f, x, v)[y] = f[y]
      /\ \A y \in DOMAIN g \ {x} : Put(g, x, v)[y] = g[y]
  BY DEF Put
<1>3. \A y \in S : y \in DOMAIN Put(f, x, v) <=> y \in DOMAIN Put(g, x, v)
  BY <1>1 DEF Agree
<1>4. ASSUME NEW y \in S, y \in DOMAIN Put(f, x, v)
      PROVE  Put(f, x, v)[y] = Put(g, x, v)[y]
  <2>1. CASE y = x
    BY <1>1, <2>1
  <2>2. CASE y # x
    <3>1. y \in DOMAIN f \ {x} /\ y \in DOMAIN g \ {x} /\ f[y] = g[y]
      BY <1>1, <1>4, <2>2 DEF Agree
    <3> QED BY <1>2, <3>1
  <2> QED BY <2>1, <2>2
<1> QED BY <1>3, <1>4 DEF Agree

\* They still agree on less, after a prune that spares it.
LEMMA PruneSame ==
  ASSUME NEW f, NEW g, NEW S, NEW R, \A x \in R : x \in S, NEW K, Agree(f, g, S),
         \A x \in R : x \in DOMAIN f => x \in K
  PROVE  Agree(Only(f, K), g, R)
<1>1. /\ DOMAIN Only(f, K) = DOMAIN f \cap K
      /\ \A y \in DOMAIN f \cap K : Only(f, K)[y] = f[y]
  BY OnlyIs
<1>2. \A x \in R : x \in DOMAIN Only(f, K) <=> x \in DOMAIN g
  BY <1>1 DEF Agree
<1>3. ASSUME NEW x \in R, x \in DOMAIN Only(f, K) PROVE Only(f, K)[x] = g[x]
  <2>1. x \in DOMAIN f \cap K /\ x \in S
    BY <1>1, <1>3
  <2> QED BY <1>1, <2>1 DEF Agree
<1> QED BY <1>2, <1>3 DEF Agree

\* What survives of the runs after a step agrees with the attempts.
LEMMA RunsKeptBy ==
  ASSUME Times, scenario' = scenario, clock' \in Nat, clock' >= clock,
         NEW ts \in 0..clock, NEW rs, Agree(rs, attempts', Window),
         \/ runs' = rs
         \/ runs' = Only(rs, {t \in DOMAIN rs : Keeps(t, ts)})
  PROVE  RunsKept'
<1> DEFINE K == {t \in DOMAIN rs : Keeps(t, ts)}
<1>1. \A t \in Window' : t \in Window
  BY WindowMoves
<1>2. \A t \in Window' : t \in DOMAIN rs => t \in K
  BY <1>1, WindowMoves DEF Keeps
<1>3. CASE runs' = rs
  <2>1. Agree(runs', attempts', Window')
    BY <1>1, <1>3 DEF Agree
  <2> QED BY <2>1, OnlySame DEF RunsKept, Only
<1>4. CASE runs' = Only(rs, K)
  <2>1. Agree(runs', attempts', Window')
    <3> HIDE DEF K
    <3> QED BY <1>1, <1>2, <1>4, PruneSame
  <2> QED BY <2>1, OnlySame DEF RunsKept, Only
<1> QED BY <1>3, <1>4

\* The outcome of every attempt in the window is kept.
LEMMA RunsKeptNext == Typed /\ Typed' /\ RunsKept /\ [Next]_vars => RunsKept'
<1> SUFFICES ASSUME Typed, Typed', RunsKept, [Next]_vars PROVE RunsKept'
  OBVIOUS
<1>0. /\ Times /\ clock \in Nat /\ clock' \in Nat /\ clock \in 0..clock
      /\ Agree(runs, attempts, Window)
  BY ScenarioIs, OnlySame DEF Typed, Times, RunsKept
<1>1. CASE \/ Tick \/ RecordForward \/ (\E binds \in BOOLEAN : RecordEvent(binds))
           \/ BeginCollection \/ Restart \/ UNCHANGED vars
  <2>1. /\ scenario' = scenario /\ runs' = runs /\ attempts' = attempts
        /\ clock' = clock \/ clock' = clock + 1
    BY <1>1 DEF Tick, RecordForward, RecordEvent, BeginCollection, Restart, vars, tables
  <2>2. clock' >= clock /\ Agree(runs, attempts', Window)
    BY <1>0, <2>1
  <2> QED BY <1>0, <2>1, <2>2, RunsKeptBy
<1>2. ASSUME NEW r \in Results, NEW lag \in 0..MaxLag, NEW bad \in BOOLEAN, lag <= clock,
             RecordProbe(r, clock - lag, bad)
      PROVE  RunsKept'
  <2> DEFINE ts == clock - lag
  <2>1. /\ scenario' = scenario /\ clock' = clock /\ attempts' = attempts
        /\ runs' = Only(runs, {t \in DOMAIN runs : Keeps(t, ts)})
    BY <1>2 DEF RecordProbe, Prune
  <2>2. ts \in 0..clock
    BY <1>0, <1>2, ScenarioIs DEF Times
  <2> HIDE DEF ts
  <2>3. clock' >= clock /\ Agree(runs, attempts', Window)
    BY <1>0, <2>1
  <2> QED BY <1>0, <2>1, <2>2, <2>3, RunsKeptBy
<1>3. ASSUME NEW listed \in BOOLEAN, Snapshot(listed)
      PROVE  RunsKept'
  <2> DEFINE rs == Put(runs, collected, TRUE)
  <2>1. /\ scenario' = scenario /\ clock' = clock
        /\ attempts' = Put(attempts, collected, TRUE)
        /\ runs' = Only(rs, {t \in DOMAIN rs : Keeps(t, collected)})
    BY <1>3 DEF Snapshot, Attempted, Prune, WithRun
  <2>2. collected \in 0..clock
    BY <1>0, <1>3 DEF Times, Snapshot, Attempted
  <2>3. Agree(rs, attempts', Window)
    BY <1>0, <2>1, PutSame
  <2> HIDE DEF rs
  <2>4. clock' >= clock
    BY <1>0, <2>1
  <2> QED BY <1>0, <2>1, <2>2, <2>3, <2>4, RunsKeptBy
<1>4. CASE CollectionFails
  <2> DEFINE rs == Put(runs, collected, FALSE)
  <2>1. /\ scenario' = scenario /\ clock' = clock /\ runs' = rs
        /\ attempts' = Put(attempts, collected, FALSE)
    BY <1>4 DEF CollectionFails, Attempted, WithRun
  <2>2. Agree(rs, attempts', Window)
    BY <1>0, <2>1, PutSame
  <2> HIDE DEF rs
  <2>3. clock' >= clock
    BY <1>0, <2>1
  <2> QED BY <1>0, <2>1, <2>2, <2>3, RunsKeptBy
<1> QED BY <1>1, <1>2, <1>3, <1>4 DEF Next

\* The newest of some times is one of them.
LEMMA NewestIs ==
  ASSUME NEW n \in Nat, NEW S \in SUBSET (0..n), None \notin Nat, Newest(S) # None
  PROVE  Newest(S) \in S /\ \A x \in S : x <= Newest(S)
<1>1. S # {} /\ Newest(S) = Max(S)
  BY DEF Newest
<1> QED BY <1>1, MaxOf

\* Two sets of times that agree in the window have the same newest member there.
LEMMA SameNewest ==
  ASSUME Times, NEW S \in SUBSET (0..scenario.until), NEW T \in SUBSET (0..clock),
         \A t \in Window : t \in S <=> t \in T, Newest(T) \in Window
  PROVE  Newest(S) = Newest(T) /\ Newest(S) # None
<1>1. /\ scenario.until \in Nat /\ clock \in Nat /\ None \notin Nat /\ Retention \in Nat
      /\ Minus(clock, Retention) \in Nat
  <2>1. /\ scenario.until \in Nat /\ clock \in Nat /\ None \notin Nat
        /\ Retention \in Nat
    BY ScenarioIs DEF Times
  <2> QED BY <2>1 DEF Minus
<1> DEFINE m == Newest(T)
<1>2. m \in Nat /\ m \in 0..scenario.until /\ m >= Minus(clock, Retention) /\ m # None
  BY <1>1 DEF Window
<1>3. m \in T /\ \A x \in T : x <= m
  BY <1>1, <1>2, NewestIs
<1> HIDE DEF m
<1>4. m \in S
  BY <1>3 DEF m
<1>5. \A x \in S : x <= m
  <2> SUFFICES ASSUME NEW x \in S, x > m PROVE FALSE
    BY <1>1, <1>2
  <2>1. x \in Window
    BY <1>1, <1>2 DEF Window
  <2>2. x \in T
    BY <2>1
  <2> QED BY <1>1, <1>2, <1>3, <2>2
<1>6. Newest(S) = Max(S) /\ S # {}
  BY <1>4 DEF Newest
<1>7. Max(S) \in S /\ \A x \in S : x <= Max(S)
  BY <1>1, <1>6, MaxOf
<1>8. Max(S) = m
  <2>1. Max(S) <= m
    BY <1>5, <1>7
  <2>2. m <= Max(S)
    BY <1>4, <1>7
  <2>3. Max(S) \in 0..scenario.until
    BY <1>7
  <2> QED BY <1>1, <1>2, <2>1, <2>2, <2>3
<1> QED BY <1>2, <1>6, <1>8 DEF m

\* Health is honest whenever the runs in the window are kept.
LEMMA RunsAreHonest == Typed /\ RunsKept => HealthHonest
<1> SUFFICES ASSUME Typed, RunsKept PROVE HealthHonest
  OBVIOUS
<1>1. Times /\ Agree(runs, attempts, Window)
  BY OnlySame DEF Typed, RunsKept
<1>2. DOMAIN runs \subseteq 0..scenario.until /\ DOMAIN attempts \subseteq 0..clock
  BY DEF Typed, Tables, Histories
<1>3. \A t \in Window : t \in DOMAIN runs <=> t \in DOMAIN attempts
  BY <1>1 DEF Agree
<1> DEFINE ok   == {t \in DOMAIN runs : runs[t]}
           succ == {t \in DOMAIN attempts : attempts[t]}
<1>4. \A t \in Window : t \in ok <=> t \in succ
  BY <1>1 DEF Agree
<1>5. Newest(DOMAIN attempts) \in Window => LastRun = Newest(DOMAIN attempts)
  BY <1>1, <1>2, <1>3, SameNewest DEF LastRun
<1>6. Newest(succ) \in Window => Newest(ok) = Newest(succ) /\ Newest(ok) # None
  <2>1. ok \in SUBSET (0..scenario.until) /\ succ \in SUBSET (0..clock)
    BY <1>2
  <2> HIDE DEF ok, succ
  <2> QED BY <1>1, <1>4, <2>1, SameNewest
<1>7. Newest(succ) \in Window => CollectionAge = clock - Newest(succ)
  BY <1>6 DEF CollectionAge, NewestSuccess
<1> QED BY <1>5, <1>7 DEF HealthHonest, RunsKept

(***************************************************************************)
(* Probes and their hops.                                                  *)
(***************************************************************************)

\* Probes with all of their hops, and no other hops.
Whole(ps, hs) ==
  /\ \A p \in ps : {h[2] : h \in {x \in hs : x[1] = p.n}} = 0..p.route - 1
  /\ \A h \in hs : \E p \in ps : p.n = h[1]

\* Whole probes stay whole when some of them go, with the hops that cascade.
LEMMA WholePruned ==
  ASSUME NEW ps, NEW hs, Whole(ps, hs), NEW kept \in SUBSET ps
  PROVE  Whole(kept, HopsOf(kept, hs))
<1> DEFINE left == HopsOf(kept, hs)
<1>1. \A p \in kept : {x \in left : x[1] = p.n} = {x \in hs : x[1] = p.n}
  BY DEF HopsOf
<1>2. \A p \in kept : {h[2] : h \in {x \in hs : x[1] = p.n}} = 0..p.route - 1
  BY DEF Whole
<1>3. \A h \in left : \E p \in kept : p.n = h[1]
  BY DEF HopsOf
<1> HIDE DEF left
<1>4. \A p \in kept : {h[2] : h \in {x \in left : x[1] = p.n}} = 0..p.route - 1
  BY <1>1, <1>2
<1> QED BY <1>3, <1>4 DEF Whole, left

\* They stay whole when a probe with a number of its own comes with its hops.
LEMMA WholeAdded ==
  ASSUME NEW ps, NEW hs, Whole(ps, hs), NEW n, NEW q, NEW k \in Nat,
         q.n = n, q.route = k, \A p \in ps : p.n # n, \A h \in hs : h[1] # n
  PROVE  Whole(ps \cup {q}, hs \cup ({n} \X (0..k - 1)))
<1> DEFINE all == hs \cup ({n} \X (0..k - 1))
<1>1. \A p \in ps : {x \in all : x[1] = p.n} = {x \in hs : x[1] = p.n}
  OBVIOUS
<1>2. {x \in all : x[1] = n} = {n} \X (0..k - 1)
  OBVIOUS
<1>3. {h[2] : h \in {n} \X (0..k - 1)} = 0..k - 1
  <2> DEFINE new == {n} \X (0..k - 1)
  <2>1. \A i \in 0..k - 1 : <<n, i>> \in new /\ <<n, i>>[2] = i
    OBVIOUS
  <2>2. \A h \in new : h[2] \in 0..k - 1
    OBVIOUS
  <2> HIDE DEF new
  <2>3. \A i \in 0..k - 1 : i \in {h[2] : h \in new}
    BY <2>1
  <2>4. {h[2] : h \in new} = 0..k - 1
    BY <2>2, <2>3
  <2> QED BY <2>4 DEF new
<1>4. \A h \in all : \E p \in ps \cup {q} : p.n = h[1]
  BY DEF Whole
<1> HIDE DEF all
<1>5. \A p \in ps : {h[2] : h \in {x \in all : x[1] = p.n}} = 0..p.route - 1
  BY <1>1 DEF Whole
<1>6. {h[2] : h \in {x \in all : x[1] = q.n}} = 0..q.route - 1
  BY <1>2, <1>3
<1> QED BY <1>4, <1>5, <1>6 DEF Whole, all

\* A probe has all of its hops, and no hop is left without its probe.
LEMMA ProbesWholeNext == Typed /\ ProbesWhole /\ [Next]_vars => ProbesWhole'
<1> SUFFICES ASSUME Typed, ProbesWhole, [Next]_vars PROVE Whole(probes', hops')
  BY DEF ProbesWhole, Whole
<1>0. /\ Whole(probes, hops) /\ Times /\ Histories /\ Tables(Len(stored)) /\ clock \in Nat
      /\ stored \in Seq([kind : Kind, ts : Nat])
  BY ScenarioIs DEF ProbesWhole, Whole, Typed, Times, Histories
<1>1. CASE \/ Tick \/ RecordForward \/ (\E binds \in BOOLEAN : RecordEvent(binds))
           \/ BeginCollection \/ CollectionFails \/ Restart \/ UNCHANGED vars
  BY <1>0, <1>1
     DEF Tick, RecordForward, RecordEvent, BeginCollection, CollectionFails, Restart, vars,
         tables
<1>2. ASSUME NEW r \in Results, NEW lag \in 0..MaxLag, NEW bad \in BOOLEAN, lag <= clock,
             RecordProbe(r, clock - lag, bad)
      PROVE  Whole(probes', hops')
  <2> DEFINE ts == clock - lag
             n  == Len(stored')
             q  == ProbeRow(r, ts)
             ps == probes \cup {q}
             hs == hops \cup ({n} \X (0..r.hops - 1))
  <2>1. /\ Stored("probe", ts) /\ probes' = {p \in ps : Keeps(p.ts, ts)}
        /\ hops' = HopsOf(probes', hs) /\ "probe" \in Kind
    BY <1>2 DEF RecordProbe, Prune, Kind
  <2>2. ts \in Nat /\ r.hops \in Nat
    BY <1>0, <1>2, ScenarioIs, ConstantsAssumption DEF Times
  <2>3. q.n = n /\ q.route = r.hops
    BY DEF ProbeRow
  <2>4. n = Len(stored) + 1 /\ Len(stored) \in Nat
    BY <1>0, <2>1, <2>2, StoredIs
  <2>5. \A p \in probes : p.n # n
    BY <1>0, <2>4 DEF Tables
  <2>6. \A h \in hops : h[1] # n
    BY <1>0, <2>4 DEF Tables
  <2>7. Whole(ps, hs)
    <3> HIDE DEF n, q
    <3> QED BY <1>0, <2>2, <2>3, <2>5, <2>6, WholeAdded
  <2> HIDE DEF ps, hs
  <2>8. probes' \in SUBSET ps
    BY <2>1
  <2> QED BY <2>1, <2>7, <2>8, WholePruned
<1>3. ASSUME NEW listed \in BOOLEAN, Snapshot(listed)
      PROVE  Whole(probes', hops')
  <2>1. probes' \in SUBSET probes /\ hops' = HopsOf(probes', hops)
    BY <1>3 DEF Snapshot, Prune
  <2> QED BY <1>0, <2>1, WholePruned
<1> QED BY <1>1, <1>2, <1>3 DEF Next

\* A new row has an id of its own, and a row never changes.
LEMMA ProbesApartNext == Typed /\ ProbesApart /\ [Next]_vars => ProbesApart'
<1> SUFFICES ASSUME Typed, ProbesApart, [Next]_vars PROVE ProbesApart'
  OBVIOUS
<1>0. /\ Times /\ Histories /\ Tables(Len(stored)) /\ clock \in Nat
      /\ stored \in Seq([kind : Kind, ts : Nat])
  BY ScenarioIs DEF Typed, Times, Histories
<1>1. CASE \/ Tick \/ RecordForward \/ (\E binds \in BOOLEAN : RecordEvent(binds))
           \/ BeginCollection \/ CollectionFails \/ Restart \/ UNCHANGED vars
  BY <1>1
     DEF Tick, RecordForward, RecordEvent, BeginCollection, CollectionFails, Restart, vars,
         tables, ProbesApart
<1>2. ASSUME NEW r \in Results, NEW lag \in 0..MaxLag, NEW bad \in BOOLEAN, lag <= clock,
             RecordProbe(r, clock - lag, bad)
      PROVE  ProbesApart'
  <2> DEFINE ts == clock - lag
             n  == Len(stored')
             q  == ProbeRow(r, ts)
  <2>1. /\ Stored("probe", ts) /\ probes' = {p \in probes \cup {q} : Keeps(p.ts, ts)}
        /\ "probe" \in Kind
    BY <1>2 DEF RecordProbe, Prune, Kind
  <2>2. ts \in Nat
    BY <1>0, <1>2, ScenarioIs, ConstantsAssumption DEF Times
  <2>3. n = Len(stored) + 1 /\ Len(stored) \in Nat
    BY <1>0, <2>1, <2>2, StoredIs
  <2>4. q.n = n /\ \A p \in probes : p.n # n
    BY <1>0, <2>3 DEF Tables, ProbeRow
  <2> HIDE DEF n, q
  <2> QED BY <2>1, <2>4 DEF ProbesApart
<1>3. ASSUME NEW listed \in BOOLEAN, Snapshot(listed)
      PROVE  ProbesApart'
  <2>1. probes' \in SUBSET probes
    BY <1>3 DEF Snapshot, Prune
  <2> QED BY <2>1 DEF ProbesApart
<1> QED BY <1>1, <1>2, <1>3 DEF Next

(***************************************************************************)
(* The sums of the buckets.                                                *)
(***************************************************************************)

\* The pairs of a bucket, and the forwards that belong in it.
In(f, b)        == {k \in DOMAIN f : k.bucket = b}
Forwarded(s, b) == {i \in DOMAIN s : s[i].kind = "forward" /\ BucketOf(s[i].ts) = b}

\* What Counts says, with the sums of module FoldTheorems.
Adds(b) ==
  \/ SumOf(pairs, In(pairs, b)) = Cardinality(Forwarded(stored, b))
  \/ SumOf(pairs, In(pairs, b)) = 0 /\ b \notin Window

AllAdd == \A b \in 0..scenario.until : Adds(b)

\* A sum of the model is one of module FoldTheorems.
LEMMA CountsAre == ASSUME NEW b PROVE Counts(b) <=> Adds(b)
BY DEF Counts, Count, SumOf, In, Forwarded, Adds

\* The same of all buckets.
LEMMA AllCountedAre == AllCounted <=> AllAdd
BY CountsAre DEF AllCounted, AllAdd

\* The pairs of a bucket are finitely many, and each counts.
LEMMA InIs ==
  ASSUME Tables(Len(stored)), NEW b
  PROVE  IsFiniteSet(In(pairs, b)) /\ \A k \in In(pairs, b) : pairs[k] \in Nat
<1>1. IsFiniteSet(In(pairs, b))
  BY FS_Subset DEF Tables, In
<1>2. \A k \in In(pairs, b) : pairs[k] \in Nat
  BY DEF Tables, In
<1> QED BY <1>1, <1>2

\* The forwards of a bucket are finitely many.
LEMMA ForwardedIs ==
  ASSUME Histories, NEW b
  PROVE  IsFiniteSet(Forwarded(stored, b)) /\ Forwarded(stored, b) \subseteq DOMAIN stored
<1>1. DOMAIN stored = 1..Len(stored) /\ Len(stored) \in Nat
  BY DEF Histories
<1>2. IsFiniteSet(DOMAIN stored)
  BY <1>1, FS_Interval
<1>3. Forwarded(stored, b) \subseteq DOMAIN stored
  BY DEF Forwarded
<1> QED BY <1>2, <1>3, FS_Subset

\* A record of another kind is no forward.
LEMMA OtherRecord ==
  ASSUME Histories, NEW kind \in Kind, kind # "forward", NEW ts \in Nat, Stored(kind, ts),
         NEW b
  PROVE  Forwarded(stored', b) = Forwarded(stored, b)
<1>1. /\ Len(stored) \in Nat /\ Len(stored') = Len(stored) + 1
      /\ DOMAIN stored = 1..Len(stored) /\ DOMAIN stored' = 1..Len(stored')
      /\ stored'[Len(stored')].kind = kind
      /\ \A i \in DOMAIN stored : stored'[i] = stored[i]
  BY StoredIs DEF Histories
<1>2. DOMAIN stored' = DOMAIN stored \cup {Len(stored')}
  BY <1>1
<1> QED BY <1>1, <1>2 DEF Forwarded

\* Where nothing is counted and nothing is pruned, a bucket adds up as before.
LEMMA CountsSame ==
  ASSUME Times, scenario' = scenario, clock' \in Nat, clock' >= clock, NEW b,
         Adds(b), pairs' = pairs, Forwarded(stored', b) = Forwarded(stored, b)
  PROVE  Adds(b)'
<1>1. b \notin Window => b \notin Window'
  BY WindowMoves
<1> QED BY <1>1 DEF Adds

\* A prune takes a bucket as a whole, once it began before the window.
LEMMA CountsPruned ==
  ASSUME Times, Tables(Len(stored)), scenario' = scenario, clock' = clock,
         NEW ts \in 0..clock, NEW b, Adds(b),
         pairs' = Only(pairs, {k \in DOMAIN pairs : Keeps(k.bucket, ts)}),
         Forwarded(stored', b) = Forwarded(stored, b)
  PROVE  Adds(b)'
<1>0. /\ DOMAIN pairs' = {k \in DOMAIN pairs : Keeps(k.bucket, ts)}
      /\ \A k \in DOMAIN pairs' : pairs'[k] = pairs[k]
  BY DEF Only
<1>1. clock \in Nat /\ clock' \in Nat /\ clock' >= clock
  BY ScenarioIs DEF Times
<1>2. CASE Keeps(b, ts)
  <2>1. In(pairs', b) = In(pairs, b) /\ \A k \in In(pairs, b) : pairs'[k] = pairs[k]
    BY <1>0, <1>2 DEF In
  <2>2. SumOf(pairs', In(pairs, b)) = SumOf(pairs, In(pairs, b))
    BY <2>1, InIs, SumSame
  <2>3. b \notin Window => b \notin Window'
    BY <1>1, WindowMoves
  <2> QED BY <2>1, <2>2, <2>3 DEF Adds
<1>3. CASE ~Keeps(b, ts)
  <2>1. In(pairs', b) = {}
    BY <1>0, <1>3 DEF In
  <2>2. b \notin Window'
    BY <1>1, <1>3, WindowMoves DEF Keeps
  <2> QED BY <2>1, <2>2, SumEmpty DEF Adds
<1> QED BY <1>2, <1>3

\* One more forward is counted where it belongs: once, under one of the two names.
LEMMA CountsForward ==
  ASSUME Times, Tables(Len(stored)), Histories, RecordForward,
         NEW b \in 0..scenario.until, Adds(b)
  PROVE  Adds(b)'
<1> DEFINE B   == BucketOf(clock)
           key == [bucket |-> B, name |-> IF known THEN "identity" ELSE "alias"]
           v   == IF key \in DOMAIN pairs THEN pairs[key] + 1 ELSE 1
<1>0. /\ clock \in Nat /\ Retention \in Nat /\ Retention >= Bucket /\ Bucket \in Nat
      /\ scenario.until \in Nat /\ clock <= scenario.until
  BY ScenarioIs DEF Times
<1>1. /\ Stored("forward", clock) /\ clock' = clock /\ scenario' = scenario
      /\ pairs' = Put(pairs, key, v) /\ "forward" \in Kind
  BY DEF RecordForward, Counted, Kind
<1>2. /\ Len(stored) \in Nat /\ Len(stored') = Len(stored) + 1
      /\ DOMAIN stored = 1..Len(stored) /\ DOMAIN stored' = 1..Len(stored')
      /\ stored'[Len(stored')].kind = "forward" /\ stored'[Len(stored')].ts = clock
      /\ \A i \in DOMAIN stored : stored'[i] = stored[i]
  BY <1>0, <1>1, StoredIs DEF Histories
<1>3. DOMAIN stored' = DOMAIN stored \cup {Len(stored')} /\ Len(stored') \notin DOMAIN stored
  BY <1>2
<1>4. key.bucket = B /\ B \in Nat /\ clock < B + Bucket /\ B <= clock
  BY <1>0, BucketBounds
<1>5. /\ DOMAIN pairs' = DOMAIN pairs \cup {key} /\ pairs'[key] = v
      /\ \A k \in DOMAIN pairs \ {key} : pairs'[k] = pairs[k]
  <2> HIDE DEF key, v
  <2> QED BY <1>1 DEF Put
<1>6. /\ IsFiniteSet(In(pairs, b)) /\ \A k \in In(pairs, b) : pairs[k] \in Nat
  BY InIs
<1>7. IsFiniteSet(Forwarded(stored, b)) /\ Forwarded(stored, b) \subseteq DOMAIN stored
  BY ForwardedIs
<1>8. Window' = Window
  BY <1>1 DEF Window
<1>9. v = IF key \in DOMAIN pairs THEN pairs[key] + 1 ELSE 1
  OBVIOUS
<1>10. B = BucketOf(clock)
  OBVIOUS
<1> HIDE DEF B, key, v
<1>11. CASE b # B
  <2>1. In(pairs', b) = In(pairs, b) /\ \A k \in In(pairs, b) : pairs'[k] = pairs[k]
    BY <1>4, <1>5, <1>11 DEF In
  <2>2. Forwarded(stored', b) = Forwarded(stored, b)
    BY <1>2, <1>3, <1>10, <1>11 DEF Forwarded
  <2>3. SumOf(pairs', In(pairs, b)) = SumOf(pairs, In(pairs, b))
    BY <1>6, <2>1, SumSame
  <2> QED BY <1>8, <2>1, <2>2, <2>3 DEF Adds
<1>12. CASE b = B
  <2>1. b \in Window
    BY <1>0, <1>4, <1>12 DEF Window, Minus
  <2>2. SumOf(pairs, In(pairs, b)) = Cardinality(Forwarded(stored, b))
    BY <2>1 DEF Adds
  <2>3. Forwarded(stored', b) = Forwarded(stored, b) \cup {Len(stored')}
    BY <1>2, <1>3, <1>10, <1>12 DEF Forwarded
  <2>4. Cardinality(Forwarded(stored', b)) = Cardinality(Forwarded(stored, b)) + 1
    BY <1>3, <1>7, <2>3, FS_AddElement
  <2>5. SumOf(pairs', In(pairs', b)) = SumOf(pairs, In(pairs, b)) + 1
    <3>1. CASE key \in DOMAIN pairs
      <4>1. In(pairs', b) = In(pairs, b) /\ key \in In(pairs, b)
        BY <1>4, <1>5, <1>12, <3>1 DEF In
      <4>2. pairs'[key] = pairs[key] + 1
        BY <1>5, <1>9, <3>1
      <4>3. \A k \in In(pairs, b) \ {key} : pairs'[k] = pairs[k]
        BY <1>5 DEF In
      <4> QED BY <1>6, <4>1, <4>2, <4>3, SumGrows
    <3>2. CASE key \notin DOMAIN pairs
      <4>1. In(pairs', b) = In(pairs, b) \cup {key} /\ key \notin In(pairs, b)
        BY <1>4, <1>5, <1>12, <3>2 DEF In
      <4>2. pairs'[key] = 1
        BY <1>5, <1>9, <3>2
      <4>3. \A k \in In(pairs, b) : pairs'[k] = pairs[k]
        BY <1>5, <3>2 DEF In
      <4>4. \A k \in In(pairs, b) \cup {key} : pairs'[k] \in Nat
        BY <1>6, <4>2, <4>3
      <4>5. SumOf(pairs', In(pairs, b) \cup {key}) = pairs'[key] + SumOf(pairs', In(pairs, b))
        BY <1>6, <4>1, <4>4, SumAdd
      <4>6. SumOf(pairs', In(pairs, b)) = SumOf(pairs, In(pairs, b))
        BY <1>6, <4>3, SumSame
      <4>7. SumOf(pairs, In(pairs, b)) \in Nat
        BY <1>6, SumType
      <4> QED BY <4>1, <4>2, <4>5, <4>6, <4>7
    <3> QED BY <3>1, <3>2
  <2> QED BY <2>2, <2>4, <2>5 DEF Adds
<1> QED BY <1>11, <1>12

\* Every bucket adds up, or is gone as a whole.
LEMMA AllAddNext == Typed /\ Typed' /\ AllAdd /\ [Next]_vars => AllAdd'
<1> SUFFICES ASSUME Typed, Typed', AllAdd, [Next]_vars,
                    NEW b \in 0..scenario'.until
             PROVE  Adds(b)'
  BY DEF AllAdd
<1>0. /\ Times /\ Histories /\ Tables(Len(stored)) /\ clock \in Nat /\ clock' \in Nat
      /\ stored \in Seq([kind : Kind, ts : Nat])
  BY ScenarioIs DEF Typed, Times, Histories
<1>1. scenario' = scenario
  BY DEF Next, Tick, RecordForward, RecordEvent, RecordProbe, BeginCollection, Snapshot,
         CollectionFails, Restart, vars
<1>2. Adds(b) /\ b \in 0..scenario.until
  BY <1>1 DEF AllAdd
<1>3. CASE Tick \/ BeginCollection \/ CollectionFails \/ Restart \/ UNCHANGED vars
  <2>1. /\ pairs' = pairs /\ stored' = stored
        /\ clock' = clock \/ clock' = clock + 1
    BY <1>3 DEF Tick, BeginCollection, CollectionFails, Restart, vars, tables
  <2>2. clock' >= clock /\ Forwarded(stored', b) = Forwarded(stored, b)
    BY <1>0, <2>1
  <2> QED BY <1>0, <1>1, <1>2, <2>1, <2>2, CountsSame
<1>4. CASE RecordForward
  BY <1>0, <1>2, <1>4, CountsForward
<1>5. ASSUME NEW binds \in BOOLEAN, RecordEvent(binds) PROVE Adds(b)'
  <2>1. Stored("event", clock) /\ pairs' = pairs /\ clock' = clock /\ "event" \in Kind
    BY <1>5 DEF RecordEvent, Kind
  <2>2. Forwarded(stored', b) = Forwarded(stored, b)
    BY <1>0, <2>1, OtherRecord
  <2>3. clock' >= clock
    BY <1>0, <2>1
  <2> QED BY <1>0, <1>1, <1>2, <2>1, <2>2, <2>3, CountsSame
<1>6. ASSUME NEW r \in Results, NEW lag \in 0..MaxLag, NEW bad \in BOOLEAN, lag <= clock,
             RecordProbe(r, clock - lag, bad)
      PROVE  Adds(b)'
  <2> DEFINE ts == clock - lag
  <2>1. /\ Stored("probe", ts) /\ clock' = clock /\ "probe" \in Kind
        /\ pairs' = Only(pairs, {k \in DOMAIN pairs : Keeps(k.bucket, ts)})
    BY <1>6 DEF RecordProbe, Prune, Kind
  <2>2. ts \in 0..clock /\ ts \in Nat
    BY <1>0, <1>6, ScenarioIs DEF Times
  <2> HIDE DEF ts
  <2>3. Forwarded(stored', b) = Forwarded(stored, b)
    BY <1>0, <2>1, <2>2, OtherRecord
  <2> QED BY <1>0, <1>1, <1>2, <2>1, <2>2, <2>3, CountsPruned
<1>7. ASSUME NEW listed \in BOOLEAN, Snapshot(listed)
      PROVE  Adds(b)'
  <2>1. /\ clock' = clock /\ "event" \in Kind /\ Attempted(TRUE)
        /\ IF Changes(listed) THEN Stored("event", collected) ELSE UNCHANGED stored
        /\ pairs' = Only(pairs, {k \in DOMAIN pairs : Keeps(k.bucket, collected)})
    BY <1>7, SnapshotIs DEF Prune, Kind
  <2>2. collected \in 0..clock /\ collected \in Nat
    BY <1>0, <2>1 DEF Attempted, Times
  <2>3. Forwarded(stored', b) = Forwarded(stored, b)
    <3>1. CASE Changes(listed) BY <1>0, <2>1, <2>2, <3>1, OtherRecord
    <3>2. CASE ~Changes(listed) BY <2>1, <3>2
    <3> QED BY <3>1, <3>2
  <2> QED BY <1>0, <1>1, <1>2, <2>1, <2>2, <2>3, CountsPruned
<1> QED BY <1>3, <1>4, <1>5, <1>6, <1>7 DEF Next

(***************************************************************************)
(* The events of the channel and its row.                                  *)
(***************************************************************************)

\* The property in these terms.
LEMMA LifecycleIs ==
  LifecycleEventsMatch <=>
    /\ Alternates(LifecycleEvents) /\ Tells(LifecycleEvents, channel.disappeared_at)
    /\ channel.disappeared_at \in Window
         => Dated(LifecycleEvents, channel.disappeared_at)
BY DEF LifecycleEventsMatch, Alternates, Tells, Dated

\* A row of a log.
LogRow == [n : Nat, ts : Nat, kind : {"disappeared", "reappeared"}]

\* The events of the channel are such rows.
LEMMA LogRows ==
  ASSUME Typed
  PROVE  /\ LifecycleEvents \subseteq LogRow
         /\ \A e \in LifecycleEvents : e.n \in 1..Len(stored)
         /\ Len(stored) \in Nat
BY ScenarioIs DEF Typed, Tables, Times, Histories, EventsTo, LifecycleEvents, LogRow

\* Pruning cuts a rising log off at its beginning: what follows a row stays with it.
LEMMA LogPruned ==
  ASSUME NEW log \in SUBSET LogRow, NEW at, NEW c \in Nat, Rising(log),
         Alternates(log), Tells(log, at)
  PROVE  LET kept == {e \in log : e.ts >= c}
         IN  Rising(kept) /\ Alternates(kept) /\ Tells(kept, at)
<1> DEFINE kept == {e \in log : e.ts >= c}
<1>1. \A e \in kept, g \in log : g.n > e.n => g \in kept
  BY DEF Rising, LogRow
<1>2. kept \subseteq log
  OBVIOUS
<1> HIDE DEF kept
<1>3. Rising(kept)
  BY <1>2 DEF Rising
<1>4. Alternates(kept)
  BY <1>1, <1>2 DEF Alternates
<1>5. Tells(kept, at)
  BY <1>1, <1>2 DEF Tells
<1> QED BY <1>3, <1>4, <1>5 DEF kept

\* A log goes on with what its newest row does not say yet.
LEMMA LogAdded ==
  ASSUME NEW log \in SUBSET LogRow, NEW at, NEW x \in LogRow, Rising(log),
         Alternates(log), Tells(log, at), None \notin Nat,
         \A e \in log : e.n < x.n /\ e.ts <= x.ts,
         x.kind = "disappeared" <=> at = None
  PROVE  LET more == log \cup {x}
         IN  /\ Rising(more) /\ Alternates(more)
             /\ Tells(more, IF x.kind = "disappeared" THEN x.ts ELSE None)
<1> DEFINE more == log \cup {x}
<1>1. \A e \in log : e.n \in Nat /\ e.ts \in Nat /\ e.kind \in {"disappeared", "reappeared"}
  BY DEF LogRow
<1>2. x.n \in Nat /\ x.ts \in Nat /\ x.kind \in {"disappeared", "reappeared"}
  BY DEF LogRow
<1>3. Rising(more)
  BY <1>1, <1>2 DEF Rising
<1>4. Tells(more, IF x.kind = "disappeared" THEN x.ts ELSE None)
  BY <1>1, <1>2 DEF Tells
<1>5. Alternates(more)
  <2> SUFFICES ASSUME NEW e \in more, NEW f \in more, f.n > e.n,
                      \A g \in more : g.n > e.n => f.n <= g.n
               PROVE  f.kind # e.kind
    BY DEF Alternates
  <2>1. e \in log
    BY <1>1, <1>2
  <2>2. CASE f \in log
    BY <2>1, <2>2 DEF Alternates
  <2>3. CASE f = x
    <3>1. ~(\E g \in log : g.n > e.n)
      BY <1>1, <1>2, <2>3
    <3>2. at = IF e.kind = "disappeared" THEN e.ts ELSE None
      BY <2>1, <3>1 DEF Tells
    <3> QED BY <1>1, <1>2, <2>1, <2>3, <3>2
  <2> QED BY <2>2, <2>3
<1> QED BY <1>3, <1>4, <1>5

\* What a snapshot makes of the row, and when.
LEMMA RowIs ==
  ASSUME Times, NEW listed \in BOOLEAN, Snapshot(listed)
  PROVE  LET at     == channel.disappeared_at
             change == Lifecycle(listed)
         IN  /\ change = "disappeared" => at = None /\ channel'.disappeared_at = collected
             /\ change = "reappeared" => at # None /\ channel'.disappeared_at = None
             /\ change = "unchanged" => channel'.disappeared_at = at
<1>1. channel' = ChannelRow(listed, collected)
  BY SnapshotIs
<1> QED BY <1>1 DEF Lifecycle, ChannelRow, Times

\* A step that keeps the channel's events, but for those a prune takes, keeps all.
LEMMA LifecycleKeptBy ==
  ASSUME Typed, LifecycleKept, scenario' = scenario, clock' \in Nat, clock' >= clock,
         channel'.disappeared_at = channel.disappeared_at,
         DOMAIN attempts \subseteq DOMAIN attempts',
         NEW ts \in 0..clock,
         \/ LifecycleEvents' = LifecycleEvents
         \/ LifecycleEvents' = {e \in LifecycleEvents : Keeps(e.ts, ts)}
  PROVE  LifecycleKept'
<1> DEFINE log == LifecycleEvents
           at  == channel.disappeared_at
<1>1. /\ log \in SUBSET LogRow /\ Rising(log) /\ Alternates(log) /\ Tells(log, at)
      /\ at \in Window => Dated(log, at)
      /\ \A e \in log : e.ts \in DOMAIN attempts
  BY LogRows, LifecycleIs DEF LifecycleKept
<1>2. Times /\ clock \in Nat /\ Cutoff(ts) \in Nat
  BY ScenarioIs, CutoffBelow DEF Typed, Times
<1>3. Rising(log') /\ Alternates(log') /\ Tells(log', at)
  <2>1. LET kept == {e \in log : e.ts >= Cutoff(ts)}
        IN  Rising(kept) /\ Alternates(kept) /\ Tells(kept, at)
    <3> HIDE DEF log, at
    <3> QED BY <1>1, <1>2, LogPruned
  <2> QED BY <1>1, <2>1 DEF Keeps
<1>4. at \in Window' => Dated(log', at)
  <2> SUFFICES ASSUME at \in Window' PROVE Dated(log', at)
    OBVIOUS
  <2>1. at \in Window /\ at >= Cutoff(ts)
    BY <1>2, WindowMoves
  <2> QED BY <1>1, <2>1 DEF Dated, Keeps
<1>5. \A e \in log' : e.ts \in DOMAIN attempts'
  BY <1>1
<1>6. LifecycleEventsMatch'
  BY <1>3, <1>4 DEF LifecycleEventsMatch, Alternates, Tells, Dated
<1> QED BY <1>3, <1>5, <1>6 DEF LifecycleKept

\* Before the first collection there is no event of the channel and no row.
LEMMA LifecycleInit == Init => LifecycleKept
<1> SUFFICES ASSUME Init PROVE LifecycleKept
  OBVIOUS
<1>1. LifecycleEvents = {} /\ channel.disappeared_at = None
  BY DEF Init, LifecycleEvents
<1>2. None \notin Window
  BY ScenarioIs DEF Init, Window
<1> QED BY <1>1, <1>2 DEF LifecycleKept, LifecycleEventsMatch, Rising

\* A snapshot stores an event when the row changes, and prunes in the same step.
LEMMA LifecycleSnapshot ==
  ASSUME Typed, Typed', LifecycleKept, NEW listed \in BOOLEAN, Snapshot(listed)
  PROVE  LifecycleKept'
<1> DEFINE log == LifecycleEvents
           at  == channel.disappeared_at
           x   == Change(listed)
<1>0. /\ Times /\ Times' /\ Histories /\ clock \in Nat /\ clock' \in Nat /\ None \notin Nat
      /\ collected # None /\ collected \in 0..clock /\ collected \in Nat
  <2>1. Times /\ Times' /\ Histories /\ None \notin Nat
    BY ScenarioIs DEF Typed, Times
  <2>2. clock \in Nat /\ clock' \in Nat
    BY <2>1, ScenarioIs DEF Times
  <2>3. collected # None
    BY SnapshotIs DEF Attempted
  <2>4. collected \in 0..clock
    BY <2>1, <2>3 DEF Times
  <2> QED BY <2>1, <2>2, <2>3, <2>4
<1>1. /\ scenario' = scenario /\ clock' = clock
      /\ DOMAIN attempts' = DOMAIN attempts \cup {collected}
      /\ \A t \in DOMAIN attempts : t <= collected
  BY <1>0, SnapshotIs, AttemptedIs
<1>2. CASE ~Changes(listed)
  <2>1. events' = {e \in events : Keeps(e.ts, collected)}
    BY <1>2, SnapshotIs DEF Prune
  <2>2. LifecycleEvents' = {e \in LifecycleEvents : Keeps(e.ts, collected)}
    BY <2>1 DEF LifecycleEvents
  <2>3. channel'.disappeared_at = channel.disappeared_at
    BY <1>0, <1>2, RowIs DEF Changes
  <2> QED BY <1>0, <1>1, <2>2, <2>3, LifecycleKeptBy
<1>3. CASE Changes(listed)
  <2>1. /\ Stored("event", collected)
        /\ events' = {e \in events \cup {x} : Keeps(e.ts, collected)}
        /\ x.n = Len(stored') /\ x.ts = collected /\ x.kind \in {"disappeared", "reappeared"}
        /\ x.kind = Lifecycle(listed)
    BY <1>3, SnapshotIs DEF Prune, Changes
  <2>2. Len(stored') = Len(stored) + 1 /\ Len(stored) \in Nat
    BY <1>0, <2>1, StoredIs DEF Kind, Histories
  <2>3. x \in LogRow
    BY <1>0, <2>1, <2>2 DEF LogRow, Change, EventRow
  <2>4. /\ log \in SUBSET LogRow /\ Rising(log) /\ Alternates(log) /\ Tells(log, at)
        /\ \A e \in log : e.ts \in DOMAIN attempts /\ e.n \in 1..Len(stored)
    BY LogRows, LifecycleIs DEF LifecycleKept
  <2>5. \A e \in log : e.n < x.n /\ e.ts <= x.ts
    BY <1>1, <2>1, <2>2, <2>4
  <2> DEFINE more == log \cup {x}
             now  == channel'.disappeared_at
  <2>6. /\ x.kind = "disappeared" <=> at = None
        /\ now = IF x.kind = "disappeared" THEN x.ts ELSE None
    BY <1>0, <2>1, RowIs
  <2>7. LifecycleEvents' = {e \in more : e.ts >= Cutoff(collected)}
    BY <2>1 DEF LifecycleEvents, Keeps
  <2>8. Cutoff(collected) \in Nat /\ Cutoff(collected) <= collected
    BY <1>0, CutoffBelow
  <2>9. x \in LifecycleEvents'
    BY <2>1, <2>7, <2>8
  <2>10. \A e \in LifecycleEvents' : e.ts \in DOMAIN attempts'
    BY <1>1, <2>1, <2>4, <2>7
  <2> HIDE DEF x, log, at, now
  <2>11. Rising(more) /\ Alternates(more) /\ Tells(more, now)
    BY <1>0, <2>3, <2>4, <2>5, <2>6, LogAdded
  <2>12. more \in SUBSET LogRow
    BY <2>3, <2>4
  <2> HIDE DEF more
  <2>13. /\ Rising(LifecycleEvents') /\ Alternates(LifecycleEvents')
         /\ Tells(LifecycleEvents', now)
    BY <2>7, <2>8, <2>11, <2>12, LogPruned
  <2>14. now \in Window' => Dated(LifecycleEvents', now)
    <3>1. now \in Window' => now \in Nat
      BY ScenarioIs DEF Window
    <3> QED BY <1>0, <2>6, <2>9, <3>1 DEF Dated
  <2>15. LifecycleEventsMatch'
    BY <2>13, <2>14 DEF LifecycleEventsMatch, Alternates, Tells, Dated, now
  <2> QED BY <2>10, <2>13, <2>15 DEF LifecycleKept
<1> QED BY <1>2, <1>3

\* Every step keeps the events of the channel in agreement with its row.
LEMMA LifecycleNext == Typed /\ Typed' /\ LifecycleKept /\ [Next]_vars => LifecycleKept'
<1> SUFFICES ASSUME Typed, Typed', LifecycleKept, [Next]_vars PROVE LifecycleKept'
  OBVIOUS
<1>0. Times /\ Times' /\ clock \in Nat /\ clock' \in Nat /\ clock \in 0..clock
  BY ScenarioIs DEF Typed, Times
<1>1. CASE \/ Tick \/ RecordForward \/ BeginCollection \/ CollectionFails \/ Restart
           \/ UNCHANGED vars
  <2>1. /\ scenario' = scenario /\ events' = events /\ channel' = channel
        /\ clock' = clock \/ clock' = clock + 1
    BY <1>1 DEF Tick, RecordForward, BeginCollection, CollectionFails, Restart, vars, tables
  <2>2. DOMAIN attempts \subseteq DOMAIN attempts'
    BY <1>1 DEF Tick, RecordForward, BeginCollection, CollectionFails, Restart, vars,
                Attempted, Put
  <2>3. clock' >= clock /\ LifecycleEvents' = LifecycleEvents
    BY <1>0, <2>1 DEF LifecycleEvents
  <2> QED BY <1>0, <2>1, <2>2, <2>3, LifecycleKeptBy
<1>2. ASSUME NEW binds \in BOOLEAN, RecordEvent(binds) PROVE LifecycleKept'
  <2>1. /\ scenario' = scenario /\ clock' = clock /\ channel' = channel
        /\ attempts' = attempts /\ events' = events \cup {EventRow("notice", clock)}
    BY <1>2 DEF RecordEvent
  <2>2. LifecycleEvents' = LifecycleEvents
    BY <2>1 DEF LifecycleEvents, EventRow
  <2> QED BY <1>0, <2>1, <2>2, LifecycleKeptBy
<1>3. ASSUME NEW r \in Results, NEW lag \in 0..MaxLag, NEW bad \in BOOLEAN, lag <= clock,
             RecordProbe(r, clock - lag, bad)
      PROVE  LifecycleKept'
  <2> DEFINE ts == clock - lag
  <2>1. /\ scenario' = scenario /\ clock' = clock /\ channel' = channel
        /\ attempts' = attempts /\ events' = {e \in events : Keeps(e.ts, ts)}
    BY <1>3 DEF RecordProbe, Prune
  <2>2. ts \in 0..clock
    BY <1>0, <1>3, ScenarioIs DEF Times
  <2> HIDE DEF ts
  <2>3. LifecycleEvents' = {e \in LifecycleEvents : Keeps(e.ts, ts)}
    BY <2>1 DEF LifecycleEvents
  <2> QED BY <1>0, <2>1, <2>2, <2>3, LifecycleKeptBy
<1>4. ASSUME NEW listed \in BOOLEAN, Snapshot(listed) PROVE LifecycleKept'
  BY <1>4, LifecycleSnapshot
<1> QED BY <1>1, <1>2, <1>3, <1>4 DEF Next

(***************************************************************************)
(* The invariant, and the properties of the run.                           *)
(***************************************************************************)

\* Before the first collection nothing is recorded.
LEMMA InvariantInit == Init => IInv
<1> SUFFICES ASSUME Init PROVE IInv
  OBVIOUS
<1>1. TypeOK /\ Recorded
  BY TypesInit, TypesAre
<1>2. Paced
  BY DEF Init, Paced
<1>3. WindowKept /\ AgedOut
  <2>1. DOMAIN stored = {} /\ DOMAIN attempts = {}
    BY DEF Init, Empty
  <2>2. WindowKept
    BY <2>1 DEF WindowKept
  <2>3. Successes = {}
    BY <2>1 DEF Successes
  <2> QED BY <2>2, <2>3, AgedOutIs
<1>4. RunsKept
  BY DEF Init, RunsKept
<1>5. ProbesWhole /\ ProbesApart
  BY DEF Init, ProbesWhole, ProbesApart
<1>6. AllCounted
  <2> SUFFICES ASSUME NEW b \in 0..scenario.until PROVE Adds(b)
    BY AllCountedAre DEF AllAdd
  <2>1. In(pairs, b) = {} /\ Forwarded(stored, b) = {}
    BY DEF Init, Empty, In, Forwarded
  <2> QED BY <2>1, SumEmpty, FS_EmptySet DEF Adds
<1> QED BY <1>1, <1>2, <1>3, <1>4, <1>5, <1>6, LifecycleInit DEF IInv

\* The invariant with the types and the sums as the lemmas state them.
LEMMA InvariantIs ==
  IInv <=> /\ Typed /\ Paced /\ WindowKept /\ AgedOut /\ RunsKept /\ AllAdd
           /\ ProbesWhole /\ ProbesApart /\ LifecycleKept
BY TypesAre, AllCountedAre DEF IInv, Typed

\* The invariant that all properties of the module rest on: what is stored and
\* not pruned, as the run's properties say it, with the pace of the collections and
\* the sums of the buckets that have not begun.
THEOREM InductiveInvariant == Spec => []IInv
<1> DEFINE I == /\ Typed /\ Paced /\ WindowKept /\ AgedOut /\ RunsKept /\ AllAdd
                /\ ProbesWhole /\ ProbesApart /\ LifecycleKept
<1>1. I /\ [Next]_vars => I'
  <2> SUFFICES ASSUME I, [Next]_vars PROVE I'
    OBVIOUS
  <2>1. Typed'
    BY TypesNext
  <2> QED BY <2>1, PacedNext, WindowKeptNext, AgedOutNext, RunsKeptNext, AllAddNext,
             ProbesWholeNext, ProbesApartNext, LifecycleNext
<1>2. Init => I
  BY InvariantInit, InvariantIs
<1> HIDE DEF I
<1>3. I => IInv
  BY InvariantIs DEF I
<1> QED BY <1>1, <1>2, <1>3, PTL DEF Spec

\* Nothing that was stored is lost within retention_seconds, and nothing stays
\* beyond it once a snapshot was stored: record_probe_result and
\* record_channel_snapshot prune by times of their own, and a failure prunes nothing.
THEOREM RetentionIsExact == Spec => []RetentionExact
<1>1. IInv => RetentionExact
  BY DEF IInv, RetentionExact
<1> QED BY <1>1, InductiveInvariant, PTL

\* The stored disappearances and returns of a channel tell whether and since when it
\* is gone, for any retention, any failures and any pruning between them: what
\* record_sample and record_disappearances store is never contradicted by what prune
\* takes from it.
THEOREM EventsTellTheStory == Spec => []LifecycleEventsMatch
<1>1. IInv => LifecycleEventsMatch
  BY DEF IInv, LifecycleKept
<1> QED BY <1>1, InductiveInvariant, PTL

\* The two names of a bucket of record_forward_event together count each of its
\* forwards, or the bucket has left the window as a whole.
THEOREM ForwardsAddUp == Spec => []BucketsWholeOrGone
<1>1. IInv => BucketsWholeOrGone
  <2> SUFFICES ASSUME IInv, NEW t \in 0..clock PROVE Counts(BucketOf(t))
    BY DEF BucketsWholeOrGone, Counts
  <2>1. clock \in 0..scenario.until /\ scenario.until \in Nat
    BY ScenarioIs DEF IInv, TypeOK, Recorded
  <2>2. BucketOf(t) \in 0..scenario.until
    BY <2>1, BucketBounds
  <2> QED BY <2>2 DEF IInv, AllCounted
<1> QED BY <1>1, InductiveInvariant, PTL

\* A probe is stored with all of its hops, and pruning it takes all of them.
THEOREM ProbesKeepTheirHops == Spec => []ProbesWhole
<1>1. IInv => ProbesWhole
  BY DEF IInv
<1> QED BY <1>1, InductiveInvariant, PTL

\* status() and metrics() report the last collection and the age of the last
\* success as they were, within the window.
THEOREM HealthIsHonest == Spec => []HealthHonest
<1>1. IInv => HealthHonest
  BY InvariantIs, RunsAreHonest
<1> QED BY <1>1, InductiveInvariant, PTL

\* The collections of a process follow each other within an interval or a timeout,
\* and never in the same second: MissedTickBehavior::Skip does not burst.
THEOREM CollectionsArePaced == Spec => PollsPaced
<1> DEFINE Begins == collected = None /\ collected' # None /\ begun # None
           Gap    == clock - begun \in 1..Max({Interval, Timeout})
<1>1. IInv /\ [Next]_vars => [Begins => Gap]_vars
  <2> SUFFICES ASSUME IInv, Next, Begins PROVE Gap
    OBVIOUS
  <2>1. Typed /\ Paced
    BY InvariantIs
  <2>2. BeginCollection
    BY DEF Next, Tick, RecordForward, RecordEvent, RecordProbe, Snapshot, CollectionFails,
           Attempted, Restart, collector
  <2> QED BY <2>1, <2>2, BeginPaced
<1>2. Spec => [][Begins => Gap]_vars
  <2> HIDE DEF Begins, Gap
  <2> QED BY <1>1, InductiveInvariant, PTL DEF Spec
<1> QED BY <1>2 DEF PollsPaced

(***************************************************************************)
(* The bounds of the probes.                                               *)
(***************************************************************************)

\* The rows of probe_events, whatever the scenario.
Row == [n : Nat, ts : Nat, status : Status, amount : Nat, route : Nat]

\* What may be absent.
Maybe == Nat \cup {None}

\* The probes of one status, and their amounts.
OfStatus(all, s) == {p \in all : p.status = s}
Amounts(all, s)  == {p.amount : p \in OfStatus(all, s)}
TimesOf(all)     == {p.ts : p \in all}

\* The smallest of some amounts.
Lowest(S) == IF S = {} THEN None ELSE Min(S)

\* BoundsOf, with the time of the last of the probes left open.
BoundsUpTo(all, last) ==
  [attempts |-> Cardinality(all),
   reached  |-> Cardinality(OfStatus(all, "destination_reached")),
   failed   |-> Cardinality(OfStatus(all, "route_failed")),
   settled  |-> Cardinality(OfStatus(all, "unexpected_settlement")),
   max_success |-> Newest(Amounts(all, "destination_reached")),
   smallest_failed |-> Lowest(Amounts(all, "route_failed")),
   last_success |-> Newest(TimesOf(OfStatus(all, "destination_reached"))),
   last_observed |-> last]

\* The definition, in these terms.
LEMMA BoundsAre ==
  ASSUME NEW all
  PROVE  BoundsOf(all) = BoundsUpTo(all, Max(TimesOf(all)))
BY DEF BoundsOf, BoundsUpTo, OfStatus, Amounts, TimesOf, Lowest

\* The largest of finitely many numbers and one more.
LEMMA MaxAdd ==
  ASSUME NEW S \in SUBSET Nat, IsFiniteSet(S), S # {}, NEW x \in Nat
  PROVE  Max(S \cup {x}) = IF x > Max(S) THEN x ELSE Max(S)
<1>1. S \cup {x} \in SUBSET Nat /\ IsFiniteSet(S \cup {x}) /\ S \cup {x} # {}
  BY FS_AddElement
<1> DEFINE T == S \cup {x}
           m == Max(S)
           k == Max(T)
<1>2. m \in S /\ (\A y \in S : y <= m) /\ m \in Nat
  BY LargestOf
<1>3. k \in T /\ (\A y \in T : y <= k) /\ k \in Nat
  <2>1. T \in SUBSET Nat /\ IsFiniteSet(T) /\ T # {}
    BY <1>1
  <2> HIDE DEF T
  <2> QED BY <2>1, LargestOf
<1>4. k \in S \/ k = x
  BY <1>3
<1>5. m <= k /\ x <= k
  BY <1>2, <1>3
<1> HIDE DEF m, k, T
<1>6. k = IF x > m THEN x ELSE m
  BY <1>2, <1>3, <1>4, <1>5
<1> QED BY <1>6 DEF m, k, T

\* Taking up one more time or amount, as the code does, gives the newest of all.
LEMMA NewestAdd ==
  ASSUME NEW S \in SUBSET Nat, IsFiniteSet(S), NEW x \in Nat
  PROVE  /\ Newest(S) \in Maybe
         /\ AtLeast(Newest(S), x) = Newest(S \cup {x})
<1>1. None \notin Nat
  BY ConstantsAssumption
<1>2. CASE S = {}
  <2>1. Max({x}) = x
    BY DEF Max
  <2> QED BY <1>2, <2>1 DEF Newest, AtLeast, Maybe
<1>3. CASE S # {}
  <2>1. Newest(S) = Max(S) /\ Newest(S \cup {x}) = Max(S \cup {x})
    BY <1>3 DEF Newest
  <2>2. Max(S) \in Nat /\ Max(S) # None
    BY <1>1, <1>3, LargestOf
  <2>3. Max(S \cup {x}) = IF x > Max(S) THEN x ELSE Max(S)
    BY <1>3, MaxAdd
  <2> QED BY <2>1, <2>2, <2>3 DEF AtLeast, Maybe
<1> QED BY <1>2, <1>3

\* Of finitely many numbers the smallest is one.
LEMMA SmallestOf ==
  ASSUME NEW S \in SUBSET Nat, S # {}
  PROVE  Min(S) \in S /\ \A x \in S : Min(S) <= x
<1>1. \E k \in S : \A j \in S : k <= j
  BY Least
<1> QED BY <1>1 DEF Min

\* And the same for the smallest.
LEMMA LowestAdd ==
  ASSUME NEW S \in SUBSET Nat, NEW x \in Nat
  PROVE  /\ Lowest(S) \in Maybe
         /\ AtMost(Lowest(S), x) = Lowest(S \cup {x})
<1>1. None \notin Nat
  BY ConstantsAssumption
<1> DEFINE T == S \cup {x}
           k == Min(T)
<1>2. T \in SUBSET Nat /\ T # {}
  OBVIOUS
<1>3. k \in T /\ (\A y \in T : k <= y) /\ k \in Nat
  <2> HIDE DEF T
  <2> QED BY <1>2, SmallestOf
<1>4. Lowest(T) = k
  BY DEF Lowest
<1>5. CASE S = {}
  <2>1. k = x
    BY <1>3, <1>5
  <2> QED BY <1>4, <1>5, <2>1 DEF Lowest, AtMost, Maybe
<1>6. CASE S # {}
  <2> DEFINE m == Min(S)
  <2>1. m \in S /\ (\A y \in S : m <= y) /\ m \in Nat /\ m # None
    BY <1>1, <1>6, SmallestOf
  <2>2. Lowest(S) = m
    BY <1>6 DEF Lowest
  <2>3. (k \in S \/ k = x) /\ k <= m /\ k <= x
    BY <1>3, <2>1
  <2> HIDE DEF m, k, T
  <2>4. k = IF x < m THEN x ELSE m
    BY <1>3, <2>1, <2>3
  <2>5. AtMost(m, x) = k /\ m \in Maybe
    BY <2>1, <2>4 DEF AtMost, Maybe
  <2> QED BY <1>4, <2>2, <2>5 DEF T
<1> QED BY <1>5, <1>6

\* How many probes of a status, which amounts and which times there are with p.
WithOne(all, p, s) ==
  /\ Cardinality(OfStatus(all \cup {p}, s)) =
       Cardinality(OfStatus(all, s)) + IF p.status = s THEN 1 ELSE 0
  /\ Amounts(all \cup {p}, s) =
       Amounts(all, s) \cup IF p.status = s THEN {p.amount} ELSE {}
  /\ TimesOf(OfStatus(all \cup {p}, s)) =
       TimesOf(OfStatus(all, s)) \cup IF p.status = s THEN {p.ts} ELSE {}

\* The probes of a status, with one more.
LEMMA OfStatusAdd ==
  ASSUME NEW all \in SUBSET Row, IsFiniteSet(all), NEW p \in Row, p \notin all, NEW s
  PROVE  /\ Cardinality(OfStatus(all, s)) \in Nat
         /\ Amounts(all, s) \in SUBSET Nat /\ IsFiniteSet(Amounts(all, s))
         /\ TimesOf(OfStatus(all, s)) \in SUBSET Nat /\ IsFiniteSet(TimesOf(OfStatus(all, s)))
         /\ WithOne(all, p, s)
<1> DEFINE A == OfStatus(all, s)
<1>1. A \subseteq all /\ A \in SUBSET Row /\ p \notin A
  BY DEF OfStatus
<1>2. IsFiniteSet(A) /\ Cardinality(A) \in Nat
  <2> HIDE DEF A
  <2> QED BY <1>1, FS_Subset, FS_CardinalityType
<1>3. OfStatus(all \cup {p}, s) = A \cup IF p.status = s THEN {p} ELSE {}
  BY DEF OfStatus
<1>4. Cardinality(A \cup {p}) = Cardinality(A) + 1
  <2> HIDE DEF A
  <2> QED BY <1>1, <1>2, FS_AddElement
<1>5. Cardinality(OfStatus(all \cup {p}, s)) =
        Cardinality(A) + IF p.status = s THEN 1 ELSE 0
  <2> DEFINE B == OfStatus(all \cup {p}, s)
  <2>1. ASSUME p.status = s PROVE Cardinality(B) = Cardinality(A) + 1
    <3>1. B = A \cup {p}
      BY <1>3, <2>1
    <3> QED BY <1>4, <3>1
  <2>2. ASSUME p.status # s PROVE Cardinality(B) = Cardinality(A)
    <3>1. B = A
      BY <1>3, <2>2
    <3> QED BY <3>1
  <2> HIDE DEF A, B
  <2>3. Cardinality(B) = Cardinality(A) + IF p.status = s THEN 1 ELSE 0
    BY <1>2, <2>1, <2>2
  <2> QED BY <2>3 DEF A, B
<1>6. /\ Amounts(all, s) = {q.amount : q \in A}
      /\ Amounts(all \cup {p}, s) = {q.amount : q \in OfStatus(all \cup {p}, s)}
      /\ TimesOf(A) = {q.ts : q \in A}
      /\ TimesOf(OfStatus(all \cup {p}, s)) = {q.ts : q \in OfStatus(all \cup {p}, s)}
  BY DEF Amounts, TimesOf
<1> HIDE DEF A
<1>7. IsFiniteSet({q.amount : q \in A}) /\ IsFiniteSet({q.ts : q \in A})
  <2>1. IsFiniteSet({q.amount : q \in A})
    <3> DEFINE f == [q \in A |-> q.amount]
               B == {q.amount : q \in A}
    <3>1. f \in Surjection(A, B)
      BY DEF Surjection
    <3> HIDE DEF f, B
    <3> QED BY <1>2, <3>1, FS_Surjection DEF B
  <2>2. IsFiniteSet({q.ts : q \in A})
    <3> DEFINE f == [q \in A |-> q.ts]
               B == {q.ts : q \in A}
    <3>1. f \in Surjection(A, B)
      BY DEF Surjection
    <3> HIDE DEF f, B
    <3> QED BY <1>2, <3>1, FS_Surjection DEF B
  <2> QED BY <2>1, <2>2
<1>8. \A q \in A : q.amount \in Nat /\ q.ts \in Nat
  BY <1>1 DEF Row
<1>9. /\ Amounts(all, s) \in SUBSET Nat
      /\ Amounts(all \cup {p}, s) =
           Amounts(all, s) \cup IF p.status = s THEN {p.amount} ELSE {}
  BY <1>3, <1>6, <1>8
<1>10. /\ TimesOf(A) \in SUBSET Nat
       /\ TimesOf(OfStatus(all \cup {p}, s)) =
            TimesOf(A) \cup IF p.status = s THEN {p.ts} ELSE {}
  BY <1>3, <1>6, <1>8
<1> QED BY <1>2, <1>5, <1>6, <1>7, <1>9, <1>10 DEF A, WithOne

\* Taking up one more probe, as aggregate_probe_events does, gives what there is to
\* say of all of them.
LEMMA BoundsAdd ==
  ASSUME NEW all \in SUBSET Row, IsFiniteSet(all), NEW p \in Row, p \notin all,
         NEW last \in Nat
  PROVE  WithProbe(BoundsUpTo(all, last), p) =
           BoundsUpTo(all \cup {p}, AtLeast(last, p.ts))
<1> DEFINE more == all \cup {p}
           ok   == "destination_reached"
           bad  == "route_failed"
           paid == "unexpected_settlement"
           a    == BoundsUpTo(all, last)
           b    == [a EXCEPT !.attempts = @ + 1, !.last_observed = AtLeast(@, p.ts)]
<1>1. Cardinality(more) = Cardinality(all) + 1 /\ Cardinality(all) \in Nat
  BY FS_AddElement, FS_CardinalityType
<1>2. p.status \in {ok, bad, paid} /\ p.amount \in Nat /\ p.ts \in Nat
  BY DEF Row, Status
<1>3. \A s : /\ Cardinality(OfStatus(all, s)) \in Nat
             /\ Cardinality(OfStatus(more, s)) =
                  Cardinality(OfStatus(all, s)) + IF p.status = s THEN 1 ELSE 0
             /\ Newest(Amounts(more, s)) =
                  IF p.status = s THEN AtLeast(Newest(Amounts(all, s)), p.amount)
                  ELSE Newest(Amounts(all, s))
             /\ Lowest(Amounts(more, s)) =
                  IF p.status = s THEN AtMost(Lowest(Amounts(all, s)), p.amount)
                  ELSE Lowest(Amounts(all, s))
             /\ Newest(TimesOf(OfStatus(more, s))) =
                  IF p.status = s THEN AtLeast(Newest(TimesOf(OfStatus(all, s))), p.ts)
                  ELSE Newest(TimesOf(OfStatus(all, s)))
  <2> TAKE s
  <2> DEFINE M == Amounts(all, s)
             N == Amounts(more, s)
             T == TimesOf(OfStatus(all, s))
             U == TimesOf(OfStatus(more, s))
  <2>1. /\ Cardinality(OfStatus(all, s)) \in Nat
        /\ Cardinality(OfStatus(more, s)) =
             Cardinality(OfStatus(all, s)) + IF p.status = s THEN 1 ELSE 0
        /\ M \in SUBSET Nat /\ IsFiniteSet(M)
        /\ N = M \cup IF p.status = s THEN {p.amount} ELSE {}
        /\ T \in SUBSET Nat /\ IsFiniteSet(T)
        /\ U = T \cup IF p.status = s THEN {p.ts} ELSE {}
    <3>1. WithOne(all, p, s)
      BY OfStatusAdd
    <3>2. /\ Cardinality(OfStatus(all, s)) \in Nat
          /\ M \in SUBSET Nat /\ IsFiniteSet(M) /\ T \in SUBSET Nat /\ IsFiniteSet(T)
      BY OfStatusAdd
    <3> QED BY <3>1, <3>2 DEF WithOne
  <2> HIDE DEF M, N, T, U
  <2>2. /\ AtLeast(Newest(M), p.amount) = Newest(M \cup {p.amount})
        /\ AtMost(Lowest(M), p.amount) = Lowest(M \cup {p.amount})
        /\ AtLeast(Newest(T), p.ts) = Newest(T \cup {p.ts})
    BY <1>2, <2>1, NewestAdd, LowestAdd
  <2>3. M \cup {} = M /\ T \cup {} = T
    OBVIOUS
  <2>4. /\ Newest(N) = IF p.status = s THEN AtLeast(Newest(M), p.amount) ELSE Newest(M)
        /\ Lowest(N) = IF p.status = s THEN AtMost(Lowest(M), p.amount) ELSE Lowest(M)
        /\ Newest(U) = IF p.status = s THEN AtLeast(Newest(T), p.ts) ELSE Newest(T)
    BY <2>1, <2>2, <2>3
  <2> QED BY <2>1, <2>4 DEF M, N, T, U
<1> DEFINE R(att, re, fa, se, ms, sf, ls, lo) ==
             [attempts |-> att, reached |-> re, failed |-> fa, settled |-> se,
              max_success |-> ms, smallest_failed |-> sf, last_success |-> ls,
              last_observed |-> lo]
           re == Cardinality(OfStatus(all, ok))
           fa == Cardinality(OfStatus(all, bad))
           se == Cardinality(OfStatus(all, paid))
           ms == Newest(Amounts(all, ok))
           sf == Lowest(Amounts(all, bad))
           ls == Newest(TimesOf(OfStatus(all, ok)))
           lo == AtLeast(last, p.ts)
           n  == Cardinality(all)
<1>4. a = R(n, re, fa, se, ms, sf, ls, last)
  BY DEF BoundsUpTo
<1>5. /\ p.status = ok => BoundsUpTo(more, lo) =
           R(n + 1, re + 1, fa, se, AtLeast(ms, p.amount), sf, AtLeast(ls, p.ts), lo)
      /\ p.status = paid => BoundsUpTo(more, lo) = R(n + 1, re, fa, se + 1, ms, sf, ls, lo)
      /\ p.status = bad => BoundsUpTo(more, lo) =
           R(n + 1, re, fa + 1, se, ms, AtMost(sf, p.amount), ls, lo)
  <2> DEFINE re2 == Cardinality(OfStatus(more, ok))
             fa2 == Cardinality(OfStatus(more, bad))
             se2 == Cardinality(OfStatus(more, paid))
             ms2 == Newest(Amounts(more, ok))
             sf2 == Lowest(Amounts(more, bad))
             ls2 == Newest(TimesOf(OfStatus(more, ok)))
  <2>1. BoundsUpTo(more, lo) = R(Cardinality(more), re2, fa2, se2, ms2, sf2, ls2, lo)
    BY DEF BoundsUpTo
  <2>2. /\ re \in Nat /\ fa \in Nat /\ se \in Nat
        /\ re2 = re + IF p.status = ok THEN 1 ELSE 0
        /\ fa2 = fa + IF p.status = bad THEN 1 ELSE 0
        /\ se2 = se + IF p.status = paid THEN 1 ELSE 0
        /\ ms2 = IF p.status = ok THEN AtLeast(ms, p.amount) ELSE ms
        /\ sf2 = IF p.status = bad THEN AtMost(sf, p.amount) ELSE sf
        /\ ls2 = IF p.status = ok THEN AtLeast(ls, p.ts) ELSE ls
    <3> HIDE DEF more
    <3> QED BY <1>3
  <2> HIDE DEF re, fa, se, ms, sf, ls, re2, fa2, se2, ms2, sf2, ls2, lo, more
  <2> QED BY <1>1, <2>1, <2>2
<1> DEFINE c == R(n, re, fa, se, ms, sf, ls, last)
           d == R(n + 1, re, fa, se, ms, sf, ls, lo)
<1>6. /\ p.status = ok => WithProbe(c, p) =
           R(n + 1, re + 1, fa, se, AtLeast(ms, p.amount), sf, AtLeast(ls, p.ts), lo)
      /\ p.status = paid => WithProbe(c, p) = R(n + 1, re, fa, se + 1, ms, sf, ls, lo)
      /\ p.status = bad => WithProbe(c, p) =
           R(n + 1, re, fa + 1, se, ms, AtMost(sf, p.amount), ls, lo)
  <2> HIDE DEF n, re, fa, se, ms, sf, ls, more
  <2>0. /\ AtLeast(c.last_observed, p.ts) = lo
        /\ AtLeast(d.max_success, p.amount) = AtLeast(ms, p.amount)
        /\ AtLeast(d.last_success, p.ts) = AtLeast(ls, p.ts)
        /\ AtMost(d.smallest_failed, p.amount) = AtMost(sf, p.amount)
    <3>1. /\ c.last_observed = last /\ d.max_success = ms /\ d.last_success = ls
          /\ d.smallest_failed = sf
      OBVIOUS
    <3> HIDE DEF c, d
    <3> QED BY <3>1
  <2>1. [c EXCEPT !.attempts = @ + 1, !.last_observed = AtLeast(@, p.ts)] = d
    <3> DEFINE e == [c EXCEPT !.attempts = @ + 1]
    <3>1. e = R(n + 1, re, fa, se, ms, sf, ls, last)
      OBVIOUS
    <3>2. [e EXCEPT !.last_observed = lo] = d
      <4> HIDE DEF lo, e
      <4> QED BY <3>1
    <3>3. [c EXCEPT !.attempts = @ + 1, !.last_observed = lo] = [e EXCEPT !.last_observed = lo]
      <4> HIDE DEF c, lo
      <4> QED OBVIOUS
    <3> HIDE DEF c, d, e, lo
    <3> QED BY <2>0, <3>2, <3>3
  <2>2. WithProbe(c, p) =
          CASE p.status = ok ->
                 [d EXCEPT !.reached = @ + 1, !.max_success = AtLeast(@, p.amount),
                           !.last_success = AtLeast(@, p.ts)]
            [] p.status = paid -> [d EXCEPT !.settled = @ + 1]
            [] OTHER -> [d EXCEPT !.failed = @ + 1, !.smallest_failed = AtMost(@, p.amount)]
    <3> HIDE DEF c, d
    <3> QED BY <2>1 DEF WithProbe
  <2>3. [d EXCEPT !.reached = @ + 1, !.max_success = AtLeast(@, p.amount),
                  !.last_success = AtLeast(@, p.ts)] =
          R(n + 1, re + 1, fa, se, AtLeast(ms, p.amount), sf, AtLeast(ls, p.ts), lo)
    <3> DEFINE ms2 == AtLeast(ms, p.amount)
               ls2 == AtLeast(ls, p.ts)
               e == [d EXCEPT !.reached = @ + 1]
               h == [e EXCEPT !.max_success = ms2]
               k == R(n + 1, re + 1, fa, se, ms2, sf, ls2, lo)
    <3>1. e = R(n + 1, re + 1, fa, se, ms, sf, ls, lo)
      <4> HIDE DEF lo
      <4> QED OBVIOUS
    <3>2. h = R(n + 1, re + 1, fa, se, ms2, sf, ls, lo)
      <4> HIDE DEF lo, e, ms2
      <4> QED BY <3>1
    <3>3. [h EXCEPT !.last_success = ls2] = k
      <4> HIDE DEF lo, e, h, ms2, ls2
      <4> QED BY <3>2
    <3>4. [d EXCEPT !.reached = @ + 1, !.max_success = ms2, !.last_success = ls2] =
            [h EXCEPT !.last_success = ls2]
      <4> HIDE DEF d, lo, ms2, ls2
      <4> QED OBVIOUS
    <3> HIDE DEF d, e, h, k, lo
    <3>5. [d EXCEPT !.reached = @ + 1, !.max_success = AtLeast(@, p.amount),
                    !.last_success = AtLeast(@, p.ts)] = k
      BY <2>0, <3>3, <3>4
    <3> QED BY <3>5 DEF k
  <2>4. [d EXCEPT !.settled = @ + 1] = R(n + 1, re, fa, se + 1, ms, sf, ls, lo)
    OBVIOUS
  <2>5. [d EXCEPT !.failed = @ + 1, !.smallest_failed = AtMost(@, p.amount)] =
          R(n + 1, re, fa + 1, se, ms, AtMost(sf, p.amount), ls, lo)
    <3> DEFINE sf2 == AtMost(sf, p.amount)
               e == [d EXCEPT !.failed = @ + 1]
               k == R(n + 1, re, fa + 1, se, ms, sf2, ls, lo)
    <3>1. e = R(n + 1, re, fa + 1, se, ms, sf, ls, lo)
      <4> HIDE DEF lo
      <4> QED OBVIOUS
    <3>2. [e EXCEPT !.smallest_failed = sf2] = k
      <4> HIDE DEF lo, e, sf2
      <4> QED BY <3>1
    <3>3. [d EXCEPT !.failed = @ + 1, !.smallest_failed = sf2] =
            [e EXCEPT !.smallest_failed = sf2]
      <4> HIDE DEF d, lo, sf2
      <4> QED OBVIOUS
    <3> HIDE DEF d, e, k, lo
    <3>4. [d EXCEPT !.failed = @ + 1, !.smallest_failed = AtMost(@, p.amount)] = k
      BY <2>0, <3>2, <3>3
    <3> QED BY <3>4 DEF k
  <2> HIDE DEF c, d, R
  <2> QED BY <2>2, <2>3, <2>4, <2>5
<1> HIDE DEF n, re, fa, se, ms, sf, ls, lo, a, c, R, more
<1>7. WithProbe(a, p) = BoundsUpTo(more, lo)
  <2>1. a = c
    BY <1>4 DEF c
  <2> QED BY <1>2, <1>5, <1>6, <2>1
<1> QED BY <1>7 DEF a, lo, more

\* The groups of some probes, each with what there is to say of its probes.
Members(all, g, interval) == {p \in all : GroupOf(p, interval) = g}
Exactly(all, interval) ==
  [g \in {GroupOf(p, interval) : p \in all} |-> BoundsOf(Members(all, g, interval))]

\* The bounds of one probe more, for probes that there are and for none.
LEMMA BoundsOfMore ==
  ASSUME NEW all \in SUBSET Row, IsFiniteSet(all), NEW p \in Row, p \notin all
  PROVE  WithProbe(IF all = {} THEN NoProbes(p) ELSE BoundsOf(all), p) = BoundsOf(all \cup {p})
<1> DEFINE T == TimesOf(all)
           U == TimesOf(all \cup {p})
<1>1. p.ts \in Nat /\ (\A q \in all : q.ts \in Nat)
  BY DEF Row
<1>2. T \in SUBSET Nat /\ U = T \cup {p.ts}
  BY <1>1 DEF TimesOf
<1>3. CASE all = {}
  <2>1. NoProbes(p) = BoundsUpTo({}, p.ts)
    <3>1. \A s : OfStatus({}, s) = {} /\ Amounts({}, s) = {}
      BY DEF OfStatus, Amounts
    <3>2. TimesOf({}) = {} /\ Cardinality({}) = 0
      BY FS_EmptySet DEF TimesOf
    <3>3. Newest({}) = None /\ Lowest({}) = None
      BY DEF Newest, Lowest
    <3> QED BY <3>1, <3>2, <3>3 DEF NoProbes, BoundsUpTo
  <2>2. WithProbe(BoundsUpTo(all, p.ts), p) = BoundsUpTo(all \cup {p}, AtLeast(p.ts, p.ts))
    BY <1>1, BoundsAdd
  <2>3. AtLeast(p.ts, p.ts) = p.ts
    BY <1>1 DEF AtLeast
  <2>4. Max(U) = p.ts
    <3>1. U = {p.ts}
      BY <1>2, <1>3 DEF TimesOf
    <3>2. Max(U) \in U
      <4> HIDE DEF U
      <4> QED BY <1>1, <3>1, FS_Singleton, LargestOf
    <3> HIDE DEF U
    <3> QED BY <3>1, <3>2
  <2>5. BoundsOf(all \cup {p}) = BoundsUpTo(all \cup {p}, Max(U))
    BY BoundsAre
  <2> QED BY <1>3, <2>1, <2>2, <2>3, <2>4, <2>5
<1>4. CASE all # {}
  <2>1. T # {} /\ IsFiniteSet(T)
    <3> DEFINE f == [q \in all |-> q.ts]
    <3>1. f \in Surjection(all, T)
      BY DEF Surjection, TimesOf
    <3>2. T # {}
      BY <1>4 DEF TimesOf
    <3> HIDE DEF f, T
    <3> QED BY <3>1, <3>2, FS_Surjection
  <2> DEFINE m == Max(T)
  <2>2. m \in Nat /\ Max(U) = IF p.ts > m THEN p.ts ELSE m
    <3> HIDE DEF T, U
    <3> QED BY <1>1, <1>2, <2>1, LargestOf, MaxAdd
  <2>3. m # None
    BY <2>2, ConstantsAssumption
  <2>4. AtLeast(m, p.ts) = Max(U)
    <3> HIDE DEF m, U
    <3> QED BY <2>2, <2>3 DEF AtLeast
  <2>5. WithProbe(BoundsUpTo(all, m), p) = BoundsUpTo(all \cup {p}, AtLeast(m, p.ts))
    <3> HIDE DEF m
    <3> QED BY <2>2, BoundsAdd
  <2>6. BoundsOf(all) = BoundsUpTo(all, m) /\ BoundsOf(all \cup {p}) = BoundsUpTo(all \cup {p}, Max(U))
    BY BoundsAre
  <2> QED BY <1>4, <2>4, <2>5, <2>6
<1> QED BY <1>3, <1>4

\* Taking up one more probe leaves every group exact.
LEMMA ExactlyAdd ==
  ASSUME NEW all \in SUBSET Row, IsFiniteSet(all), NEW p \in Row, p \notin all, NEW interval
  PROVE  Aggregated(Exactly(all, interval), p, interval) = Exactly(all \cup {p}, interval)
<1> DEFINE more == all \cup {p}
           g    == GroupOf(p, interval)
           old  == Exactly(all, interval)
           new  == Exactly(more, interval)
           K    == {GroupOf(q, interval) : q \in all}
           ours == Members(all, g, interval)
           a    == IF g \in K THEN old[g] ELSE NoProbes(p)
<1>1. DOMAIN old = K /\ DOMAIN new = K \cup {g}
  BY DEF Exactly
<1>2. new = [h \in K \cup {g} |-> BoundsOf(Members(more, h, interval))]
  BY DEF Exactly
<1>3. ASSUME NEW h \in K, h # g PROVE new[h] = old[h]
  <2>1. Members(more, h, interval) = Members(all, h, interval)
    BY <1>3 DEF Members
  <2> QED BY <2>1 DEF Exactly
<1>4. WithProbe(a, p) = new[g]
  <2>1. ours \in SUBSET Row /\ IsFiniteSet(ours) /\ p \notin ours
    <3>1. ours \subseteq all
      BY DEF Members
    <3> HIDE DEF ours
    <3> QED BY <3>1, FS_Subset
  <2>2. Members(more, g, interval) = ours \cup {p}
    BY DEF Members
  <2>3. g \in K <=> ours # {}
    BY DEF Members
  <2>4. a = IF ours = {} THEN NoProbes(p) ELSE BoundsOf(ours)
    BY <2>3 DEF Exactly
  <2>5. new[g] = BoundsOf(ours \cup {p})
    BY <2>2 DEF Exactly
  <2> HIDE DEF ours, a, new, K
  <2> QED BY <2>1, <2>4, <2>5, BoundsOfMore
<1>5. Aggregated(old, p, interval) = Put(old, g, WithProbe(a, p))
  BY <1>1 DEF Aggregated
<1> HIDE DEF old, new, K, g, a
<1>6. Put(old, g, WithProbe(a, p)) = [h \in K \cup {g} |-> new[h]]
  BY <1>1, <1>3, <1>4 DEF Put
<1>7. new = [h \in K \cup {g} |-> new[h]]
  BY <1>2
<1> QED BY <1>5, <1>6, <1>7 DEF old, new

\* The recursion of Aggregate, as it is written in the library.
AggregateStep(s, interval, g, t) ==
  IF t = {} THEN [x \in {} |-> 0]
  ELSE Aggregated(g[t \ {Max(t)}], s[Max(t)], interval)
IsAggregate(s, interval, g) ==
  g = [t \in SUBSET DOMAIN s |-> AggregateStep(s, interval, g, t)]
AggregateBy(s, interval) == CHOOSE g : IsAggregate(s, interval, g)

\* FoldLeft of the library, in these terms.
LEMMA UnfoldAggregate ==
  ASSUME NEW rows, NEW interval
  PROVE  Aggregate(rows, interval) =
           AggregateBy(Ordered(rows), interval)[DOMAIN Ordered(rows)]
BY DEF Aggregate, FoldLeft, MapThenFoldSet, IsAggregate, AggregateStep, AggregateBy, Empty

\* The order of the probes.
Earlier(rows) ==
  {x \in rows \X rows : \/ x[1].ts < x[2].ts
                        \/ x[1].ts = x[2].ts /\ x[1].n < x[2].n}

\* ORDER BY ts, id lists every row once: no two have the same id.
LEMMA OrderedLists ==
  ASSUME NEW rows \in SUBSET Row, IsFiniteSet(rows), \A p, q \in rows : p.n = q.n => p = q
  PROVE  Orders(Earlier(rows), rows) /\ Lists(Ordered(rows), rows, Earlier(rows))
<1> DEFINE R == Earlier(rows)
           c == Cardinality(rows)
<1>1. \A p \in rows : p.ts \in Nat /\ p.n \in Nat
  BY DEF Row
<1>2. \A p, q \in rows : <<p, q>> \in R <=> p.ts < q.ts \/ (p.ts = q.ts /\ p.n < q.n)
  BY DEF Earlier
<1>3. Orders(R, rows)
  <2> HIDE DEF R
  <2>1. \A x \in rows : <<x, x>> \notin R
    BY <1>1, <1>2
  <2>2. \A x, y \in rows : x # y => <<x, y>> \in R \/ <<y, x>> \in R
    BY <1>1, <1>2
  <2>3. \A x, y, z \in rows : <<x, y>> \in R /\ <<y, z>> \in R => <<x, z>> \in R
    BY <1>1, <1>2
  <2> QED BY <2>1, <2>2, <2>3 DEF Orders
<1>4. \A x \in rows :
        {y \in rows : y.ts < x.ts \/ (y.ts = x.ts /\ y.n < x.n)} = {y \in rows : <<y, x>> \in R}
  BY <1>2
<1>5. Ordered(rows) = Listed(rows, R)
  <2> HIDE DEF R
  <2>1. Ordered(rows) =
          [n \in 1..c |->
             CHOOSE x \in rows :
               Cardinality({y \in rows : y.ts < x.ts \/ (y.ts = x.ts /\ y.n < x.n)}) = n - 1]
    BY DEF Ordered, Listing
  <2>2. \A x \in rows :
          Cardinality({y \in rows : y.ts < x.ts \/ (y.ts = x.ts /\ y.n < x.n)}) =
            Rank(rows, R, x)
    BY <1>4 DEF Rank
  <2> QED BY <2>1, <2>2 DEF Listed
<1>6. Lists(Listed(rows, R), rows, R)
  <2> HIDE DEF R
  <2> QED BY <1>3, ListedLists
<1> QED BY <1>3, <1>5, <1>6

\* The groups of probes that are taken up one by one, none of them twice, are exact.
LEMMA AggregateIs ==
  ASSUME NEW s, NEW n \in Nat, DOMAIN s = 1..n, \A i \in 1..n : s[i] \in Row,
         \A i, j \in 1..n : s[i] = s[j] => i = j, NEW interval
  PROVE  AggregateBy(s, interval)[1..n] = Exactly({s[i] : i \in 1..n}, interval)
<1> DEFINE D == 1..n
           At(t) == {s[i] : i \in t}
           h == [t \in SUBSET D |-> Exactly(At(t), interval)]
<1>1. IsFiniteSet(D)
  BY FS_Interval
<1>2. ASSUME NEW t \in SUBSET D PROVE h[t] = AggregateStep(s, interval, h, t)
  <2>1. CASE t = {}
    <3>1. At(t) = {} /\ h[t] = Exactly(At(t), interval)
      BY <2>1
    <3>2. Exactly({}, interval) = [x \in {} |-> 0]
      BY DEF Exactly
    <3> QED BY <2>1, <3>1, <3>2 DEF AggregateStep
  <2>2. CASE t # {}
    <3> DEFINE m == Max(t)
               r == t \ {m}
    <3>1. m \in t
      BY <2>2, Greatest
    <3>2. r \in SUBSET D /\ t = r \cup {m}
      BY <3>1
    <3>3. At(r) \in SUBSET Row /\ s[m] \in Row /\ s[m] \notin At(r)
      BY <3>1
    <3>4. IsFiniteSet(At(r))
      <4>1. IsFiniteSet(r)
        BY <1>1, <3>2, FS_Subset
      <4> DEFINE f == [i \in r |-> s[i]]
                 B == At(r)
      <4>2. f \in Surjection(r, B)
        BY DEF Surjection
      <4> HIDE DEF f, B, r
      <4> QED BY <4>1, <4>2, FS_Surjection DEF B
    <3>5. At(t) = At(r) \cup {s[m]}
      BY <3>1
    <3>6. Aggregated(Exactly(At(r), interval), s[m], interval) = Exactly(At(t), interval)
      <4> HIDE DEF At, m, r
      <4> QED BY <3>3, <3>4, <3>5, ExactlyAdd
    <3>7. h[t] = Exactly(At(t), interval) /\ h[r] = Exactly(At(r), interval)
      BY <3>2
    <3> HIDE DEF h, At
    <3> QED BY <2>2, <3>6, <3>7 DEF AggregateStep
  <2> QED BY <2>1, <2>2
<1>3. h = [t \in SUBSET D |-> h[t]]
  OBVIOUS
<1> DEFINE g == AggregateBy(s, interval)
<1>4. IsAggregate(s, interval, h) /\ IsAggregate(s, interval, g)
  <2> HIDE DEF h
  <2>1. IsAggregate(s, interval, h)
    BY <1>2, <1>3 DEF IsAggregate
  <2> QED BY <2>1 DEF AggregateBy
<1> DEFINE Bad == {t \in SUBSET D : g[t] # h[t]}
<1>5. Bad = {}
  <2> SUFFICES ASSUME Bad # {} PROVE FALSE
    OBVIOUS
  <2> HIDE DEF h, g
  <2>1. PICK t \in Bad : \A u \in Bad : u \subseteq t => u = t
    <3>1. Bad \in SUBSET (SUBSET D)
      OBVIOUS
    <3> HIDE DEF Bad, D
    <3> QED BY <1>1, <3>1, Smallest
  <2>2. g[t] = AggregateStep(s, interval, g, t) /\ h[t] = AggregateStep(s, interval, h, t)
    BY <1>4 DEF IsAggregate
  <2>3. CASE t = {}
    BY <2>1, <2>2, <2>3 DEF AggregateStep
  <2>4. CASE t # {}
    <3>1. Max(t) \in t
      BY <2>4, Greatest
    <3>2. g[t \ {Max(t)}] = h[t \ {Max(t)}]
      BY <2>1, <3>1
    <3> QED BY <2>1, <2>2, <2>4, <3>2 DEF AggregateStep
  <2> QED BY <2>3, <2>4
<1>6. g[D] = h[D]
  <2> HIDE DEF g, h
  <2> QED BY <1>5
<1> QED BY <1>6

\* The probes are finitely many rows, and no two have the same id.
LEMMA ProbesFinite ==
  ASSUME Typed, ProbesApart
  PROVE  probes \in SUBSET Row /\ IsFiniteSet(probes)
<1>1. probes \subseteq Probe /\ (\A p \in probes : p.n \in 1..Len(stored))
  BY DEF Typed, Tables
<1>2. Len(stored) \in Nat
  BY DEF Typed, Histories
<1>3. probes \in SUBSET Row
  <2>1. scenario.until \in Nat
    BY ScenarioIs DEF Typed, Times
  <2>2. 0..scenario.until \subseteq Nat
    BY <2>1
  <2> QED BY <1>1, <2>2 DEF Probe, Row
<1> DEFINE ids == 1..Len(stored)
           f == [p \in probes |-> p.n]
<1>4. f \in Injection(probes, ids)
  BY <1>1 DEF Injection, IsInjective, ProbesApart
<1>5. IsFiniteSet(ids)
  BY <1>2, FS_Interval
<1>6. IsFiniteSet(probes)
  <2> HIDE DEF f, ids
  <2> QED BY <1>4, <1>5, FS_Injection
<1> QED BY <1>3, <1>6

\* aggregate_probe_events says of every route and period exactly what its probes
\* say, whatever order they were observed and stored in.
THEOREM AggregatesAreExact == Spec => []AggregateExact
<1>1. IInv => AggregateExact
  <2> SUFFICES ASSUME Typed, ProbesApart PROVE AggregateExact
    BY InvariantIs
  <2> DEFINE s == Ordered(probes)
             R == Earlier(probes)
             n == Cardinality(probes)
  <2>1. probes \in SUBSET Row /\ IsFiniteSet(probes) /\ n \in Nat
    BY ProbesFinite, FS_CardinalityType
  <2>2. Orders(R, probes) /\ Lists(s, probes, R)
    BY <2>1, OrderedLists DEF ProbesApart
  <2>3. DOMAIN s = 1..n /\ \A i \in 1..n : s[i] \in probes
    BY <2>2 DEF Lists
  <2>4. /\ \A i, j \in DOMAIN s : s[i] = s[j] => i = j
        /\ \A p \in probes : \E i \in DOMAIN s : s[i] = p
    <3> HIDE DEF s, R
    <3> QED BY <2>1, <2>2, ListsAll
  <2>5. {s[i] : i \in 1..n} = probes
    <3> HIDE DEF s, n
    <3> QED BY <2>3, <2>4
  <2>6. AggregateBy(s, Bucket)[1..n] = Exactly({s[i] : i \in 1..n}, Bucket)
    <3> HIDE DEF s, n
    <3> QED BY <2>1, <2>3, <2>4, AggregateIs
  <2>7. Aggregate(probes, Bucket) = Exactly(probes, Bucket)
    BY <2>3, <2>5, <2>6, UnfoldAggregate
  <2> QED BY <2>7 DEF AggregateExact, Exactly, Members
<1> QED BY <1>1, InductiveInvariant, PTL

================================================================================
