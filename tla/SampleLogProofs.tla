---------------------------- MODULE SampleLogProofs ----------------------------
(***************************************************************************)
(* Proofs about SampleLog for any channels, values, checkpoint interval    *)
(* and retention window, with the wall clock steady or set back.           *)
(***************************************************************************)
EXTENDS SampleLog, FiniteSetTheorems, TLAPS

(***************************************************************************)
(* The rows of one channel.                                                *)
(***************************************************************************)

Unique(rows) == \A r, s \in rows : r.id = s.id => r = s

\* No row is from the future, and rows were inserted in the order of their time.
Ordered(rows, now) ==
  /\ rows \subseteq Row
  /\ Unique(rows)
  /\ \A r \in rows : r.ts <= now
  /\ \A r, s \in rows : r.id < s.id => r.ts <= s.ts

\* The row inserted last.
Newest(rows, r) == r \in rows /\ \A s \in rows : s.id <= r.id

\* NoRedundantRow of one channel.
Spaced(rows) ==
  \A r, s \in rows :
    After(s, r) /\ (\A q \in rows : ~(After(q, r) /\ After(s, q)))
      => r.value # s.value \/ s.ts - r.ts >= Checkpoint

\* The newest row has the value of the latest observation and is fresh enough.
Tracks(rows, l, now) ==
  /\ l.ts <= now
  /\ l = Never => rows = {}
  /\ l # Never =>
       \E r \in rows : /\ Newest(rows, r)
                       /\ r.value = l.value
                       /\ r.ts <= l.ts
                       /\ l.ts - r.ts < Checkpoint

\* At every promised time there is a row to read.
Readable(rows, times, now) ==
  \A t \in times : t <= now /\ AsOf(rows, t) # {}

\* The rows stand for all that was observed at the promised times.
Stands(rows, times, l, now) ==
  /\ Ordered(rows, now)
  /\ Spaced(rows)
  /\ Tracks(rows, l, now)
  /\ Readable(rows, times, now)

\* At most one id is next: one more than the largest.
LEMMA NextIdUnique ==
  ASSUME NEW rows \in SUBSET Row, NEW i \in NewIds(rows), NEW j \in NewIds(rows)
  PROVE  i = j
<1>1. /\ i \in Int /\ j \in Int /\ i >= 1 /\ j >= 1
      /\ \A r \in rows : r.id < i /\ r.id < j
      /\ i = 1 \/ \E r \in rows : r.id = i - 1
      /\ j = 1 \/ \E r \in rows : r.id = j - 1
  BY ConstantsAssumption DEF NewIds
<1>2. ~(i < j) /\ ~(j < i)
  BY <1>1
<1> QED BY <1>1, <1>2

\* ORDER BY ts DESC, id DESC puts the row inserted last first.
LEMMA NewestIsLatest ==
  ASSUME NEW now \in Nat, NEW rows, Ordered(rows, now), NEW p, Newest(rows, p)
  PROVE  Latest(rows) = {p}
<1>1. \A r \in rows : r.id \in Int /\ r.ts \in Int
  BY ConstantsAssumption DEF Ordered, Row, Time
<1>2. \A s \in rows \ {p} : s.id < p.id /\ s.ts <= p.ts
  BY <1>1 DEF Ordered, Unique, Newest
<1>3. p \in Latest(rows)
  BY <1>1, <1>2 DEF Latest, After, Newest
<1>4. \A r \in rows \ {p} : ~After(r, p)
  BY <1>1, <1>2 DEF After, Newest
<1>5. \A r \in rows \ {p} : r \notin Latest(rows)
  BY <1>4 DEF Latest, Newest
<1> QED BY <1>3, <1>5 DEF Latest

\* What a snapshot inserts: nothing, or one row that is newer than all others.
LEMMA InsertedRows ==
  ASSUME NEW rows \in SUBSET Row, NEW ts \in Time, NEW v \in Value,
         NewIds(rows) # {}
  PROVE  \/ ~Due(rows, ts, v) /\ Inserted(rows, ts, v) = rows
         \/ /\ Due(rows, ts, v)
            /\ \E n \in Row : /\ Inserted(rows, ts, v) = rows \cup {n}
                              /\ n.ts = ts /\ n.value = v
                              /\ \A r \in rows : r.id < n.id
<1>1. CASE ~Due(rows, ts, v)
  BY <1>1 DEF Inserted
<1>2. CASE Due(rows, ts, v)
  <2>1. PICK i \in NewIds(rows) : TRUE
    OBVIOUS
  <2>2. NewIds(rows) = {i}
    BY NextIdUnique
  <2> DEFINE n == [id |-> i, ts |-> ts, value |-> v]
  <2>3. n \in Row /\ \A r \in rows : r.id < n.id
    BY <2>1 DEF Row, NewIds
  <2>4. Inserted(rows, ts, v) = rows \cup {n}
    BY <1>2, <2>2 DEF Inserted
  <2> QED BY <1>2, <2>3, <2>4
<1> QED BY <1>1, <1>2

\* Inserting the newest row keeps the rows ordered.
LEMMA InsertKeepsOrder ==
  ASSUME NEW now \in Nat, NEW rows, Ordered(rows, now), NEW n \in Row,
         n.ts = now, \A r \in rows : r.id < n.id
  PROVE  Ordered(rows \cup {n}, now) /\ Newest(rows \cup {n}, n)
<1>1. \A r \in rows \cup {n} : r.id \in Int /\ r.ts \in Int
  BY ConstantsAssumption DEF Ordered, Row, Time
<1>2. Unique(rows \cup {n})
  BY <1>1 DEF Ordered, Unique
<1>3. Newest(rows \cup {n}, n)
  BY <1>1 DEF Newest
<1> QED BY <1>1, <1>2, <1>3 DEF Ordered

\* A row that is due differs from the latest row or is a checkpoint later.
LEMMA InsertKeepsSpace ==
  ASSUME NEW now \in Nat, NEW rows, Ordered(rows, now), Spaced(rows),
         NEW n \in Row, n.ts = now, \A r \in rows : r.id < n.id,
         Due(rows, n.ts, n.value)
  PROVE  Spaced(rows \cup {n})
<1> DEFINE new == rows \cup {n}
<1>1. \A r \in new : r.id \in Int /\ r.ts \in Int
  BY ConstantsAssumption DEF Ordered, Row, Time
<1>2. \A r \in rows : After(n, r) /\ ~After(r, n)
  BY <1>1 DEF Ordered, After
<1>3. ~After(n, n)
  BY <1>1 DEF After
<1> SUFFICES ASSUME NEW r \in new, NEW s \in new, After(s, r),
                    \A q \in new : ~(After(q, r) /\ After(s, q))
             PROVE  r.value # s.value \/ s.ts - r.ts >= Checkpoint
  BY DEF Spaced
<1>4. r \in rows
  BY <1>2, <1>3
<1>5. CASE s \in rows
  BY <1>4, <1>5 DEF Spaced
<1>6. CASE s = n
  <2>1. \A q \in rows \ {r} : After(r, q)
    <3> SUFFICES ASSUME NEW q \in rows \ {r} PROVE After(r, q)
      OBVIOUS
    <3>1. ~After(q, r)
      BY <1>2, <1>6
    <3>2. q.id # r.id
      BY <1>4 DEF Ordered, Unique
    <3> QED BY <1>1, <1>4, <3>1, <3>2 DEF After
  <2>2. r \in Latest(rows)
    BY <1>4, <2>1 DEF Latest
  <2>3. r.value # n.value \/ Minus(n.ts, r.ts) >= Checkpoint
    BY <2>2 DEF Due
  <2> QED BY <1>1, <1>4, <1>6, <2>3, ConstantsAssumption DEF Minus
<1> QED BY <1>5, <1>6

\* What prune leaves: every row of the window and the newest row, wherever it is.
LEMMA PrunedRows ==
  ASSUME NEW now \in Nat, NEW rows \in SUBSET Row
  PROVE  /\ Pruned(rows, now) \subseteq rows
         /\ Cutoff(now) \in Nat /\ Cutoff(now) <= now
         /\ now <= Cutoff(now) + Retention
         /\ \A r \in rows : r.ts >= Cutoff(now) => r \in Pruned(rows, now)
         /\ \A r : Newest(rows, r) => r \in Pruned(rows, now)
<1>1. Cutoff(now) \in Nat /\ Cutoff(now) <= now /\ now <= Cutoff(now) + Retention
  BY ConstantsAssumption DEF Cutoff, Minus
<1> QED BY <1>1 DEF Pruned, Newest

\* Pruning keeps what is true of all pairs of rows.
LEMMA PruneKeepsOrder ==
  ASSUME NEW now \in Nat, NEW rows, Ordered(rows, now)
  PROVE  Ordered(Pruned(rows, now), now)
BY PrunedRows DEF Ordered, Unique

\* No row between two neighbours is pruned away, so they were neighbours before.
LEMMA PruneKeepsSpace ==
  ASSUME NEW now \in Nat, NEW rows, Ordered(rows, now), Spaced(rows)
  PROVE  Spaced(Pruned(rows, now))
<1> DEFINE kept == Pruned(rows, now)
<1>1. /\ kept \subseteq rows /\ Cutoff(now) \in Nat
      /\ \A r \in rows : r.ts >= Cutoff(now) => r \in kept
  BY PrunedRows DEF Ordered
<1>2. \A r \in rows : r.id \in Int /\ r.ts \in Int
  BY ConstantsAssumption DEF Ordered, Row, Time
<1> SUFFICES ASSUME NEW r \in kept, NEW s \in kept, After(s, r),
                    \A q \in kept : ~(After(q, r) /\ After(s, q))
             PROVE  r.value # s.value \/ s.ts - r.ts >= Checkpoint
  BY DEF Spaced
<1>3. ASSUME NEW q \in rows, After(q, r)
      PROVE  q \in kept
  <2>1. CASE r.ts >= Cutoff(now)
    BY <1>1, <1>2, <1>3, <2>1 DEF After
  <2>2. CASE \A o \in rows : o.ts < Cutoff(now) => o.id <= r.id
    <3>1. q.id > r.id
      BY <1>1, <1>2, <1>3 DEF After, Ordered, Unique
    <3> QED BY <1>1, <1>2, <2>2, <3>1
  <2> QED BY <2>1, <2>2 DEF Pruned
<1> QED BY <1>1, <1>3 DEF Spaced

\* Of two rows from before the window one was inserted last: only one stays.
LEMMA OneBaseline ==
  ASSUME NEW now \in Nat, NEW rows \in SUBSET Row, Unique(rows)
  PROVE  Cardinality({r \in Pruned(rows, now) : r.ts < Cutoff(now)}) <= 1
<1> DEFINE old == {r \in Pruned(rows, now) : r.ts < Cutoff(now)}
<1>1. \A r \in old : /\ r \in rows /\ r.ts \in Int /\ r.id \in Int
                     /\ \A s \in old : s.id <= r.id
  <2>1. Cutoff(now) \in Nat
    BY PrunedRows
  <2> QED BY <2>1, ConstantsAssumption DEF Pruned, Row, Time
<1>2. \A r, s \in old : r = s
  BY <1>1 DEF Unique
<1>3. CASE old = {}
  BY <1>3, FS_EmptySet
<1>4. CASE old # {}
  <2>1. PICK r : r \in old
    BY <1>4
  <2>2. old = {r}
    BY <1>2, <2>1
  <2>3. Cardinality({r}) = 1
    BY FS_Singleton
  <2> HIDE DEF old
  <2>4. Cardinality(old) <= 1
    BY <2>2, <2>3
  <2> QED BY <2>4 DEF old
<1> QED BY <1>3, <1>4

(***************************************************************************)
(* What a reader finds.                                                    *)
(***************************************************************************)

\* The order of rows is strict, so at most one row is the latest.
LEMMA LatestUnique ==
  ASSUME NEW rows \in SUBSET Row, NEW r \in Latest(rows), NEW s \in Latest(rows)
  PROVE  r = s
<1>1. r.id \in Int /\ s.id \in Int /\ r.ts \in Int /\ s.ts \in Int
  BY ConstantsAssumption DEF Latest, Row, Time
<1>2. r # s => After(r, s) /\ After(s, r)
  BY DEF Latest
<1> QED BY <1>1, <1>2 DEF After

\* A reader takes the value of the one row it finds.
LEMMA ReadsTheRow ==
  ASSUME NEW rows, NEW t, NEW p, AsOf(rows, t) = {p}
  PROVE  ValueAsOf(rows, t) = p.value
BY DEF ValueAsOf

\* Readers that find the same row take the same value.
LEMMA SameAnswer ==
  ASSUME NEW rows, NEW others, NEW t, AsOf(rows, t) = AsOf(others, t)
  PROVE  ValueAsOf(rows, t) = ValueAsOf(others, t)
<1> DEFINE Answer(S) == IF S = {} THEN Absent ELSE (CHOOSE r \in S : TRUE).value
<1>1. /\ ValueAsOf(rows, t) = Answer(AsOf(rows, t))
      /\ ValueAsOf(others, t) = Answer(AsOf(others, t))
  BY DEF ValueAsOf
<1> HIDE DEF Answer
<1> QED BY <1>1

\* Now is the time of the newest row, or a later one.
LEMMA ReadsNewest ==
  ASSUME NEW now \in Nat, NEW rows, Ordered(rows, now), NEW p, Newest(rows, p)
  PROVE  AsOf(rows, now) = {p}
<1>1. {r \in rows : r.ts <= now} = rows
  BY DEF Ordered
<1> QED BY <1>1, NewestIsLatest DEF AsOf

\* A later row does not change what a reader finds before it.
LEMMA InsertKeepsAnswers ==
  ASSUME NEW t \in Int, NEW n \in Row, t < n.ts, NEW rows
  PROVE  AsOf(rows \cup {n}, t) = AsOf(rows, t)
<1>1. n.ts \in Int
  BY ConstantsAssumption DEF Row, Time
<1>2. {r \in rows \cup {n} : r.ts <= t} = {r \in rows : r.ts <= t}
  BY <1>1
<1> QED BY <1>2 DEF AsOf

\* Pruning keeps what a reader finds at any time of the window: the row it reads
\* is of the window, or is the one baseline.
LEMMA PruneKeepsAnswers ==
  ASSUME NEW now \in Nat, NEW rows, Ordered(rows, now), NEW t \in Int,
         t >= Cutoff(now), AsOf(rows, t) # {}
  PROVE  AsOf(Pruned(rows, now), t) = AsOf(rows, t)
<1> DEFINE kept == Pruned(rows, now)
<1>1. /\ kept \subseteq rows /\ Cutoff(now) \in Nat /\ rows \in SUBSET Row
      /\ \A r \in rows : r.ts >= Cutoff(now) => r \in kept
  BY PrunedRows DEF Ordered
<1>2. \A r \in rows : r.id \in Int /\ r.ts \in Int
  BY ConstantsAssumption DEF Ordered, Row, Time
<1>3. PICK p : p \in AsOf(rows, t)
  OBVIOUS
<1>4. /\ p \in rows /\ p.ts <= t
      /\ \A s \in rows \ {p} : s.ts <= t => After(p, s)
  BY <1>3 DEF AsOf, Latest
<1>5. p \in kept
  <2>1. CASE p.ts >= Cutoff(now)
    BY <1>1, <1>4, <2>1
  <2>2. CASE p.ts < Cutoff(now)
    <3>1. ASSUME NEW s \in rows, s.ts < Cutoff(now)
          PROVE  s.id <= p.id
      <4>1. s = p \/ After(p, s)
        BY <1>1, <1>2, <1>4, <3>1
      <4> QED BY <1>2, <1>4, <4>1 DEF After, Ordered
    <3> QED BY <1>4, <3>1 DEF Pruned
  <2> QED BY <1>1, <1>2, <1>4, <2>1, <2>2
<1>6. p \in AsOf(kept, t)
  BY <1>1, <1>4, <1>5 DEF AsOf, Latest
<1>7. ASSUME NEW S \in SUBSET Row, p \in AsOf(S, t)
      PROVE  AsOf(S, t) = {p}
  BY <1>7, LatestUnique DEF AsOf
<1> QED BY <1>1, <1>3, <1>6, <1>7

(***************************************************************************)
(* A snapshot of one channel.                                              *)
(***************************************************************************)

\* record_sample: whether a row is inserted or the newest one still stands for the
\* sample, some newest row does; it is of this moment when the value has changed.
LEMMA RecordedRow ==
  ASSUME NEW now \in Time, NEW rows, NEW times \in SUBSET Time, NEW l, NEW v \in Value,
         Stands(rows, times, l, now), NewIds(rows) # {}
  PROVE  /\ Ordered(Inserted(rows, now, v), now)
         /\ Spaced(Inserted(rows, now, v))
         /\ \E p \in Inserted(rows, now, v) :
              /\ Newest(Inserted(rows, now, v), p) /\ p.value = v
              /\ p.ts <= now /\ now - p.ts < Checkpoint
              /\ l.value # v => p.ts = now
<1> DEFINE new == Inserted(rows, now, v)
<1> USE ConstantsAssumption DEF Time, Stands
<1>1. rows \in SUBSET Row
  BY DEF Ordered
<1>2. \A r \in rows : r.ts \in Nat
  BY <1>1 DEF Row
<1> HIDE DEF new
<1>3. CASE ~Due(rows, now, v) /\ new = rows
  <2>1. PICK q \in Latest(rows) : q.value = v /\ ~(Minus(now, q.ts) >= Checkpoint)
    BY <1>3 DEF Due
  <2>2. PICK p \in rows : Newest(rows, p) /\ p.value = l.value
    BY <2>1 DEF Tracks, Latest
  <2>3. p = q
    BY <2>1, <2>2, NewestIsLatest
  <2>4. now - p.ts < Checkpoint /\ p.ts <= now
    BY <1>2, <2>1, <2>3 DEF Minus, Ordered
  <2> QED BY <1>3, <2>1, <2>2, <2>3, <2>4 DEF new
<1>4. CASE /\ Due(rows, now, v)
           /\ \E n \in Row : /\ new = rows \cup {n}
                             /\ n.ts = now /\ n.value = v
                             /\ \A r \in rows : r.id < n.id
  <2>1. PICK n \in Row : /\ new = rows \cup {n}
                         /\ n.ts = now /\ n.value = v
                         /\ \A r \in rows : r.id < n.id
    BY <1>4
  <2>2. Ordered(new, now) /\ Newest(new, n)
    BY <2>1, InsertKeepsOrder
  <2>3. Spaced(new)
    BY <1>4, <2>1, InsertKeepsSpace
  <2>4. Newest(new, n) /\ n.value = v /\ n.ts <= now /\ now - n.ts < Checkpoint
    BY <2>1, <2>2
  <2> QED BY <2>1, <2>2, <2>3, <2>4 DEF new, Newest
<1> QED BY <1>1, <1>3, <1>4, InsertedRows DEF new

\* No answer about an earlier time changes.
LEMMA RecordKeepsAnswers ==
  ASSUME NEW now \in Time, NEW rows \in SUBSET Row, NEW v \in Value,
         NewIds(rows) # {}, NEW t \in Int, t < now
  PROVE  AsOf(Inserted(rows, now, v), t) = AsOf(rows, t)
BY InsertedRows, InsertKeepsAnswers

\* The answer about this moment is the sample.
LEMMA RecordAnswers ==
  ASSUME NEW now \in Time, NEW rows, NEW times \in SUBSET Time, NEW l, NEW v \in Value,
         Stands(rows, times, l, now), NewIds(rows) # {}
  PROVE  /\ AsOf(Inserted(rows, now, v), now) # {}
         /\ ValueAsOf(Inserted(rows, now, v), now) = v
<1> DEFINE new == Inserted(rows, now, v)
<1>1. Ordered(new, now)
  BY RecordedRow
<1>2. PICK p \in new : Newest(new, p) /\ p.value = v
  BY RecordedRow
<1> HIDE DEF new
<1>3. AsOf(new, now) = {p}
  BY <1>1, <1>2, ConstantsAssumption, ReadsNewest DEF Time
<1>4. AsOf(new, now) # {} /\ ValueAsOf(new, now) = v
  BY <1>2, <1>3, ReadsTheRow
<1> QED BY <1>4 DEF new

\* The log stands for the sample as for the observations before.
LEMMA RecordChannel ==
  ASSUME NEW now \in Time, NEW rows, NEW times \in SUBSET Time, NEW l, NEW v \in Value,
         Stands(rows, times, l, now), NewIds(rows) # {}
  PROVE  Stands(Inserted(rows, now, v), times \cup {now},
                [ts |-> now, value |-> v], now)
<1> DEFINE new == Inserted(rows, now, v)
           m   == [ts |-> now, value |-> v]
<1>1. Ordered(new, now) /\ Spaced(new)
  BY RecordedRow
<1>2. PICK p \in new : /\ Newest(new, p) /\ p.value = v
                       /\ p.ts <= now /\ now - p.ts < Checkpoint
  BY RecordedRow
<1>3. now \in Nat /\ times \subseteq Int /\ rows \in SUBSET Row
  BY ConstantsAssumption DEF Time, Stands, Ordered
<1>4. \A t \in times : t < now => AsOf(new, t) = AsOf(rows, t)
  BY <1>3, RecordKeepsAnswers
<1>5. AsOf(new, now) # {}
  BY RecordAnswers
<1> HIDE DEF new
<1>6. m # Never
  <2>1. Never.value # m.value
    BY ConstantsAssumption DEF Never
  <2> QED BY <2>1
<1>7. Tracks(new, m, now)
  BY <1>2, <1>3, <1>6 DEF Tracks
<1>8. Readable(new, times \cup {now}, now)
  <2>1. \A t \in times : t <= now /\ AsOf(rows, t) # {}
    BY DEF Stands, Readable
  <2> QED BY <1>3, <1>4, <1>5, <2>1 DEF Readable
<1>9. Stands(new, times \cup {now}, m, now)
  BY <1>1, <1>7, <1>8 DEF Stands
<1> QED BY <1>9 DEF new

\* prune: what was true of the log stays true, for the times of the window.
LEMMA PruneChannel ==
  ASSUME NEW now \in Time, NEW rows, NEW times \in SUBSET Time, NEW l,
         Stands(rows, times, l, now)
  PROVE  LET new  == Pruned(rows, now)
             kept == {t \in times : t >= Cutoff(now)}
         IN /\ Stands(new, kept, l, now)
            /\ \A t \in kept : AsOf(new, t) = AsOf(rows, t)
<1> DEFINE new  == Pruned(rows, now)
           kept == {t \in times : t >= Cutoff(now)}
<1> USE DEF Stands
<1>1. now \in Nat /\ times \subseteq Int
  BY ConstantsAssumption DEF Time
<1>2. Ordered(new, now) /\ Spaced(new)
  BY <1>1, PruneKeepsOrder, PruneKeepsSpace
<1>3. new \subseteq rows /\ \A r : Newest(rows, r) => Newest(new, r)
  BY <1>1, PrunedRows DEF Ordered, Newest
<1>4. Tracks(new, l, now)
  BY <1>3 DEF Tracks, Newest
<1>5. \A t \in kept : AsOf(new, t) = AsOf(rows, t)
  BY <1>1, PruneKeepsAnswers DEF Readable
<1>6. Readable(new, kept, now)
  BY <1>5 DEF Readable
<1> QED BY <1>2, <1>4, <1>5, <1>6

(***************************************************************************)
(* The inductive invariant.                                                *)
(***************************************************************************)

\* While the wall clock is never set back, the rows of a channel stand for all
\* its promised observations.
Faithful(c) == Stands(log[c], seen[c], last[c], clock)

IInv ==
  /\ TypeOK
  /\ Steady => \A c \in Channel : Faithful(c)
  /\ ~Steady => \A c \in Channel : seen[c] = {}

\* A snapshot gives every channel rows of the right type, whatever the clock says.
LEMMA SnapshotTypes ==
  ASSUME TypeOK, NEW o \in Observation, Snapshot(o)
  PROVE  TypeOK'
<1> DEFINE listed == {c \in Channel : o[c] # Absent}
           Mid(c) == IF c \in listed THEN Inserted(log[c], clock, o[c]) ELSE log[c]
<1>1. /\ log' = [c \in Channel |-> Pruned(Mid(c), clock)]
      /\ \A c \in listed : NewIds(log[c]) # {}
      /\ UNCHANGED <<scenario, clock>>
  BY DEF Snapshot
<1>2. clock \in Time /\ clock \in Nat /\ \A c \in Channel : log[c] \in SUBSET Row
  BY ConstantsAssumption DEF TypeOK, Time
<1>3. ASSUME NEW c \in Channel
      PROVE  Mid(c) \in SUBSET Row /\ Unique(Mid(c))
  <2>1. CASE c \in listed
    <3>1. o[c] \in Value
      BY <2>1 DEF Observation
    <3>2. \/ Mid(c) = log[c]
          \/ \E n \in Row : Mid(c) = log[c] \cup {n} /\ \A r \in log[c] : r.id < n.id
      BY <1>1, <1>2, <2>1, <3>1, InsertedRows
    <3>3. \A r \in Row : r.id \in Int
      BY ConstantsAssumption DEF Row
    <3> QED BY <1>2, <3>2, <3>3 DEF TypeOK, Unique
  <2>2. CASE c \notin listed
    BY <1>2, <2>2 DEF TypeOK, Unique
  <2> QED BY <2>1, <2>2
<1>4. \A c \in Channel : log'[c] \subseteq Mid(c)
  BY <1>1, <1>2, <1>3, PrunedRows
<1>5. log' \in [Channel -> SUBSET Row]
  BY <1>1, <1>3, <1>4
<1>6. \A c \in Channel : \A r, s \in log'[c] : r.id = s.id => r = s
  BY <1>3, <1>4 DEF Unique
<1>7. seen' \in [Channel -> SUBSET Time]
  BY <1>2 DEF Snapshot, TypeOK
<1>8. last' \in [Channel -> [ts : Time, value : Value \cup {Absent}]]
  BY <1>2 DEF Snapshot, TypeOK, Observation
<1> QED BY <1>1, <1>5, <1>6, <1>7, <1>8 DEF TypeOK

\* What a snapshot does to one channel, on a clock that is never set back.
LEMMA SnapshotOfChannel ==
  ASSUME IInv, Steady, NEW o \in Observation, Snapshot(o), NEW c \in Channel
  PROVE  /\ Faithful(c)'
         /\ o[c] # Absent => last'[c] = [ts |-> clock, value |-> o[c]]
         /\ o[c] = Absent => last'[c] = last[c]
         /\ o[c] # Absent /\ o[c] # last[c].value =>
              \E r \in log'[c] : r.ts = clock /\ r.value = o[c]
         /\ \A t \in seen'[c] : ValueAsOf(log'[c], t) =
              IF t = clock /\ o[c] # Absent THEN o[c] ELSE ValueAsOf(log[c], t)
<1> DEFINE times == seen[c] \cup (IF o[c] # Absent THEN {clock} ELSE {})
           mid   == IF o[c] # Absent THEN Inserted(log[c], clock, o[c]) ELSE log[c]
           l     == IF o[c] # Absent THEN [ts |-> clock, value |-> o[c]] ELSE last[c]
<1>1. /\ clock \in Time /\ clock \in Nat
      /\ log[c] \in SUBSET Row /\ seen[c] \in SUBSET Time /\ seen[c] \subseteq Int
      /\ Faithful(c)
  BY ConstantsAssumption DEF IInv, TypeOK, Time
<1>2. /\ log'[c] = Pruned(mid, clock)
      /\ seen'[c] = {t \in times : t >= Cutoff(clock)}
      /\ last'[c] = l
      /\ clock' = clock
      /\ o[c] # Absent => NewIds(log[c]) # {}
  BY DEF Snapshot
<1>3. o[c] # Absent => o[c] \in Value
  BY DEF Observation
<1>4. /\ Stands(mid, times, l, clock)
      /\ \A t \in times : ValueAsOf(mid, t) =
           IF t = clock /\ o[c] # Absent THEN o[c] ELSE ValueAsOf(log[c], t)
      /\ o[c] # Absent /\ o[c] # last[c].value =>
           \E r \in mid : r.ts = clock /\ r.value = o[c]
  <2>1. CASE o[c] # Absent
    <3> DEFINE new == Inserted(log[c], clock, o[c])
    <3>1. /\ mid = new
          /\ times = seen[c] \cup {clock}
          /\ l = [ts |-> clock, value |-> o[c]]
      BY <2>1
    <3>2. Stands(log[c], seen[c], last[c], clock) /\ NewIds(log[c]) # {} /\ o[c] \in Value
      BY <1>1, <1>2, <1>3, <2>1 DEF Faithful
    <3> HIDE DEF mid, times, l
    <3>3. Stands(new, seen[c] \cup {clock}, [ts |-> clock, value |-> o[c]], clock)
      BY <1>1, <3>2, RecordChannel
    <3>4. ValueAsOf(new, clock) = o[c]
      BY <1>1, <3>2, RecordAnswers
    <3>5. last[c].value # o[c] => \E r \in new : r.ts = clock /\ r.value = o[c]
      BY <1>1, <3>2, RecordedRow
    <3>6. \A t \in seen[c] : t < clock => AsOf(new, t) = AsOf(log[c], t)
      BY <1>1, <3>2, RecordKeepsAnswers
    <3> HIDE DEF new
    <3>7. \A t \in seen[c] : t = clock \/ t < clock
      BY <1>1 DEF Faithful, Stands, Readable
    <3>8. \A t \in times : ValueAsOf(new, t) =
            IF t = clock THEN o[c] ELSE ValueAsOf(log[c], t)
      BY <3>1, <3>4, <3>6, <3>7, SameAnswer
    <3> QED BY <2>1, <3>1, <3>3, <3>5, <3>8
  <2>2. CASE o[c] = Absent
    BY <1>1, <2>2 DEF Faithful
  <2> QED BY <2>1, <2>2
<1>5. times \in SUBSET Time
  BY <1>1
<1> HIDE DEF mid, times, l
<1>6. /\ Faithful(c)'
      /\ \A t \in seen'[c] : t \in times /\ AsOf(log'[c], t) = AsOf(mid, t)
  <2> DEFINE kept == {t \in times : t >= Cutoff(clock)}
  <2>1. /\ Stands(Pruned(mid, clock), kept, l, clock)
        /\ \A t \in kept : AsOf(Pruned(mid, clock), t) = AsOf(mid, t)
    BY <1>1, <1>4, <1>5, PruneChannel
  <2> QED BY <1>2, <2>1 DEF Faithful
<1>7. \A t \in seen'[c] : ValueAsOf(log'[c], t) = ValueAsOf(mid, t)
  BY <1>6, SameAnswer
<1>8. \A r \in mid : r.ts = clock => r \in log'[c]
  BY <1>1, <1>2, <1>4, PrunedRows DEF Stands, Ordered
<1> QED BY <1>2, <1>4, <1>6, <1>7, <1>8 DEF l

(***************************************************************************)
(* The theorems.                                                           *)
(***************************************************************************)

\* The invariant holds initially and is kept by every step: a snapshot works on
\* each channel alone, and a tick only makes its rows older.
LEMMA InitIInv == Init => IInv
<1> SUFFICES ASSUME Init PROVE IInv
  OBVIOUS
<1>1. clock \in Time /\ clock \in Nat
  BY ConstantsAssumption DEF Init, Time
<1>2. TypeOK
  BY <1>1, ConstantsAssumption DEF Init, TypeOK, Never, Time
<1>3. \A c \in Channel : log[c] = {} /\ seen[c] = {} /\ last[c] = Never
  BY DEF Init
<1>4. \A c \in Channel : Faithful(c)
  BY <1>1, <1>3 DEF Faithful, Stands, Ordered, Unique, Spaced, Tracks, Readable, Never
<1> QED BY <1>2, <1>3, <1>4 DEF IInv

\* Every step does what is said above to each channel, so it keeps the invariant.
LEMMA NextIInv == IInv /\ [Next]_vars => IInv'
<1> SUFFICES ASSUME IInv, [Next]_vars PROVE IInv'
  OBVIOUS
<1>1. /\ TypeOK /\ scenario \in Scenarios
      /\ clock \in Nat /\ scenario.stepBack \in Nat /\ scenario.until \in 0..MaxTime
  BY ConstantsAssumption DEF IInv, TypeOK, Time
<1>2. CASE Tick
  <2>1. clock' = clock + 1 /\ clock' \in Time
    BY <1>1, <1>2, ConstantsAssumption DEF Tick, Time
  <2>2. TypeOK'
    BY <1>1, <1>2, <2>1 DEF Tick, TypeOK
  <2>3. ASSUME NEW c \in Channel, Faithful(c) PROVE Faithful(c)'
    <3>1. /\ \A r \in log[c] : r.ts \in Int
          /\ last[c].ts \in Int /\ seen[c] \subseteq Int
      BY <1>1, ConstantsAssumption DEF TypeOK, Row, Time
    <3>2. UNCHANGED <<log, seen, last>>
      BY <1>2 DEF Tick
    <3> USE DEF Faithful, Stands
    <3>3. Ordered(log[c], clock')
      BY <1>1, <2>1, <2>3, <3>1 DEF Ordered
    <3>4. Tracks(log[c], last[c], clock') /\ Readable(log[c], seen[c], clock')
      BY <1>1, <2>1, <2>3, <3>1 DEF Tracks, Readable
    <3> QED BY <2>3, <3>2, <3>3, <3>4
  <2> QED BY <1>2, <2>2, <2>3 DEF Tick, IInv, Steady
<1>3. CASE SetClockBack
  <2>1. ~Steady
    BY <1>1, <1>3 DEF SetClockBack, Steady
  <2>2. clock' \in Time
    BY <1>1, <1>3, ConstantsAssumption DEF SetClockBack, TypeOK, Time
  <2> QED BY <1>1, <1>3, <2>1, <2>2 DEF SetClockBack, IInv, TypeOK, Steady
<1>4. CASE \E o \in Observation : Snapshot(o)
  <2>1. PICK o \in Observation : Snapshot(o)
    BY <1>4
  <2>2. TypeOK'
    BY <1>1, <2>1, SnapshotTypes
  <2>3. Steady' = Steady
    BY <2>1 DEF Snapshot, Steady
  <2>4. Steady => \A c \in Channel : Faithful(c)'
    BY <2>1, SnapshotOfChannel
  <2>5. ~Steady => \A c \in Channel : seen'[c] = {}
    BY <2>1 DEF Snapshot, IInv
  <2> QED BY <2>2, <2>3, <2>4, <2>5 DEF IInv
<1>5. CASE UNCHANGED vars
  BY <1>5 DEF vars, IInv, TypeOK, Steady, Faithful
<1> QED BY <1>2, <1>3, <1>4, <1>5 DEF Next

\* In every reachable state rows have unique ids and the right types, and on a
\* steady clock the rows of each channel stand for what was observed of it.
THEOREM InductiveInvariant == Spec => []IInv
BY InitIInv, NextIInv, PTL DEF Spec

\* Every row has an id of its own; on a steady clock the latest row of a channel
\* is never a checkpoint interval older than its latest observation, and no row is
\* stored in vain, before and after pruning.
THEOREM LogIsChangeOnly == Spec => []ChangeOnly
<1>1. IInv => ChangeOnly
  <2> SUFFICES ASSUME IInv PROVE ChangeOnly
    OBVIOUS
  <2>1. CheckpointFresh
    BY DEF CheckpointFresh, IInv, Faithful, Stands, Tracks, Newest
  <2>2. NoRedundantRow
    BY DEF NoRedundantRow, IInv, Faithful, Stands, Spaced
  <2> QED BY <2>1, <2>2 DEF ChangeOnly, IInv
<1> QED BY <1>1, InductiveInvariant, PTL

\* A snapshot that finds another value than the one before stores it, for every
\* value and however much pruning happens in the same transaction.
THEOREM ChangesAreRecorded == Spec => RecordedWhenChanged
<1>1. ASSUME IInv, [Next]_vars, Steady, NEW c \in Channel,
             last'[c].value # last[c].value
      PROVE  \E r \in log'[c] : r.ts = last'[c].ts /\ r.value = last'[c].value
  <2>1. CASE \E o \in Observation : Snapshot(o)
    <3>1. PICK o \in Observation : Snapshot(o)
      BY <2>1
    <3>2. o[c] # Absent /\ last'[c] = [ts |-> clock, value |-> o[c]]
      BY <1>1, <3>1, SnapshotOfChannel
    <3>3. \E r \in log'[c] : r.ts = clock /\ r.value = o[c]
      BY <1>1, <3>1, <3>2, SnapshotOfChannel
    <3> QED BY <3>2, <3>3
  <2>2. CASE Tick \/ SetClockBack \/ UNCHANGED vars
    BY <1>1, <2>2 DEF Tick, SetClockBack, vars
  <2> QED BY <1>1, <2>1, <2>2 DEF Next
<1>2. IInv /\ [Next]_vars =>
        [Steady => \A c \in Channel :
           last'[c].value # last[c].value =>
             \E r \in log'[c] : r.ts = last'[c].ts /\ r.value = last'[c].value]_vars
  BY <1>1
<1> QED BY <1>2, InductiveInvariant, PTL DEF Spec, RecordedWhenChanged

\* A snapshot leaves one baseline per channel from before its window and never
\* deletes the row inserted last, however the wall clock was set.
THEOREM BaselineStays == Spec => OneBaselineStays
<1>1. ASSUME IInv, [Next]_vars, NEW c \in Channel
      PROVE  /\ log' # log => Cardinality({r \in log'[c] : r.ts < Cutoff(clock)}) <= 1
             /\ \A r \in log[c] : (\A s \in log[c] : s.id <= r.id) => r \in log'[c]
  <2>1. CASE \E o \in Observation : Snapshot(o)
    <3>1. PICK o \in Observation : Snapshot(o)
      BY <2>1
    <3> DEFINE mid == IF o[c] # Absent THEN Inserted(log[c], clock, o[c]) ELSE log[c]
    <3>2. /\ log'[c] = Pruned(mid, clock)
          /\ o[c] # Absent => NewIds(log[c]) # {} /\ o[c] \in Value
      BY <3>1 DEF Snapshot, Observation
    <3>3. /\ clock \in Time /\ clock \in Nat
          /\ log[c] \in SUBSET Row /\ Unique(log[c])
      BY <1>1, ConstantsAssumption DEF IInv, TypeOK, Time, Unique
    <3>4. \A r \in Row : r.id \in Int /\ r.ts \in Int
      BY ConstantsAssumption DEF Row, Time
    <3>5. \/ mid = log[c]
          \/ \E n \in Row : /\ mid = log[c] \cup {n}
                            /\ n.ts = clock
                            /\ \A r \in log[c] : r.id < n.id
      BY <3>2, <3>3, InsertedRows
    <3> HIDE DEF mid
    <3>6. mid \in SUBSET Row /\ Unique(mid)
      BY <3>3, <3>4, <3>5 DEF Unique
    <3>7. Cardinality({r \in log'[c] : r.ts < Cutoff(clock)}) <= 1
      BY <3>2, <3>3, <3>6, OneBaseline
    <3>8. ASSUME NEW r \in log[c], \A s \in log[c] : s.id <= r.id
          PROVE  r \in log'[c]
      <4>1. \A s \in mid : s.ts < Cutoff(clock) => s.id <= r.id
        BY <3>3, <3>4, <3>5, <3>8, PrunedRows
      <4> QED BY <3>2, <3>5, <4>1 DEF Pruned
    <3> QED BY <3>7, <3>8
  <2>2. CASE Tick \/ SetClockBack \/ UNCHANGED vars
    BY <2>2 DEF Tick, SetClockBack, vars
  <2> QED BY <1>1, <2>1, <2>2 DEF Next
<1>2. IInv /\ [Next]_vars =>
        [\A c \in Channel :
           /\ log' # log => Cardinality({r \in log'[c] : r.ts < Cutoff(clock)}) <= 1
           /\ \A r \in log[c] : (\A s \in log[c] : s.id <= r.id) => r \in log'[c]]_vars
  BY <1>1
<1> QED BY <1>2, InductiveInvariant, PTL DEF Spec, OneBaselineStays

\* The change-only log implements the history it stands for: a step of the program
\* is an observation that a reader can ask for while its moment is in the window,
\* or changes no answer.
THEOREM HistoryIsImplemented == Spec => ImplementsHistory
<1> DEFINE Answers(c) == [t \in seen[c] |-> ValueAsOf(log[c], t)]
           history    == [c \in Channel |-> Answers(c)]
<1>1. Init => History!Init
  <2> SUFFICES ASSUME Init
               PROVE  history = [c \in Channel |-> [t \in {} |-> Absent]]
    BY DEF History!Init
  <2>1. \A c \in Channel : seen[c] = {}
    BY DEF Init
  <2>2. \A c \in Channel : Answers(c) = [t \in {} |-> Absent]
    BY <2>1
  <2> QED BY <2>2
<1>2. IInv /\ [Next]_vars => [History!Next]_history
  <2> SUFFICES ASSUME IInv, [Next]_vars PROVE [History!Next]_history
    OBVIOUS
  <2>1. ASSUME UNCHANGED <<log, seen>> PROVE UNCHANGED history
    BY <2>1
  <2>2. CASE \E o \in Observation : Snapshot(o)
    <3>1. PICK o \in Observation : Snapshot(o)
      BY <2>2
    <3>2. CASE Steady
      <4>1. clock \in Time /\ o \in [Channel -> Value \cup {Absent}]
        BY DEF IInv, TypeOK, Observation
      <4>2. ASSUME NEW c \in Channel
            PROVE  Answers(c)' =
                     [t \in History!Kept(c, o, clock) |->
                        IF t = clock /\ o[c] # Absent THEN o[c] ELSE history[c][t]]
        <5>1. seen'[c] = History!Kept(c, o, clock)
          <6>1. \A t \in Time : t >= Cutoff(clock) <=> t + Retention >= clock
            BY <4>1, ConstantsAssumption DEF Cutoff, Minus, Time
          <6>2. seen[c] \subseteq Time /\ DOMAIN history[c] = seen[c]
            BY DEF IInv, TypeOK
          <6>3. seen'[c] = {t \in seen[c] \cup (IF o[c] = Absent THEN {} ELSE {clock}) :
                              t >= Cutoff(clock)}
            BY <3>1, <3>2 DEF Snapshot
          <6> QED BY <4>1, <6>1, <6>2, <6>3 DEF History!Kept
        <5>2. \A t \in seen'[c] : ValueAsOf(log'[c], t) =
                IF t = clock /\ o[c] # Absent THEN o[c] ELSE ValueAsOf(log[c], t)
          BY <3>1, <3>2, SnapshotOfChannel
        <5>3. \A t \in seen'[c] : t \in seen[c] \/ (t = clock /\ o[c] # Absent)
          BY <3>1 DEF Snapshot
        <5> QED BY <5>1, <5>2, <5>3
      <4>3. History!Observe(clock, o)
        BY <4>2 DEF History!Observe
      <4> QED BY <4>1, <4>3 DEF History!Next
    <3>3. CASE ~Steady
      <4>1. \A c \in Channel : seen[c] = {} /\ seen'[c] = {}
        BY <3>1, <3>3 DEF IInv, Snapshot
      <4>2. \A c \in Channel : Answers(c)' = Answers(c)
        BY <4>1
      <4> QED BY <4>2
    <3> QED BY <3>2, <3>3
  <2>3. CASE Tick \/ SetClockBack \/ UNCHANGED vars
    BY <2>1, <2>3 DEF Tick, SetClockBack, vars
  <2> QED BY <2>2, <2>3 DEF Next
<1> QED BY <1>1, <1>2, InductiveInvariant, PTL DEF Spec, ImplementsHistory, History!Spec

================================================================================
