----------------------------- MODULE HistoryPages -----------------------------
(***************************************************************************)
(* Reading the history of cln-history page by page (db.rs: load_samples    *)
(* behind cln-history-channels and cln-history-htlcs, events,              *)
(* forward_pairs and probe_events), while the collector and the            *)
(* notification handlers keep writing.                                     *)
(*                                                                         *)
(* `rows' is the table one reader pages through: channel_samples,          *)
(* channel_events, probe_events, or the forwards that were counted into    *)
(* forward_pair_buckets.  AUTOINCREMENT makes a row's id its place in the  *)
(* order of insertion; its ts is the second its observation began, which   *)
(* for the collector is before the RPCs it waits for (collect_once) and    *)
(* for a probe is the time its emitter put in it; a forward has that of    *)
(* the start of its bucket.                                                *)
(*                                                                         *)
(* The wall clock does not go back here (SampleLog is about that) and the  *)
(* ranges lie inside the retention window, so no row is pruned.            *)
(***************************************************************************)
EXTENDS Naturals, Sequences, FiniteSets, SequencesExt, Listing

CONSTANTS
    Keys,      \* the channels of the history
               \* (the pair of channels of a forward, the route of a probe)
    Queries,   \* the reads considered: [kind, interval, limit, open], `open' for
               \* a range without an end, and two bounds: `lag' on the seconds
               \* between a row's time and its commit, `until' on the clock
    Forwards,  \* FORWARD_BUCKET_SECONDS
    MaxHtlcs,  \* bound: pending HTLCs of one channel
    MaxTime,   \* bound: seconds
    MaxRows    \* bound: rows of the table

Snapshots == {"channels", "htlcs", "events"}
Groups == {"pairs", "routes"}
Kinds == Snapshots \cup Groups \cup {"probes"}

ASSUME QueriesAssumption ==
    /\ IsFiniteSet(Keys)
    /\ Forwards \in Nat \ {0}
    /\ {MaxHtlcs, MaxTime, MaxRows} \subseteq Nat
    /\ Queries \subseteq [kind: Kinds, interval: Nat, limit: Nat \ {0}, open: BOOLEAN,
                          lag: Nat, until: 0..MaxTime]
    /\ \A q \in Queries : q.kind \in Groups => q.interval > 0

VARIABLES
    clock,
    rows,      \* the table, in the order of ids
    begun,     \* collected_at of the snapshot in flight, or Idle
    query,     \* what the reader asks for
    reader     \* its range, cursor and what its pages returned

vars == <<clock, rows, begun, query, reader>>

Idle == MaxTime + 1
Row == [ts: 0..MaxTime, key: Keys, htlcs: 0..MaxHtlcs]
NoRead == [phase |-> "new", start |-> 0, end |-> 0, cursor |-> 0,
           got |-> <<>>, pages |-> 0, seen |-> 0, horizon |-> 0]
Phases == {"new", "reading", "done"}

Latest(S) == CHOOSE i \in S : \A j \in S : j <= i
Earliest(S) == CHOOSE i \in S : \A j \in S : i <= j
Lesser(x, y) == IF x < y THEN x ELSE y
Minus(x, y) == IF x > y THEN x - y ELSE 0

-----------------------------------------------------------------------------
(* One query.                                                              *)

Within(start, end) == {i \in DOMAIN rows : rows[i].ts \in start..end}

\* A broken build that repeats the last row of a page.
BeyondInclusive(S, cursor) == {i \in S : i >= cursor}

\* What a page goes on with: ids above the cursor.
Beyond(S, cursor) == {i \in S : i > cursor}

\* A broken build without baselines.
BaselinesNone(start, cursor) == {}

\* The last row of each channel before the range, on the first page only.
Baselines(start, cursor) ==
    LET Before(k) == {i \in DOMAIN rows : rows[i].key = k /\ rows[i].ts < start}
    IN  IF cursor = 0 THEN {Latest(Before(k)) : k \in {c \in Keys : Before(c) # {}}}
                      ELSE {}

Bucket(i, start, interval) == (rows[i].ts - start) \div interval

\* A broken build that keeps the first row of a bucket.
RepresentativeFirst(S, kind) == Earliest(S)

\* The row that stands for a bucket, in the order (ts, id): the last one of a
\* channel's states, the last among the busiest for HTLCs.
Representative(S, kind) ==
    Latest(IF kind = "htlcs" THEN {i \in S : \A j \in S : rows[j].htlcs <= rows[i].htlcs}
                             ELSE S)

Bucketed(S, start, kind, interval) ==
    IF interval = 0 THEN S
    ELSE LET Mates(i) == {j \in S : /\ rows[j].key = rows[i].key
                                    /\ Bucket(j, start, interval) = Bucket(i, start, interval)}
         IN  {Representative(Mates(i), kind) : i \in S}

\* load_samples, before the page is cut.
SampleResult(q, start, end, cursor) ==
    LET kept == {i \in Beyond(Within(start, end), cursor) :
                     q.kind = "htlcs" => rows[i].htlcs > 0}
    IN  Listing(Bucketed(kept, start, q.kind, q.interval) \cup Baselines(start, cursor),
                LAMBDA i, j : i < j)

\* events, and probe_events without an interval, before the page is cut: ordered
\* by time, continued by id.
EventResult(start, end, cursor) ==
    Listing(Beyond(Within(start, end), cursor),
            LAMBDA i, j : \/ rows[i].ts < rows[j].ts
                          \/ rows[i].ts = rows[j].ts /\ i < j)

Period(i, interval) == (rows[i].ts \div interval) * interval

\* The order of the keys of Keys, as strings are ordered.
KeyOrder == SetToSeq(Keys)
Place(k) == CHOOSE n \in DOMAIN KeyOrder : KeyOrder[n] = k

\* A broken build that orders the groups by key, then by period.
ByKey(i, j, interval) ==
    \/ Place(rows[i].key) < Place(rows[j].key)
    \/ rows[i].key = rows[j].key /\ Period(i, interval) < Period(j, interval)

\* ORDER BY period, in_channel, out_channel, ...; the BTreeMap's key order.
ByPeriod(i, j, interval) ==
    \/ Period(i, interval) < Period(j, interval)
    \/ /\ Period(i, interval) = Period(j, interval)
       /\ Place(rows[i].key) < Place(rows[j].key)

\* The rows of the range with row i's period and key.
GroupOf(i, start, end, interval) ==
    {j \in Within(start, end) : /\ Period(j, interval) = Period(i, interval)
                               /\ rows[j].key = rows[i].key}

\* forward_pairs, and probe_events with an interval: the groups, each as the set
\* of the rows it sums up.  The cursor is the number of groups to skip.
GroupResult(q, start, end, cursor) ==
    LET groups == {GroupOf(i, start, end, q.interval) : i \in Within(start, end)}
        listed == Listing(groups, LAMBDA g, h :
                              ByPeriod(Earliest(g), Earliest(h), q.interval))
    IN  SubSeq(listed, cursor + 1, Len(listed))

Result(q, start, end, cursor) ==
    CASE q.kind \in {"channels", "htlcs"} -> SampleResult(q, start, end, cursor)
      [] q.kind \in {"events", "probes"} -> EventResult(start, end, cursor)
      [] OTHER -> GroupResult(q, start, end, cursor)

\* A broken build that keeps the row read to tell whether there are more.
CutOneMore(s, limit) == SubSeq(s, 1, IF Len(s) > limit THEN limit + 1 ELSE Len(s))

\* truncate(limit)
Cut(s, limit) == SubSeq(s, 1, IF Len(s) > limit THEN limit ELSE Len(s))

-----------------------------------------------------------------------------
(* The writers.                                                            *)

Init ==
    /\ clock = 0
    /\ rows = <<>>
    /\ begun = Idle
    /\ query \in Queries
    /\ reader = NoRead

Tick ==
    /\ clock < query.until
    /\ begun # Idle => clock - begun < query.lag
    /\ clock' = clock + 1
    /\ UNCHANGED <<rows, begun, query, reader>>

\* collect_once: collected_at is read before the RPCs.
BeginCollect ==
    /\ query.kind \in Snapshots
    /\ begun = Idle
    /\ begun' = clock
    /\ UNCHANGED <<clock, rows, query, reader>>

\* The transaction of record_channel_snapshot: a row for each channel that
\* changed (a lifecycle event, in the table of events), in the response's order.
Commit ==
    /\ begun # Idle
    /\ \E order \in UNION {SetToSeqs(S) : S \in SUBSET Keys} :
         \E htlcs \in [Keys -> IF query.kind = "htlcs" THEN 0..MaxHtlcs ELSE {0}] :
            /\ Len(rows) + Len(order) <= MaxRows
            /\ rows' = rows \o [i \in DOMAIN order |->
                          [ts |-> begun, key |-> order[i], htlcs |-> htlcs[order[i]]]]
    /\ begun' = Idle
    /\ UNCHANGED <<clock, query, reader>>

\* The time of a row that is recorded now: a forward has that of its bucket, a
\* probe what its emitter says, anything else that of its arrival.
Times ==
    CASE query.kind = "pairs" -> {(clock \div Forwards) * Forwards}
      [] query.kind \in {"probes", "routes"} -> Minus(clock, query.lag)..clock
      [] OTHER -> {clock}

\* channel_state_changed, connect or disconnect; a forward; the result of a probe.
Notify ==
    /\ query.kind \notin {"channels", "htlcs"}
    /\ Len(rows) < MaxRows
    /\ \E k \in Keys, ts \in Times : rows' = Append(rows, [ts |-> ts, key |-> k, htlcs |-> 0])
    /\ UNCHANGED <<clock, begun, query, reader>>

-----------------------------------------------------------------------------
(* The reader.                                                             *)

\* The reader after one more page of the same query.
Turned(r) ==
    LET all  == Result(query, r.start, IF query.open THEN clock ELSE r.end, r.cursor)
        more == Len(all) > query.limit
        page == Cut(all, query.limit)
    IN  [r EXCEPT !.got = @ \o page,
                  !.pages = @ + 1,
                  !.cursor = IF ~more THEN @
                             ELSE IF query.kind \in Groups THEN @ + Len(page) ELSE Last(page),
                  !.phase = IF more THEN "reading" ELSE "done"]

\* The first request of a read.  `seen' and `horizon' are history variables: the
\* rows it saw, and the time from which on the writers could still add to its range.
FirstPage ==
    /\ reader.phase = "new"
    /\ \E start \in 0..query.until :
         \E end \in IF query.open THEN start..clock \cap {clock} ELSE start..query.until :
           reader' = Turned([NoRead EXCEPT !.start = start, !.end = end,
                                !.seen = Len(rows),
                                !.horizon = Lesser(end + 1,
                                    IF begun = Idle THEN Earliest(Times) ELSE begun)])
    /\ UNCHANGED <<clock, rows, begun, query>>

NextPage ==
    /\ reader.phase = "reading"
    /\ reader' = Turned(reader)
    /\ UNCHANGED <<clock, rows, begun, query>>

\* The caller turns to another read.
Leave ==
    /\ reader.phase = "done"
    /\ reader' = NoRead
    /\ UNCHANGED <<clock, rows, begun, query>>

Next == Tick \/ BeginCollect \/ Commit \/ Notify \/ FirstPage \/ NextPage \/ Leave

Spec == Init /\ [][Next]_vars

-----------------------------------------------------------------------------
(* Properties.                                                             *)

\* The type invariant; a page holds at most `limit' rows, and exactly that
\* many when it says has_more (db.rs:1475-1476).
TypeOK ==
    /\ clock \in 0..MaxTime
    /\ begun \in 0..MaxTime \cup {Idle}
    /\ query \in Queries
    /\ Len(rows) <= MaxRows /\ rows \in Seq(Row)
    /\ reader.phase \in Phases
    /\ reader.got \in Seq(IF query.kind \in Groups THEN SUBSET DOMAIN rows ELSE DOMAIN rows)
    /\ reader.cursor \in 0..Len(rows)
    /\ Len(reader.got) <= reader.pages * query.limit
    /\ reader.phase = "reading" => Len(reader.got) = reader.pages * query.limit

Got == {reader.got[n] : n \in DOMAIN reader.got}
NoRepeats == Cardinality(Got) = Len(reader.got)
Settled == reader.end < reader.horizon

\* The states of a channel, and its bucketed states, as of the first request.
UpTo(k, t) == {i \in 1..reader.seen : rows[i].key = k /\ rows[i].ts <= t}
InBucket(k, b) ==
    {i \in Within(reader.start, reader.end) :
        /\ rows[i].key = k
        /\ Bucket(i, reader.start, query.interval) = b
        /\ query.kind = "htlcs" => rows[i].htlcs > 0}

\* ReadsBack: whoever follows the cursors of cln-history-channels to the end
\* can tell the state of every channel at every second of the range as of the
\* first request, whatever was recorded meanwhile, and gets no row twice.  The
\* baselines, which only the first page has, make it hold at the left edge.
ReadsBack ==
    (query.kind = "channels" /\ query.interval = 0) =>
        /\ NoRepeats
        /\ reader.phase = "done" =>
              \A k \in Keys, t \in reader.start..reader.end :
                  UpTo(k, t) # {} => Latest(UpTo(k, t)) \in Got

\* EveryBucketOnce: with an interval, over a range that is settled, the pages
\* together show each bucket that has rows once, by the channel's last state in
\* it, or by its busiest for HTLCs.
EveryBucketOnce ==
    LET Shown(k, b) == Got \cap InBucket(k, b)
        Right(S, i) == IF query.kind = "htlcs" THEN \A j \in S : rows[j].htlcs <= rows[i].htlcs
                                               ELSE i = Latest(S)
    IN  /\ query.kind \in {"channels", "htlcs"} /\ query.interval > 0
        /\ reader.phase = "done" /\ Settled
        =>
           \A k \in Keys, b \in 0..MaxTime :
               InBucket(k, b) # {} =>
                   \E i \in InBucket(k, b) : Shown(k, b) = {i} /\ Right(InBucket(k, b), i)

\* EventsAllListed: whoever follows the cursors of cln-history-events, or of
\* cln-history-probes without an interval, to the end sees every event that was
\* recorded in the range at the first request, and none twice.  The pages are
\* ordered by time and continued by id, so this needs the two orders to agree.
EventsAllListed ==
    query.kind \in {"events", "probes"} =>
        /\ NoRepeats
        /\ reader.phase = "done" =>
              Within(reader.start, reader.end) \cap 1..reader.seen \subseteq Got

\* ClosedPeriodsOnce: whoever adds up the pages of cln-history-pairs, or of
\* cln-history-probes with an interval, has every row of a period that was over
\* at the first request exactly once, in one group that is complete, although
\* the cursor is an offset into a list that every page computes anew.
ClosedPeriodsOnce ==
    LET Closed(i) == Settled \/ Period(i, query.interval) + query.interval <= reader.horizon
    IN  (query.kind \in Groups /\ reader.phase = "done") =>
           \A i \in {j \in Within(reader.start, reader.end) : Closed(j)} :
               \E n \in DOMAIN reader.got :
                   /\ reader.got[n] = GroupOf(i, reader.start, reader.end, query.interval)
                   /\ \A m \in DOMAIN reader.got \ {n} : i \notin reader.got[m]

=============================================================================
