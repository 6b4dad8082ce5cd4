------------------------------- MODULE SampleLog -------------------------------
(***************************************************************************)
(* The table channel_samples of cln-history: a change-only log.            *)
(* A snapshot inserts a row for a channel only when its sample differs     *)
(* from the latest row or that row is CHECKPOINT_SECONDS old, and prunes   *)
(* rows older than the retention window except one baseline per channel.   *)
(* Readers rebuild the value at any time from the last row before it.      *)
(*                                                                         *)
(* A channel is its resolved identity here (module ChannelIdentity) and a  *)
(* value stands for all the columns PartialEq compares.  Snapshots come    *)
(* from one sequential loop and are transactions: a crash or a failure     *)
(* before the commit leaves no trace, so a snapshot is one step, and a     *)
(* restart, which polls at once, may put two of them in one second.        *)
(***************************************************************************)
EXTENDS Integers, FiniteSets

CONSTANTS
  Channel,
  Value,
  Absent,         \* a channel listpeerchannels does not list
  Checkpoint,     \* CHECKPOINT_SECONDS
  Retention,      \* retention_seconds
  Scenarios,      \* how many seconds the wall clock may be set back at once, and
                  \* a bound on its time, as [stepBack, until]
  MaxTime,        \* bound on all wall clocks
  MaxId           \* bound on the rows inserted for a channel

ASSUME ConstantsAssumption ==
  /\ Absent \notin Value
  /\ Checkpoint \in Nat \ {0}
  /\ Retention \in Nat \ {0}
  /\ Scenarios \subseteq [stepBack : Nat, until : 0..MaxTime]
  /\ MaxTime \in Nat
  /\ MaxId \in Nat

VARIABLES
  scenario,   \* the member of Scenarios this behaviour is about
  clock,      \* the wall clock, in seconds
  log,        \* for every channel, its rows of channel_samples
  seen,       \* history: for every channel, the times promised to readers
  last        \* history: for every channel, its latest observation

vars == <<scenario, clock, log, seen, last>>

\* A wall clock that is set back may file a new sample before an old one: what
\* is said below of the order of samples, and promised to readers, is about
\* clocks that are not.
Steady == scenario.stepBack = 0

Time        == 0..MaxTime
Row         == [id : 1..MaxId, ts : Time, value : Value]
Observation == [Channel -> Value \cup {Absent}]
Never       == [ts |-> 0, value |-> Absent]

\* Saturating subtraction.
Minus(x, y) == IF x > y THEN x - y ELSE 0

\* ORDER BY ts DESC, id DESC
After(r, s) == r.ts > s.ts \/ (r.ts = s.ts /\ r.id > s.id)

\* latest_sample: {} when there is none.
Latest(rows) == {r \in rows : \A s \in rows \ {r} : After(r, s)}

\* What a reader of load_samples takes for the value at time t: the last row of
\* the range up to t, or the baseline, the last row before the range.
AsOf(rows, t) == Latest({r \in rows : r.ts <= t})

\* AUTOINCREMENT: ids only grow (the largest id of a channel is never pruned).
NewIds(rows) ==
  {i \in 1..MaxId : /\ \A r \in rows : r.id < i
                    /\ i = 1 \/ \E r \in rows : r.id = i - 1}

\* A broken build without the hourly checkpoint.
DueOnlyOnChange(rows, ts, v) == \A p \in Latest(rows) : p.value # v

\* A broken build that stores checkpoints only.
DueOnlyByCheckpoint(rows, ts, v) ==
  \A p \in Latest(rows) : Minus(ts, p.ts) >= Checkpoint

\* record_sample's `changed || should_checkpoint`.
Due(rows, ts, v) ==
  \A p \in Latest(rows) : p.value # v \/ Minus(ts, p.ts) >= Checkpoint

Inserted(rows, ts, v) ==
  IF Due(rows, ts, v)
  THEN rows \cup {[id |-> i, ts |-> ts, value |-> v] : i \in NewIds(rows)}
  ELSE rows

Cutoff(ts) == Minus(ts, Retention)

\* A broken build that keeps no baseline.
PrunedWithoutBaseline(rows, ts) == {r \in rows : r.ts >= Cutoff(ts)}

\* prune: of the rows before the cutoff, only the one with the largest id stays.
Pruned(rows, ts) ==
  {r \in rows : \/ r.ts >= Cutoff(ts)
                \/ \A s \in rows : s.ts < Cutoff(ts) => s.id <= r.id}

(***************************************************************************)
(* Actions.                                                                *)
(***************************************************************************)

Tick ==
  /\ clock < scenario.until
  /\ clock' = clock + 1
  /\ UNCHANGED <<scenario, log, seen, last>>

\* The wall clock is set back; now() reads it with SystemTime.
SetClockBack ==
  /\ \E n \in 1..scenario.stepBack : n <= clock /\ clock' = clock - n
  /\ UNCHANGED <<scenario, log, seen, last>>

\* record_channel_snapshot_at_height of an observation made at ts = clock.
Snapshot(o) ==
  LET listed == {c \in Channel : o[c] # Absent}
  IN /\ \A c \in listed : NewIds(log[c]) # {}
     /\ log' = [c \in Channel |->
                  Pruned(IF c \in listed THEN Inserted(log[c], clock, o[c])
                         ELSE log[c], clock)]
     /\ seen' = [c \in Channel |->
                   {t \in seen[c] \cup (IF c \in listed /\ Steady THEN {clock} ELSE {}) :
                      t >= Cutoff(clock)}]
     /\ last' = [c \in Channel |->
                   IF c \in listed THEN [ts |-> clock, value |-> o[c]]
                   ELSE last[c]]
     /\ UNCHANGED <<scenario, clock>>

Init ==
  /\ scenario \in Scenarios
  /\ clock \in 0..scenario.until
  /\ log = [c \in Channel |-> {}]
  /\ seen = [c \in Channel |-> {}]
  /\ last = [c \in Channel |-> Never]

Next ==
  \/ Tick
  \/ SetClockBack
  \/ \E o \in Observation : Snapshot(o)

Spec == Init /\ [][Next]_vars

(***************************************************************************)
(* Properties.                                                             *)
(***************************************************************************)

\* The types of the state; ids are unique within a channel.
TypeOK ==
  /\ scenario \in Scenarios
  /\ clock \in Time
  /\ log \in [Channel -> SUBSET Row]
  /\ \A c \in Channel : \A r, s \in log[c] : r.id = s.id => r = s
  /\ seen \in [Channel -> SUBSET Time]
  /\ last \in [Channel -> [ts : Time, value : Value \cup {Absent}]]

ValueAsOf(rows, t) ==
  IF AsOf(rows, t) = {} THEN Absent ELSE (CHOOSE r \in AsOf(rows, t) : TRUE).value

\* Every retained observation can be read back from the change-only log, however
\* few rows it left behind, and neither pruning nor a later row changes it.
History == INSTANCE SampleHistory WITH
  history <- [c \in Channel |-> [t \in seen[c] |-> ValueAsOf(log[c], t)]]

ImplementsHistory == History!Spec

\* "Channel samples are recorded when they change" (README): a snapshot that
\* finds another value than the snapshot before stores it.
RecordedWhenChanged ==
  [][Steady => \A c \in Channel :
       last'[c].value # last[c].value =>
         \E r \in log'[c] : r.ts = last'[c].ts /\ r.value = last'[c].value]_vars

\* "... with an hourly checkpoint": the latest row of a channel is never a whole
\* checkpoint interval older than the channel's latest observation.
CheckpointFresh ==
  Steady => \A c \in Channel : last[c] # Never =>
    \E r \in log[c] : last[c].ts - r.ts < Checkpoint

\* The log stays sparse: two rows with no row between them differ, or are a
\* checkpoint interval apart, also after pruning.
NoRedundantRow ==
  Steady => \A c \in Channel : \A r, s \in log[c] :
    After(s, r) /\ (\A q \in log[c] : ~(After(q, r) /\ After(s, q)))
      => r.value # s.value \/ s.ts - r.ts >= Checkpoint

\* Rows have ids of their own, the log is fresh enough to read the latest
\* observation from it, and it holds no row in vain.
ChangeOnly == TypeOK /\ CheckpointFresh /\ NoRedundantRow

\* Retention bounds the log and never forgets a channel: wherever the wall clock
\* is set, one baseline per channel is all that a snapshot leaves from before its
\* window, and the row inserted last is never deleted, neither by a long silence
\* nor by a clock that jumps either way.
OneBaselineStays ==
  [][\A c \in Channel :
       /\ log' # log => Cardinality({r \in log'[c] : r.ts < Cutoff(clock)}) <= 1
       /\ \A r \in log[c] : (\A s \in log[c] : s.id <= r.id) => r \in log'[c]]_vars

================================================================================
