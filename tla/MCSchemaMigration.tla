---------------------------- MODULE MCSchemaMigration ----------------------------
(***************************************************************************)
(* A small instance of SchemaMigration: the files of every release, with   *)
(* and without rows, complete or with some of their tables only.  The key  *)
(* of one channel is the identifier of both.                               *)
(***************************************************************************)
EXTENDS SchemaMigration

CONSTANTS k1, k2, id, r1, d1

MCChannel == {k1, k2}

\* The tables that release v had, and those of them that it had widened.
TablesOf(v) ==
  Table \ ((IF v # None /\ v < 2 THEN {"channel_aliases"} ELSE {})
             \cup (IF v # None /\ v < 5 THEN {"probe_events"} ELSE {}))
WideOf(v, tables) == {t \in DOMAIN Widened : t \in tables /\ Widened[t] <= v}

\* Channels that share an identifier, as after a splice, and rows that have a
\* detail where the release could store one.
RowsOf(v, tables, wide) ==
  {[t \in Table |->
      IF t \notin tables \/ t = "channel_aliases" THEN {}
      ELSE IF t = "channels" THEN channels
      ELSE {[name |-> r1, detail |-> IF t \in wide \cup {"probe_events"} THEN d ELSE None]}] :
     d \in {d1, None},
     channels \in {{[name |-> k1, detail |-> id], [name |-> k2, detail |-> id]},
                   {[name |-> k1, detail |-> id], [name |-> k2, detail |-> None]}}}

\* What release v left: all of its tables or, as in the tests, just one.
FilesOf(v) ==
  UNION {{[version |-> v, tables |-> ts, wide |-> WideOf(v, ts), rows |-> rows,
           aliases |-> {}] : rows \in RowsOf(v, ts, WideOf(v, ts))} :
           ts \in IF v = SCHEMA_VERSION THEN {Table}
                  ELSE {TablesOf(v)} \cup {{t} : t \in TablesOf(v)}}

\* A release that died before it stamped its file: no version, and no rows yet.
Unstamped ==
  UNION {{[version |-> None, tables |-> ts, wide |-> WideOf(v, ts),
           rows |-> [t \in Table |-> {}], aliases |-> {}] :
             ts \in SUBSET TablesOf(v)} : v \in 1..SCHEMA_VERSION}

MCFiles == Unstamped \cup UNION {FilesOf(v) : v \in 0..SCHEMA_VERSION + 1}

================================================================================
