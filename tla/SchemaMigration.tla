----------------------------- MODULE SchemaMigration -----------------------------
(***************************************************************************)
(* Opening the history database (connection and migrate of db.rs).         *)
(*                                                                         *)
(* Every operation of cln-history opens a connection of its own, which     *)
(* creates the tables that are missing, statement by statement, and then   *)
(* brings an older file to SCHEMA_VERSION in one transaction.  The file    *)
(* may come from any release, or from one that died while it created it;   *)
(* the process may die, or a statement fail, between any two statements.   *)
(* A table is wide when it has the columns of the current release; a row   *)
(* is its identity and the detail that the newer columns hold.             *)
(***************************************************************************)
EXTENDS Naturals, Sequences, SequencesExt

CONSTANTS
  Channel,             \* keys of the table channels
  Identifier,          \* the channel IDs and SCIDs in that table
  Name,                \* rows of the other tables
  Detail,              \* what the newer columns of a row say
  None,                \* NULL, or the default of a newer column
  Files,               \* the files that a process may find
  MaxInterruptions     \* bound on crashes and failed statements

SCHEMA_VERSION == 5

\* The tables that matter here, in the order of connection's batch.
TableOrder == <<"channels", "channel_samples", "channel_events",
                "forward_pair_buckets", "channel_aliases", "probe_events">>
Table      == Range(TableOrder)

\* The tables that migrate rebuilds or extends, with the release that widened them.
Widened == [forward_pair_buckets |-> 3, channel_samples |-> 4, channel_events |-> 4]

Version == 0..SCHEMA_VERSION + 1 \cup {None}

\* A row of channels has an identifier or none, one of the others a detail or none.
ChannelRow == [name : Channel, detail : Identifier \cup {None}]
Row == ChannelRow \cup [name : Name, detail : Detail \cup {None}]

\* A row of channel_aliases; "identifier" stands for channel_id and short_channel_id.
AliasRow == [kind : {"identity", "identifier"}, alias : Channel \cup Identifier,
             key : Channel]

\* PRIMARY KEY(alias_type, alias)
SameAlias(p, q) == p.kind = q.kind /\ p.alias = q.alias

\* A file: its schema_meta version, the tables it has and which of them are wide,
\* their rows, and channel_aliases.  Nothing is stored before a file is stamped, and
\* release 1 had no aliases.
File == [version : Version, tables : SUBSET Table, wide : SUBSET DOMAIN Widened,
         rows : [Table -> SUBSET Row], aliases : SUBSET AliasRow]

Wide(f, t) == t \in f.tables /\ (t \in DOMAIN Widened => t \in f.wide)

ASSUME FilesAssumption ==
  /\ Files \subseteq File
  /\ None \notin Detail \cup Identifier \cup 0..SCHEMA_VERSION + 1
  /\ Channel \cap Name = {}
  /\ MaxInterruptions \in Nat
  /\ \A f \in Files :
       /\ f.version = SCHEMA_VERSION => \A t \in Table : Wide(f, t)
       /\ \A t \in Table : ~Wide(f, t) => \A r \in f.rows[t] : r.detail = None
       /\ f.rows["channels"] \subseteq ChannelRow
       /\ f.version \in {None, 1} => f.aliases = {}
       /\ \A p, q \in f.aliases : SameAlias(p, q) => p = q

VARIABLES
  disk,      \* the file, as committed
  pc,        \* what the connection does next
  created,   \* how many tables the batch has been through
  needs,     \* the tables that lacked their columns when migrate looked
  tx,        \* the file as the open transaction sees it
  interruptions,
  written,   \* history: the rows that were stored in each table, with their detail
  seeds      \* history: the file's channels when it had no aliases of its own

vars == <<disk, pc, created, needs, tx, interruptions, written, seeds>>

Idle == /\ pc' = "closed" /\ created' = 0 /\ needs' = {} /\ tx' = disk'

History == <<interruptions, written, seeds>>

(***************************************************************************)
(* connection                                                              *)
(***************************************************************************)

Open ==
  /\ pc = "closed"
  /\ pc' = "creating"
  /\ UNCHANGED <<disk, created, needs, tx, History>>

\* CREATE TABLE IF NOT EXISTS, committed by itself.
CreateTable ==
  /\ pc = "creating" /\ created < Len(TableOrder)
  /\ created' = created + 1
  /\ LET t == TableOrder[created + 1]
     IN disk' = IF t \in disk.tables THEN disk
                ELSE [disk EXCEPT !.tables = @ \cup {t},
                                  !.wide = @ \cup ({t} \cap DOMAIN Widened)]
  /\ tx' = disk'
  /\ UNCHANGED <<pc, needs, History>>

(***************************************************************************)
(* migrate                                                                 *)
(***************************************************************************)

\* Broken builds: one without the test for newer files, one that forgot a release.
AfterVersionAny(version) == IF version = SCHEMA_VERSION THEN "ready" ELSE "checked"

AfterVersionNo3(version) ==
  CASE version = SCHEMA_VERSION -> "ready"
    [] version \in {None, 1, 2, 4} -> "checked"
    [] OTHER -> "refused"

\* migrate's match of the version.
AfterVersion(version) ==
  CASE version = SCHEMA_VERSION -> "ready"
    [] version \in {None, 1, 2, 3, 4} -> "checked"
    [] OTHER -> "refused"

ReadVersion ==
  /\ pc = "creating" /\ created = Len(TableOrder)
  /\ pc' = AfterVersion(disk.version)
  /\ UNCHANGED <<disk, created, needs, tx, History>>

\* A broken build that rebuilds the tables of every file of an older release.
LackingByVersion(f) == DOMAIN Widened

\* table_has_column for each of them.
Lacking(f) == {t \in DOMAIN Widened : t \notin f.wide}

ReadFlags ==
  /\ pc = "checked"
  /\ needs' = Lacking(disk)
  /\ pc' = "seed"
  /\ UNCHANGED <<disk, created, tx, History>>

\* The rows INSERT OR IGNORE ... SELECT adds to `aliases`: one for each alias that
\* has none yet, from whichever channel with it the scan meets first.
Seeded(aliases, candidates) ==
  {aliases \cup new : new \in
     {s \in SUBSET {c \in candidates : \A a \in aliases : ~SameAlias(a, c)} :
        /\ \A p, q \in s : SameAlias(p, q) => p = q
        /\ \A c \in candidates : \E a \in aliases \cup s : SameAlias(a, c)}}

IdentityOf(c)   == [kind |-> "identity", alias |-> c.name, key |-> c.name]
IdentifierOf(c) == [kind |-> "identifier", alias |-> c.detail, key |-> c.name]

Identities(f)  == {IdentityOf(c) : c \in f.rows["channels"]}
Identifiers(f) == {IdentifierOf(c) : c \in {r \in f.rows["channels"] : r.detail # None}}

\* version.is_none() || version == Some(1)
Seeds(version) == version \in {None, 1}

SeedAliases ==
  /\ pc = "seed"
  /\ IF Seeds(disk.version)
     THEN \E ids \in Seeded(tx.aliases, Identities(tx)) :
            \E all \in Seeded(ids, Identifiers(tx)) : tx' = [tx EXCEPT !.aliases = all]
     ELSE UNCHANGED tx
  /\ pc' = "forwards"
  /\ UNCHANGED <<disk, created, needs, History>>

\* What a rebuilt table holds: its rows, the newer columns with their defaults.
Copied(rows) == {[name |-> r.name, detail |-> None] : r \in rows}

Rebuilt(f, t) ==
  IF t \in needs THEN [f EXCEPT !.wide = @ \cup {t}, !.rows[t] = Copied(@)] ELSE f

RebuildForwardBuckets ==
  /\ pc = "forwards"
  /\ tx' = Rebuilt(tx, "forward_pair_buckets")
  /\ pc' = "samples"
  /\ UNCHANGED <<disk, created, needs, History>>

RebuildChannelSamples ==
  /\ pc = "samples"
  /\ tx' = Rebuilt(tx, "channel_samples")
  /\ pc' = "events"
  /\ UNCHANGED <<disk, created, needs, History>>

\* ALTER TABLE ... ADD COLUMN keeps the rows where they are; it fails when the
\* column is there already (Interrupt).
AddEventColumns ==
  /\ pc = "events"
  /\ "channel_events" \in needs => "channel_events" \notin tx.wide
  /\ tx' = IF "channel_events" \in needs
           THEN [tx EXCEPT !.wide = @ \cup {"channel_events"}] ELSE tx
  /\ pc' = "stamp"
  /\ UNCHANGED <<disk, created, needs, History>>

\* A broken build that stamps the file outside the transaction, before it commits.
StampFirst ==
  /\ pc = "stamp"
  /\ disk' = [disk EXCEPT !.version = SCHEMA_VERSION]
  /\ pc' = "commit"
  /\ UNCHANGED <<created, needs, tx, History>>

Stamp ==
  /\ pc = "stamp"
  /\ tx' = [tx EXCEPT !.version = SCHEMA_VERSION]
  /\ pc' = "commit"
  /\ UNCHANGED <<disk, created, needs, History>>

Commit ==
  /\ pc = "commit"
  /\ disk' = tx
  /\ pc' = "ready"
  /\ UNCHANGED <<created, needs, tx, History>>

(***************************************************************************)
(* The rest of an operation, and what can go wrong.                        *)
(***************************************************************************)

\* One of the record_* operations stores a row, with all its columns.
Record(t, r) ==
  /\ pc = "ready"
  /\ \A s \in disk.rows[t] : s.name # r.name
  /\ disk' = [disk EXCEPT !.rows[t] = @ \cup {r}]
  /\ written' = [written EXCEPT ![t] = @ \cup {r}]
  /\ Idle
  /\ UNCHANGED <<interruptions, seeds>>

\* A query, or a refusal: the connection is dropped.
Close ==
  /\ pc \in {"ready", "refused"}
  /\ UNCHANGED disk
  /\ Idle
  /\ UNCHANGED History

\* The process dies or a statement fails: SQLite drops the open transaction.
Interrupt ==
  /\ pc \notin {"closed", "ready", "refused"}
  /\ interruptions < MaxInterruptions
  /\ interruptions' = interruptions + 1
  /\ UNCHANGED disk
  /\ Idle
  /\ UNCHANGED <<written, seeds>>

Init ==
  /\ disk \in Files
  /\ pc = "closed" /\ created = 0 /\ needs = {} /\ tx = disk
  /\ interruptions = 0
  /\ written = disk.rows
  /\ seeds = IF Seeds(disk.version) THEN disk.rows["channels"] ELSE {}

Migrate ==
  \/ Open
  \/ CreateTable
  \/ ReadVersion
  \/ ReadFlags
  \/ SeedAliases
  \/ RebuildForwardBuckets
  \/ RebuildChannelSamples
  \/ AddEventColumns
  \/ Stamp
  \/ Commit

Next ==
  \/ Migrate
  \/ \E t \in DOMAIN Widened \cup {"probe_events"}, n \in Name, d \in Detail :
       Record(t, [name |-> n, detail |-> d])
  \/ Close
  \/ Interrupt

\* The collector opens the file again at every interval, and no call waits for
\* anything but SQLite.
Fairness == WF_vars(Migrate)

Spec == Init /\ [][Next]_vars /\ Fairness

(***************************************************************************)
(* Properties.                                                             *)
(***************************************************************************)

Phase == {"closed", "creating", "checked", "seed", "forwards", "samples", "events",
          "stamp", "commit", "ready", "refused"}

\* The types of the state; an alias has one row.
TypeOK ==
  /\ {disk, tx} \subseteq File
  /\ \A p, q \in disk.aliases : SameAlias(p, q) => p = q
  /\ pc \in Phase
  /\ created \in 0..Len(TableOrder)
  /\ needs \subseteq DOMAIN Widened
  /\ interruptions \in 0..MaxInterruptions

\* The stamp can be trusted, whatever release wrote the file and wherever earlier
\* attempts stopped: nothing looks at the tables of a stamped file again.
StampedIsComplete ==
  disk.version = SCHEMA_VERSION => \A t \in Table : Wide(disk, t)

\* An upgrade neither loses history nor invents it: the committed file always
\* holds exactly the rows that were stored, those of newer releases with their
\* details and those of older ones without ("without_inventing_failure_details"
\* is what the test of the v2 upgrade is about).
HistoryKept == disk.rows = written

\* The channels of a file from before channel_aliases keep their identities: once
\* stamped, each leads to itself, and its identifier to a channel that had it.
SeededAliases ==
  disk.version = SCHEMA_VERSION =>
    \A c \in seeds :
      /\ IdentityOf(c) \in disk.aliases
      /\ c.detail # None =>
           \E d \in seeds : d.detail = c.detail /\ IdentifierOf(d) \in disk.aliases

\* What a stamped file promises: nobody migrates it again.
StampTrusted == TypeOK /\ StampedIsComplete /\ SeededAliases

\* A file of a newer or unknown release is refused for good: nothing but missing
\* tables is ever added to it.
ForeignUntouched ==
  [][disk.version \in {0, SCHEMA_VERSION + 1} =>
       /\ pc' # "ready"
       /\ disk' = [disk EXCEPT !.tables = disk'.tables, !.wide = disk'.wide]]_vars

\* However often an upgrade is interrupted, the file of every supported release
\* is opened in the end.
EventuallyReady ==
  disk.version \notin {0, SCHEMA_VERSION + 1} ~> pc = "ready"

================================================================================
