------------------------- MODULE SchemaMigrationProofs -------------------------
(***************************************************************************)
(* Proofs about SchemaMigration for any files that the releases left, any  *)
(* rows in them, and any number of crashes and failed statements.          *)
(***************************************************************************)
EXTENDS SchemaMigration, TLAPS

(***************************************************************************)
(* The inductive invariant.                                                *)
(***************************************************************************)

\* From the first statement of migrate's transaction to its commit.
InTransaction == pc \in {"forwards", "samples", "events", "stamp", "commit"}

\* What the transaction has widened so far.
WidenedNow ==
  CASE pc = "forwards" -> {}
    [] pc = "samples"  -> {"forward_pair_buckets"}
    [] pc = "events"   -> {"forward_pair_buckets", "channel_samples"}
    [] OTHER           -> DOMAIN Widened

\* The channels that had no aliases lead to themselves, and so do their identifiers.
Seeding(aliases) ==
  \A c \in seeds :
    /\ IdentityOf(c) \in aliases
    /\ c.detail # None =>
         \E d \in seeds : d.detail = c.detail /\ IdentifierOf(d) \in aliases

\* An alias has one row.
OneRow(aliases) == \A p, q \in aliases : SameAlias(p, q) => p = q

\* The batch creates the tables in their order, and migrate finds all of them.
TablesThere ==
  /\ pc = "closed" => created = 0
  /\ pc = "creating" => \A i \in 1..created : TableOrder[i] \in disk.tables
  /\ pc \notin {"closed", "creating"} => Table \subseteq disk.tables

\* Outside its transaction migrate changes nothing; within, it has changed the
\* columns and the aliases, never the rows, and stamped the file at last.
TransactionOf ==
  /\ ~InTransaction => tx = disk
  /\ pc = "seed" \/ InTransaction => needs = Lacking(disk)
  /\ InTransaction =>
       /\ tx.tables = disk.tables /\ tx.rows = disk.rows
       /\ tx.wide = disk.wide \cup WidenedNow
       /\ tx.version = IF pc = "commit" THEN SCHEMA_VERSION ELSE disk.version
       /\ Seeding(tx.aliases)
       /\ OneRow(tx.aliases)

\* Only files of older releases are migrated, and only stamped ones are used.
Versions ==
  /\ pc \in {"checked", "seed"} \/ InTransaction => disk.version \in {None, 1, 2, 3, 4}
  /\ pc = "ready" => disk.version = SCHEMA_VERSION

\* A row of a table without the newer columns says nothing in them.
NoDetail == \A t \in Table : ~Wide(disk, t) => \A r \in disk.rows[t] : r.detail = None

\* A file from before the aliases still has its channels, and later their aliases.
SeedsOf ==
  /\ seeds \subseteq ChannelRow
  /\ IF Seeds(disk.version)
     THEN disk.aliases = {} /\ seeds = disk.rows["channels"]
     ELSE Seeding(disk.aliases)

IInv ==
  /\ TypeOK /\ TablesThere /\ TransactionOf /\ Versions
  /\ NoDetail /\ SeedsOf /\ HistoryKept /\ StampedIsComplete

(***************************************************************************)
(* The operators.                                                          *)
(***************************************************************************)

\* The tables by name; those that releases widened are among them.
LEMMA TableNames ==
  /\ Table = {TableOrder[i] : i \in 1..Len(TableOrder)}
  /\ DOMAIN Widened = {"forward_pair_buckets", "channel_samples", "channel_events"}
  /\ DOMAIN Widened \subseteq Table /\ "channels" \in Table /\ "probe_events" \in Table
  /\ Len(TableOrder) = 6
BY DEF Table, TableOrder, Range, Widened

\* The versions are numbers, and NULL is none of them.
LEMMA VersionNumbers ==
  /\ SCHEMA_VERSION = 5
  /\ None \notin 0..6
  /\ Version = 0..6 \cup {None}
BY FilesAssumption DEF SCHEMA_VERSION, Version

\* migrate's match: only a stamped file is ready at once, only older ones go on.
LEMMA AfterVersionCases ==
  ASSUME NEW version \in Version
  PROVE  /\ AfterVersion(version) \in {"ready", "checked", "refused"}
         /\ AfterVersion(version) = "ready" => version = SCHEMA_VERSION
         /\ AfterVersion(version) = "checked" => version \in {None, 1, 2, 3, 4}
BY VersionNumbers DEF AfterVersion

\* INSERT OR IGNORE keeps the aliases there are and leaves every candidate's alias
\* with one row.
LEMMA SeededAliasRows ==
  ASSUME NEW aliases, OneRow(aliases), NEW candidates, NEW new \in Seeded(aliases, candidates)
  PROVE  /\ aliases \subseteq new /\ new \subseteq aliases \cup candidates
         /\ OneRow(new)
         /\ \A c \in candidates : \E a \in new : SameAlias(a, c)
<1>1. PICK s \in SUBSET {c \in candidates : \A a \in aliases : ~SameAlias(a, c)} :
        /\ new = aliases \cup s
        /\ \A p, q \in s : SameAlias(p, q) => p = q
        /\ \A c \in candidates : \E a \in aliases \cup s : SameAlias(a, c)
  BY DEF Seeded
<1>2. OneRow(new)
  <2> SUFFICES ASSUME NEW p \in new, NEW q \in new, SameAlias(p, q) PROVE p = q
    BY DEF OneRow
  <2>1. SameAlias(q, p)
    BY DEF SameAlias
  <2> QED BY <1>1, <2>1 DEF OneRow
<1> QED BY <1>1, <1>2

\* The rows of a rebuilt table that lacked the columns are the rows it had.
LEMMA CopiedRows ==
  ASSUME NEW rows \in SUBSET Row, \A r \in rows : r.detail = None
  PROVE  Copied(rows) = rows
<1>1. \A r \in rows : [name |-> r.name, detail |-> None] = r
  BY DEF Row, ChannelRow
<1> QED BY <1>1 DEF Copied

\* An unchanged or rebuilt table: its columns are there, and no row has changed.
LEMMA RebuiltTable ==
  ASSUME NEW f \in File, NEW t \in DOMAIN Widened,
         t \in needs => \A r \in f.rows[t] : r.detail = None
  PROVE  /\ Rebuilt(f, t) \in File
         /\ Rebuilt(f, t).version = f.version /\ Rebuilt(f, t).tables = f.tables
         /\ Rebuilt(f, t).rows = f.rows /\ Rebuilt(f, t).aliases = f.aliases
         /\ Rebuilt(f, t).wide = f.wide \cup ({t} \cap needs)
<1>1. f.rows \in [Table -> SUBSET Row] /\ t \in Table /\ f.wide \subseteq DOMAIN Widened
  BY TableNames DEF File
<1>2. CASE t \in needs
  <2>1. Copied(f.rows[t]) = f.rows[t]
    BY <1>1, <1>2, CopiedRows
  <2>2. [f.rows EXCEPT ![t] = Copied(f.rows[t])] = f.rows
    BY <1>1, <2>1
  <2>3. Rebuilt(f, t) = [f EXCEPT !.wide = f.wide \cup {t}, !.rows = f.rows]
    BY <1>2, <2>2 DEF Rebuilt
  <2>4. Rebuilt(f, t) = [f EXCEPT !.wide = f.wide \cup {t}]
    BY <2>3 DEF File
  <2> QED BY <1>1, <1>2, <2>4 DEF File
<1>3. CASE t \notin needs
  BY <1>3 DEF Rebuilt
<1> QED BY <1>2, <1>3

(***************************************************************************)
(* The steps.                                                              *)
(***************************************************************************)

\* A file that a release left satisfies the invariant.
LEMMA InitIInv == Init => IInv
<1> SUFFICES ASSUME Init PROVE IInv
  OBVIOUS
<1>1. disk \in File /\ tx = disk /\ pc = "closed" /\ created = 0 /\ written = disk.rows
  BY FilesAssumption DEF Init
<1>2. TypeOK
  BY <1>1, FilesAssumption DEF Init, TypeOK, Phase
<1>3. NoDetail /\ StampedIsComplete /\ HistoryKept
  BY <1>1, FilesAssumption DEF Init, NoDetail, StampedIsComplete, HistoryKept
<1>4. SeedsOf
  BY <1>1, FilesAssumption DEF Init, SeedsOf, Seeds, Seeding
<1> QED BY <1>1, <1>2, <1>3, <1>4
        DEF IInv, TablesThere, TransactionOf, InTransaction, Versions

\* What the invariant says of the committed file alone is kept with the file.
LEMMA FileKept ==
  ASSUME IInv, UNCHANGED <<disk, written, seeds>>
  PROVE  (NoDetail /\ SeedsOf /\ HistoryKept /\ StampedIsComplete)'
BY DEF IInv, NoDetail, SeedsOf, Seeding, HistoryKept, StampedIsComplete, Wide

\* The statements before the transaction, and what ends an operation.
LEMMA QuietSteps ==
  ASSUME IInv, Open \/ ReadVersion \/ ReadFlags \/ Close \/ Interrupt \/ UNCHANGED vars
  PROVE  IInv'
<1>1. UNCHANGED <<disk, written, seeds>>
  BY DEF Open, ReadVersion, ReadFlags, Close, Interrupt, vars, History, Idle
<1>2. disk \in File /\ disk.version \in Version
  BY DEF IInv, TypeOK, File
<1>3. /\ tx \in File /\ OneRow(disk.aliases) /\ needs \subseteq DOMAIN Widened
      /\ created \in 0..Len(TableOrder) /\ interruptions \in 0..MaxInterruptions
      /\ MaxInterruptions \in Nat
  BY FilesAssumption DEF IInv, TypeOK, OneRow
<1>4. (NoDetail /\ SeedsOf /\ HistoryKept /\ StampedIsComplete)'
  BY <1>1, FileKept
<1>5. CASE Open
  <2>1. /\ pc' = "creating" /\ UNCHANGED <<disk, created, needs, tx, interruptions>>
        /\ tx = disk /\ created = 0
    BY <1>5 DEF Open, IInv, TransactionOf, TablesThere, History, InTransaction
  <2>2. TypeOK'
    BY <1>2, <1>3, <2>1 DEF TypeOK, OneRow, Phase
  <2>3. TablesThere' /\ TransactionOf' /\ Versions'
    BY <2>1 DEF TablesThere, TransactionOf, Versions, InTransaction
  <2> QED BY <1>4, <2>2, <2>3 DEF IInv
<1>6. CASE ReadVersion
  <2>1. /\ UNCHANGED <<disk, created, needs, tx, interruptions>>
        /\ tx = disk /\ Table \subseteq disk.tables /\ pc' = AfterVersion(disk.version)
    BY <1>6, TableNames DEF ReadVersion, IInv, TransactionOf, TablesThere, History, InTransaction
  <2>2. /\ pc' \in {"ready", "checked", "refused"}
        /\ pc' = "ready" => disk.version = SCHEMA_VERSION
        /\ pc' = "checked" => disk.version \in {None, 1, 2, 3, 4}
    BY <1>2, <2>1, AfterVersionCases
  <2>3. TypeOK'
    BY <1>2, <1>3, <2>1, <2>2 DEF TypeOK, OneRow, Phase
  <2>4. TablesThere' /\ TransactionOf' /\ Versions'
    BY <2>1, <2>2 DEF TablesThere, TransactionOf, Versions, InTransaction
  <2> QED BY <1>4, <2>3, <2>4 DEF IInv
<1>7. CASE ReadFlags
  <2>1. /\ UNCHANGED <<disk, created, tx, interruptions>> /\ pc' = "seed"
        /\ tx = disk /\ Table \subseteq disk.tables /\ needs' = Lacking(disk)
        /\ disk.version \in {None, 1, 2, 3, 4}
    BY <1>7 DEF ReadFlags, IInv, TransactionOf, TablesThere, History, InTransaction, Versions
  <2>2. TypeOK'
    BY <1>2, <1>3, <2>1 DEF TypeOK, OneRow, Phase, Lacking
  <2>3. TablesThere' /\ TransactionOf' /\ Versions'
    BY <2>1 DEF TablesThere, TransactionOf, Versions, InTransaction, Lacking
  <2> QED BY <1>4, <2>2, <2>3 DEF IInv
<1>8. CASE Close \/ Interrupt
  <2>1. /\ disk' = disk /\ pc' = "closed" /\ created' = 0 /\ needs' = {} /\ tx' = disk'
        /\ interruptions' \in 0..MaxInterruptions
    BY <1>3, <1>8 DEF Close, Interrupt, Idle, History
  <2>2. TypeOK'
    BY <1>2, <1>3, <2>1, TableNames DEF TypeOK, OneRow, Phase
  <2>3. TablesThere' /\ TransactionOf' /\ Versions'
    BY <2>1 DEF TablesThere, TransactionOf, Versions, InTransaction
  <2> QED BY <1>4, <2>2, <2>3 DEF IInv
<1>9. CASE UNCHANGED vars
  <2>1. TypeOK' /\ TablesThere' /\ Versions'
    BY <1>9 DEF vars, IInv, TypeOK, TablesThere, Versions, InTransaction
  <2>2. TransactionOf'
    BY <1>9 DEF vars, IInv, TransactionOf, InTransaction, WidenedNow, Seeding, OneRow, Lacking
  <2> QED BY <1>4, <2>1, <2>2 DEF IInv
<1> QED BY <1>5, <1>6, <1>7, <1>8, <1>9

\* CREATE TABLE adds a table with all its columns, to the open file as to the disk.
LEMMA CreateTableStep ==
  ASSUME IInv, CreateTable
  PROVE  IInv'
<1> DEFINE t == TableOrder[created + 1]
<1>1. /\ pc = "creating" /\ pc' = pc /\ created \in 0..5 /\ created' = created + 1
      /\ disk \in File /\ tx' = disk' /\ UNCHANGED <<needs, interruptions, written, seeds>>
      /\ t \in Table
  BY TableNames DEF CreateTable, History, IInv, TypeOK
<1>2. /\ disk' \in File
      /\ disk'.version = disk.version
      /\ disk'.rows = disk.rows /\ disk'.aliases = disk.aliases
      /\ disk'.tables = disk.tables \cup {t}
      /\ disk.wide \subseteq disk'.wide
      /\ t \in disk.tables \/ t \notin DOMAIN Widened \/ t \in disk'.wide
  <2>1. CASE t \in disk.tables
    <3>1. disk' = disk
      BY <2>1 DEF CreateTable
    <3> QED BY <1>1, <2>1, <3>1
  <2>2. CASE t \notin disk.tables
    <3>1. disk' = [disk EXCEPT !.tables = @ \cup {t},
                               !.wide = @ \cup ({t} \cap DOMAIN Widened)]
      BY <2>2 DEF CreateTable
    <3> QED BY <1>1, <3>1 DEF File
  <2> QED BY <2>1, <2>2
<1>3. \A u \in Table : Wide(disk, u) => Wide(disk', u)
  BY <1>2 DEF Wide
<1>4. TypeOK'
  BY <1>1, <1>2, TableNames DEF IInv, TypeOK
<1>5. TablesThere'
  <2>1. \A i \in 1..created + 1 : i \in 1..created \/ i = created + 1
    BY <1>1
  <2> QED BY <1>1, <1>2, <2>1 DEF IInv, TablesThere
<1>6. TransactionOf' /\ Versions'
  BY <1>1 DEF TransactionOf, Versions, InTransaction
<1>7. (NoDetail /\ StampedIsComplete)'
  BY <1>2, <1>3 DEF IInv, NoDetail, StampedIsComplete
<1>8. (SeedsOf /\ HistoryKept)'
  BY <1>1, <1>2 DEF IInv, SeedsOf, HistoryKept, Seeding
<1> QED BY <1>4, <1>5, <1>6, <1>7, <1>8 DEF IInv

\* INSERT OR IGNORE into the aliases of a file that had none: each channel leads to
\* itself, and its identifier to a channel that has it.
LEMMA SeedAliasesStep ==
  ASSUME IInv, SeedAliases
  PROVE  IInv'
<1>1. /\ pc = "seed" /\ pc' = "forwards" /\ tx = disk /\ disk \in File /\ OneRow(disk.aliases)
      /\ UNCHANGED <<disk, created, needs, interruptions, written, seeds>>
  BY DEF SeedAliases, History, IInv, TransactionOf, InTransaction, TypeOK, OneRow
<1>2. \E all : /\ tx' = [tx EXCEPT !.aliases = all]
               /\ all \subseteq AliasRow /\ OneRow(all) /\ Seeding(all)
  <2>1. CASE Seeds(disk.version)
    <3>1. PICK ids \in Seeded(tx.aliases, Identities(tx)) :
            \E all \in Seeded(ids, Identifiers(tx)) : tx' = [tx EXCEPT !.aliases = all]
      BY <2>1 DEF SeedAliases
    <3>2. PICK all \in Seeded(ids, Identifiers(tx)) : tx' = [tx EXCEPT !.aliases = all]
      BY <3>1
    <3>3. tx.aliases = {} /\ seeds = tx.rows["channels"] /\ seeds \subseteq Row
      BY <1>1, <2>1, TableNames DEF IInv, SeedsOf, File
    <3>4. /\ ids \subseteq Identities(tx) /\ OneRow(ids)
          /\ \A c \in Identities(tx) : \E a \in ids : SameAlias(a, c)
      BY <1>1, <3>1, <3>3, SeededAliasRows
    <3>5. /\ ids \subseteq all /\ all \subseteq ids \cup Identifiers(tx) /\ OneRow(all)
          /\ \A c \in Identifiers(tx) : \E a \in all : SameAlias(a, c)
      BY <3>2, <3>4, SeededAliasRows
    <3>6. all \subseteq AliasRow
      <4>1. seeds \subseteq ChannelRow
        BY DEF IInv, SeedsOf
      <4>2. ASSUME NEW c \in ChannelRow PROVE IdentityOf(c) \in AliasRow
        BY DEF ChannelRow, IdentityOf, AliasRow
      <4>3. ASSUME NEW c \in ChannelRow, c.detail # None PROVE IdentifierOf(c) \in AliasRow
        BY <4>3 DEF ChannelRow, IdentifierOf, AliasRow
      <4>4. Identities(tx) \subseteq AliasRow
        BY <3>3, <4>1, <4>2 DEF Identities
      <4>5. Identifiers(tx) \subseteq AliasRow
        BY <3>3, <4>1, <4>3 DEF Identifiers
      <4> QED BY <3>4, <3>5, <4>4, <4>5
    <3>7. ASSUME NEW c \in seeds PROVE IdentityOf(c) \in all
      <4>1. PICK a \in ids : SameAlias(a, IdentityOf(c))
        BY <3>3, <3>4 DEF Identities
      <4>2. PICK d \in seeds : a = IdentityOf(d)
        BY <3>3, <3>4, <4>1 DEF Identities
      <4>3. d.name = c.name
        BY <4>1, <4>2 DEF SameAlias, IdentityOf
      <4> QED BY <3>5, <4>1, <4>2, <4>3 DEF IdentityOf
    <3>8. ASSUME NEW c \in seeds, c.detail # None
          PROVE  \E d \in seeds : d.detail = c.detail /\ IdentifierOf(d) \in all
      <4>1. PICK a \in all : SameAlias(a, IdentifierOf(c))
        BY <3>3, <3>5, <3>8 DEF Identifiers
      <4>2. a \notin ids
        BY <3>4, <4>1 DEF SameAlias, Identities, IdentityOf, IdentifierOf
      <4>3. PICK d \in seeds : a = IdentifierOf(d)
        BY <3>3, <3>5, <4>2 DEF Identifiers
      <4> QED BY <4>1, <4>3 DEF SameAlias, IdentifierOf
    <3> QED BY <3>2, <3>5, <3>6, <3>7, <3>8 DEF Seeding
  <2>2. CASE ~Seeds(disk.version)
    <3>1. tx' = [tx EXCEPT !.aliases = tx.aliases]
      BY <1>1, <2>2 DEF SeedAliases, File
    <3> QED BY <1>1, <2>2, <3>1 DEF IInv, SeedsOf, File
  <2> QED BY <2>1, <2>2
<1>3. PICK all : /\ tx' = [tx EXCEPT !.aliases = all]
                 /\ all \subseteq AliasRow /\ OneRow(all) /\ Seeding(all)
  BY <1>2
<1>4. /\ tx' \in File /\ tx'.aliases = all /\ tx'.version = disk.version
      /\ tx'.tables = disk.tables /\ tx'.rows = disk.rows /\ tx'.wide = disk.wide
  BY <1>1, <1>3 DEF File
<1>5. TransactionOf'
  BY <1>1, <1>3, <1>4 DEF IInv, TransactionOf, InTransaction, WidenedNow, Seeding, Lacking
<1>6. TypeOK' /\ TablesThere' /\ Versions'
  BY <1>1, <1>4 DEF IInv, TypeOK, Phase, TablesThere, Versions, InTransaction
<1> QED BY <1>1, <1>5, <1>6, FileKept DEF IInv

\* A statement of the transaction that changes the columns or the version.
LEMMA StatementStep ==
  ASSUME IInv, InTransaction, UNCHANGED <<disk, created, needs, interruptions, written, seeds>>,
         pc' \in {"samples", "events", "stamp", "commit"},
         tx' \in File, tx'.tables = tx.tables, tx'.rows = tx.rows, tx'.aliases = tx.aliases,
         tx'.wide = disk.wide \cup WidenedNow',
         tx'.version = IF pc' = "commit" THEN SCHEMA_VERSION ELSE disk.version
  PROVE  IInv'
<1>1. TypeOK'
  BY DEF IInv, TypeOK, Phase
<1>2. TablesThere' /\ Versions'
  BY DEF IInv, TablesThere, Versions, InTransaction
<1>3. Seeding(tx.aliases)' /\ OneRow(tx.aliases)' /\ Lacking(disk)' = Lacking(disk)
  BY DEF IInv, TransactionOf, Seeding, OneRow, Lacking
<1>4. TransactionOf'
  <2>1. InTransaction'
    BY DEF InTransaction
  <2>2. needs' = Lacking(disk)' /\ tx'.tables = disk'.tables /\ tx'.rows = disk'.rows
    BY <1>3 DEF IInv, TransactionOf
  <2> QED BY <1>3, <2>1, <2>2 DEF TransactionOf
<1> QED BY <1>1, <1>2, <1>4, FileKept DEF IInv

\* Rebuilding the tables that lack their columns: there is nothing in these to lose.
LEMMA RebuildSteps ==
  ASSUME IInv, RebuildForwardBuckets \/ RebuildChannelSamples
  PROVE  IInv'
<1>1. /\ InTransaction /\ UNCHANGED <<disk, created, needs, interruptions, written, seeds>>
      /\ pc \in {"forwards", "samples"}
  BY DEF InTransaction, RebuildForwardBuckets, RebuildChannelSamples, History
<1>2. /\ tx \in File /\ needs = Lacking(disk) /\ tx.rows = disk.rows
      /\ tx.wide = disk.wide \cup WidenedNow /\ tx.version = disk.version
  BY <1>1 DEF IInv, TypeOK, TransactionOf
<1>3. ASSUME NEW t \in needs PROVE \A r \in tx.rows[t] : r.detail = None
  BY <1>2, TableNames DEF IInv, NoDetail, Wide, Lacking
<1>4. \A t \in DOMAIN Widened : disk.wide \cup ({t} \cap needs) = disk.wide \cup {t}
  BY <1>2 DEF Lacking
<1>5. CASE RebuildForwardBuckets
  <2> DEFINE t == "forward_pair_buckets"
  <2>1. tx' = Rebuilt(tx, t) /\ pc = "forwards" /\ pc' = "samples" /\ t \in DOMAIN Widened
    BY <1>5, TableNames DEF RebuildForwardBuckets
  <2>2. /\ tx' \in File /\ tx'.version = tx.version /\ tx'.tables = tx.tables
        /\ tx'.rows = tx.rows /\ tx'.aliases = tx.aliases
        /\ tx'.wide = tx.wide \cup ({t} \cap needs)
    BY <1>2, <1>3, <2>1, RebuiltTable
  <2>3. tx'.wide = disk.wide \cup WidenedNow'
    BY <1>2, <1>4, <2>1, <2>2 DEF WidenedNow
  <2> QED BY <1>1, <1>2, <2>1, <2>2, <2>3, StatementStep
<1>6. CASE RebuildChannelSamples
  <2> DEFINE t == "channel_samples"
  <2>1. tx' = Rebuilt(tx, t) /\ pc = "samples" /\ pc' = "events" /\ t \in DOMAIN Widened
    BY <1>6, TableNames DEF RebuildChannelSamples
  <2>2. /\ tx' \in File /\ tx'.version = tx.version /\ tx'.tables = tx.tables
        /\ tx'.rows = tx.rows /\ tx'.aliases = tx.aliases
        /\ tx'.wide = tx.wide \cup ({t} \cap needs)
    BY <1>2, <1>3, <2>1, RebuiltTable
  <2>3. tx'.wide = disk.wide \cup WidenedNow'
    BY <1>2, <1>4, <2>1, <2>2 DEF WidenedNow
  <2> QED BY <1>1, <1>2, <2>1, <2>2, <2>3, StatementStep
<1> QED BY <1>5, <1>6

\* ALTER TABLE ADD COLUMN, and the stamp at the end of the transaction.
LEMMA AddColumnsAndStampSteps ==
  ASSUME IInv, AddEventColumns \/ Stamp
  PROVE  IInv'
<1>1. /\ InTransaction /\ UNCHANGED <<disk, created, needs, interruptions, written, seeds>>
      /\ pc \in {"events", "stamp"}
  BY DEF InTransaction, AddEventColumns, Stamp, History
<1>2. /\ tx \in File /\ disk \in File /\ needs = Lacking(disk)
      /\ tx.wide = disk.wide \cup WidenedNow /\ tx.version = disk.version
  BY <1>1 DEF IInv, TypeOK, TransactionOf
<1>3. CASE AddEventColumns
  <2> DEFINE t == "channel_events"
  <2>1. /\ pc = "events" /\ pc' = "stamp" /\ t \in DOMAIN Widened
        /\ tx' = IF t \in needs THEN [tx EXCEPT !.wide = @ \cup {t}] ELSE tx
    BY <1>3, TableNames DEF AddEventColumns
  <2>2. /\ tx' \in File /\ tx'.version = tx.version /\ tx'.tables = tx.tables
        /\ tx'.rows = tx.rows /\ tx'.aliases = tx.aliases
        /\ tx'.wide = tx.wide \cup ({t} \cap needs)
    <3>1. CASE t \in needs
      BY <1>2, <2>1, <3>1 DEF File
    <3>2. CASE t \notin needs
      BY <1>2, <2>1, <3>2
    <3> QED BY <3>1, <3>2
  <2>3. disk.wide \cup ({t} \cap needs) = disk.wide \cup {t}
    BY <1>2, <2>1 DEF Lacking
  <2>4. tx'.wide = disk.wide \cup WidenedNow'
    BY <1>2, <2>1, <2>2, <2>3, TableNames DEF WidenedNow
  <2> QED BY <1>1, <1>2, <2>1, <2>2, <2>4, StatementStep
<1>4. CASE Stamp
  <2>1. /\ pc = "stamp" /\ pc' = "commit" /\ tx' = [tx EXCEPT !.version = SCHEMA_VERSION]
    BY <1>4 DEF Stamp
  <2>2. /\ tx' \in File /\ tx'.version = SCHEMA_VERSION /\ tx'.tables = tx.tables
        /\ tx'.rows = tx.rows /\ tx'.aliases = tx.aliases /\ tx'.wide = tx.wide
    BY <1>2, <2>1, VersionNumbers DEF File
  <2>3. tx'.wide = disk.wide \cup WidenedNow'
    BY <1>2, <2>1, <2>2 DEF WidenedNow
  <2> QED BY <1>1, <1>2, <2>1, <2>2, <2>3, StatementStep
<1> QED BY <1>3, <1>4

\* The commit publishes everything at once: columns, aliases and stamp.
LEMMA CommitStep ==
  ASSUME IInv, Commit
  PROVE  IInv'
<1>1. /\ pc = "commit" /\ pc' = "ready" /\ InTransaction /\ disk' = tx
      /\ UNCHANGED <<created, needs, tx, interruptions, written, seeds>>
  BY DEF Commit, History, InTransaction
<1>2. /\ tx \in File /\ tx.tables = disk.tables /\ tx.rows = disk.rows
      /\ tx.wide = disk.wide \cup WidenedNow /\ tx.version = SCHEMA_VERSION
      /\ Seeding(tx.aliases) /\ OneRow(tx.aliases) /\ Table \subseteq disk.tables
  BY <1>1 DEF IInv, TypeOK, TransactionOf, TablesThere
<1>3. \A t \in Table : Wide(tx, t)
  BY <1>1, <1>2 DEF WidenedNow, Wide
<1>4. TypeOK'
  BY <1>1, <1>2 DEF IInv, TypeOK, Phase, OneRow
<1>5. TablesThere' /\ TransactionOf' /\ Versions'
  BY <1>1, <1>2 DEF TablesThere, TransactionOf, Versions, InTransaction
<1>6. (NoDetail /\ HistoryKept /\ StampedIsComplete)'
  BY <1>1, <1>2, <1>3 DEF IInv, NoDetail, HistoryKept, StampedIsComplete, Wide
<1>7. SeedsOf'
  BY <1>1, <1>2, VersionNumbers DEF IInv, SeedsOf, Seeds, Seeding
<1> QED BY <1>4, <1>5, <1>6, <1>7 DEF IInv

\* A record_* operation: the row goes into a table that has all its columns.
LEMMA RecordStep ==
  ASSUME IInv, NEW t \in DOMAIN Widened \cup {"probe_events"}, NEW n \in Name, NEW d \in Detail,
         Record(t, [name |-> n, detail |-> d])
  PROVE  IInv'
<1> DEFINE r == [name |-> n, detail |-> d]
<1>1. /\ pc = "ready" /\ pc' = "closed" /\ created' = 0 /\ needs' = {} /\ tx' = disk'
      /\ disk' = [disk EXCEPT !.rows[t] = @ \cup {r}]
      /\ written' = [written EXCEPT ![t] = @ \cup {r}]
      /\ UNCHANGED <<interruptions, seeds>>
  BY DEF Record, Idle
<1>2. /\ disk \in File /\ disk.rows \in [Table -> SUBSET Row] /\ t \in Table /\ r \in Row
      /\ disk.version = SCHEMA_VERSION /\ disk.rows = written
      /\ \A u \in Table : Wide(disk, u)
  BY <1>1, TableNames DEF IInv, TypeOK, File, Row, Versions, HistoryKept, StampedIsComplete
<1> HIDE DEF r
<1>3. [disk.rows EXCEPT ![t] = @ \cup {r}] \in [Table -> SUBSET Row]
  BY <1>2
<1>4. /\ disk' \in File /\ disk'.version = SCHEMA_VERSION /\ disk'.tables = disk.tables
      /\ disk'.wide = disk.wide /\ disk'.aliases = disk.aliases
      /\ disk'.rows = [disk.rows EXCEPT ![t] = @ \cup {r}]
  BY <1>1, <1>2, <1>3 DEF File
<1>5. \A u \in Table : Wide(disk', u)
  BY <1>2, <1>4 DEF Wide
<1>6. TypeOK'
  BY <1>1, <1>4, TableNames DEF IInv, TypeOK, Phase
<1>7. TablesThere' /\ TransactionOf' /\ Versions'
  BY <1>1 DEF TablesThere, TransactionOf, Versions, InTransaction
<1>8. (NoDetail /\ StampedIsComplete)'
  BY <1>5 DEF NoDetail, StampedIsComplete
<1>9. HistoryKept'
  BY <1>1, <1>2, <1>4 DEF HistoryKept
<1>10. SeedsOf'
  BY <1>1, <1>2, <1>4, VersionNumbers DEF IInv, SeedsOf, Seeds, Seeding
<1> QED BY <1>6, <1>7, <1>8, <1>9, <1>10 DEF IInv

\* Every step of the next-state relation keeps the invariant.
LEMMA NextIInv ==
  ASSUME IInv, [Next]_vars
  PROVE  IInv'
<1>1. CASE Migrate
  BY <1>1, QuietSteps, CreateTableStep, SeedAliasesStep, RebuildSteps,
     AddColumnsAndStampSteps, CommitStep DEF Migrate
<1>2. CASE \E t \in DOMAIN Widened \cup {"probe_events"}, n \in Name, d \in Detail :
             Record(t, [name |-> n, detail |-> d])
  BY <1>2, RecordStep
<1>3. CASE Close \/ Interrupt \/ UNCHANGED vars
  BY <1>3, QuietSteps
<1> QED BY <1>1, <1>2, <1>3 DEF Next

(***************************************************************************)
(* The theorems.                                                           *)
(***************************************************************************)

\* The strengthening that all the results below rest on holds throughout.
THEOREM InductiveInvariant == Spec => []IInv
BY InitIInv, NextIInv, PTL DEF Spec

\* However an upgrade is interrupted, a file that says SCHEMA_VERSION has every
\* table with every column, and the channels from before the aliases have theirs.
THEOREM StampCanBeTrusted == Spec => []StampTrusted
<1>1. IInv => StampTrusted
  <2> SUFFICES ASSUME IInv PROVE StampTrusted
    OBVIOUS
  <2>1. SeededAliases
    BY VersionNumbers DEF IInv, SeedsOf, Seeds, Seeding, SeededAliases
  <2> QED BY <2>1 DEF IInv, StampTrusted
<1> QED BY <1>1, InductiveInvariant, PTL

\* No file of any release loses a row, or gets a detail nobody stored, in any
\* sequence of openings, upgrades, records and crashes.
THEOREM UpgradesKeepHistory == Spec => []HistoryKept
<1>1. IInv => HistoryKept
  BY DEF IInv
<1> QED BY <1>1, InductiveInvariant, PTL

\* Whatever follows, a file of an unknown or newer release is never used and gets
\* nothing but the tables it lacks.
THEOREM ForeignFilesStay == Spec => ForeignUntouched
<1> DEFINE Foreign == disk.version \in {0, SCHEMA_VERSION + 1}
           Untouched == /\ pc' # "ready"
                        /\ disk' = [disk EXCEPT !.tables = disk'.tables, !.wide = disk'.wide]
<1>1. ASSUME IInv, [Next]_vars, Foreign PROVE Untouched \/ UNCHANGED vars
  <2>1. /\ disk \in File /\ ~InTransaction /\ pc \notin {"checked", "seed", "ready"}
        /\ disk = [disk EXCEPT !.tables = disk.tables, !.wide = disk.wide]
    <3>1. disk \in File
      BY <1>1 DEF IInv, TypeOK
    <3>2. disk.version \notin {None, 1, 2, 3, 4} /\ disk.version # SCHEMA_VERSION
      BY <1>1, VersionNumbers
    <3>3. ~InTransaction /\ pc \notin {"checked", "seed", "ready"}
      BY <1>1, <3>2 DEF IInv, Versions
    <3>4. disk = [disk EXCEPT !.tables = disk.tables, !.wide = disk.wide]
      BY <3>1 DEF File
    <3> QED BY <3>1, <3>3, <3>4
  <2>2. CASE Open \/ Close \/ Interrupt
    BY <2>1, <2>2 DEF Open, Close, Interrupt, Idle
  <2>3. CASE CreateTable
    BY <2>1, <2>3 DEF CreateTable, File
  <2>4. CASE ReadVersion
    BY <1>1, <2>1, <2>4, VersionNumbers DEF ReadVersion, AfterVersion
  <2>5. ~(\/ ReadFlags \/ SeedAliases \/ RebuildForwardBuckets \/ RebuildChannelSamples
          \/ AddEventColumns \/ Stamp \/ Commit)
    BY <2>1 DEF InTransaction, ReadFlags, SeedAliases, RebuildForwardBuckets,
                RebuildChannelSamples, AddEventColumns, Stamp, Commit
  <2>6. \A t, r : ~Record(t, r)
    BY <2>1 DEF Record
  <2> QED BY <1>1, <2>2, <2>3, <2>4, <2>5, <2>6 DEF Next, Migrate
<1>2. IInv /\ [Next]_vars => [Foreign => Untouched]_vars
  BY <1>1
<1> QED BY <1>2, InductiveInvariant, PTL DEF Spec, ForeignUntouched

================================================================================
