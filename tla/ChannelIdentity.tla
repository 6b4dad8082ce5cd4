---------------------------- MODULE ChannelIdentity ----------------------------
(***************************************************************************)
(* Durable channel identities in cln-history (src/bin/cln-history/db.rs).  *)
(*                                                                         *)
(* The plugin polls listpeerchannels and listens to channel_state_changed. *)
(* Both handlers map the identifiers a channel carries at that moment to   *)
(* one `channel_key` through the table channel_aliases, and keep one row   *)
(* per key in the table channels.  A snapshot is one SQLite transaction,   *)
(* modelled sample by sample, so that a crash or an SQL error can fall     *)
(* between any two of its steps.  Timestamps, balances and policies are    *)
(* abstracted away, and with them the tables that record_* adds to by time *)
(* and prune deletes from by age: the samples (module SampleLog) and the   *)
(* events (module HistoryStore).  No row of channels or of channel_aliases *)
(* is ever deleted.                                                        *)
(*                                                                         *)
(* The node may relist a channel at any moment, so a response or a         *)
(* notification holds any of the reports it can make, however old it is    *)
(* when a handler gets to it: calls and notifications in flight need no    *)
(* state of their own, and reordered, late or lost ones are all covered.   *)
(***************************************************************************)
EXTENDS Integers, Sequences, FiniteSets

CONSTANTS
  Chan,       \* the real channels of the node
  PeerOf,     \* the peer of every channel
  Id,         \* identifier values: channel IDs, SCIDs, outpoints, aliases
  NoId,       \* a field that listpeerchannels leaves out
  Reports     \* for every channel, the ways the node may list it

SampleKind == {"channel_id", "short_channel_id", "funding_outpoint",
               "local_alias", "remote_alias"}
AliasKind  == SampleKind \cup {"identity"}

\* The order in which from_value pushes the aliases of a sample.
Position == [channel_id |-> 1, short_channel_id |-> 2, funding_outpoint |-> 3,
             local_alias |-> 4, remote_alias |-> 5]

\* The CASE of resolve_alias.
Rank == [identity |-> 0, channel_id |-> 1, short_channel_id |-> 2,
         funding_outpoint |-> 2, local_alias |-> 2, remote_alias |-> 2]

Report     == [SampleKind -> Id \cup {NoId}]
Peer       == {PeerOf[c] : c \in Chan}
PendingKey == {"pending"} \X Peer \X Nat
PeerKey    == {"peer"} \X Peer
Key        == Id \cup PendingKey \cup PeerKey

\* The kinds under which a report puts a value on the alias list: a local or
\* remote alias is skipped when its value is already there.
Listed(r) ==
  {k \in SampleKind :
     /\ r[k] # NoId
     /\ k \in {"local_alias", "remote_alias"} =>
          \A j \in SampleKind : Position[j] < Position[k] => r[j] # r[k]}

ASSUME ReportsAssumption ==
  /\ IsFiniteSet(Chan)
  /\ Reports \in [Chan -> SUBSET Report]
  /\ NoId \notin Key
  /\ Id \cap (PendingKey \cup PeerKey) = {}

\* A value is listed under one kind only: a SCID never doubles as a channel ID.
ASSUME KindAssumption ==
  \A c, d \in Chan : \A r \in Reports[c], s \in Reports[d] :
    \A j \in Listed(r), k \in Listed(s) : r[j] = s[k] => j = k

VARIABLES
  recording,  \* TRUE while a snapshot's transaction is open
  response,   \* the listpeerchannels response being recorded
  next,       \* index of the next entry of the response to record
  present,    \* keys of the entries recorded so far by the transaction
  tx,         \* the tables as the open transaction sees them
  db          \* the committed tables

transaction == <<recording, response, next, present, tx>>
vars == <<transaction, db>>

\* A channel as a response or a notification reports it.
Entry == UNION {[chan : {c}, ids : Reports[c]] : c \in Chan}

(***************************************************************************)
(* The table channel_aliases: a function from (alias_type, alias), its     *)
(* primary key, to channel_key.                                            *)
(***************************************************************************)

Rows(table, alias) == {p \in DOMAIN table : p[2] = alias}

\* resolve_alias: the keys its ORDER BY ... LIMIT 1 may return, {} for None.
Resolve(table, alias) ==
  {table[p] : p \in {q \in Rows(table, alias) :
     \A o \in Rows(table, alias) : Rank[q[1]] <= Rank[o[1]]}}

\* A broken build whose ON CONFLICT also overwrites channel_key.
RecordAliasesOverwriting(table, rows, key) ==
  [p \in DOMAIN table \cup rows |-> IF p \in rows THEN key ELSE table[p]]

\* record_alias for each of rows: ON CONFLICT keeps the channel_key.
RecordAliases(table, rows, key) ==
  [p \in DOMAIN table \cup rows |-> IF p \in DOMAIN table THEN table[p] ELSE key]

(***************************************************************************)
(* The identity of a sample and of an event.                               *)
(***************************************************************************)

\* Broken builds: a key by position alone, and one without the fallbacks.
OwnKeyPositional(e, index) == <<"pending", PeerOf[e.chan], index>>

OwnKeyUnguarded(e, index) == e.ids["channel_id"]

\* The key from_value gives a sample: a positional one when the channel has
\* neither a channel ID nor a SCID nor a funding outpoint yet.
OwnKey(e, index) ==
  LET named == {k \in {"channel_id", "short_channel_id", "funding_outpoint"} :
                  e.ids[k] # NoId}
  IN IF named = {} THEN <<"pending", PeerOf[e.chan], index>>
     ELSE e.ids[CHOOSE k \in named :
                  \A j \in named : Position[k] <= Position[j]]

\* The alias of the report that decides: the first one some row knows.
Deciding(table, r) ==
  {k \in Listed(r) :
     /\ Resolve(table, r[k]) # {}
     /\ \A j \in Listed(r) : Position[j] < Position[k] => Resolve(table, r[j]) = {}}

\* A broken build that takes the key of the sample without looking it up.
SampleKeysUnresolved(table, e, index) == {OwnKey(e, index)}

\* resolve_sample_identity: the keys it may choose.
SampleKeys(table, e, index) ==
  IF Deciding(table, e.ids) = {} THEN {OwnKey(e, index)}
  ELSE UNION {Resolve(table, e.ids[k]) : k \in Deciding(table, e.ids)}

SampleRows(r, key) == {<<"identity", key>>} \cup {<<k, r[k]>> : k \in Listed(r)}

\* A broken build in which an event's SCID is not looked up.
EventKeysByChannelId(table, e) ==
  IF Resolve(table, e.ids["channel_id"]) # {}
  THEN Resolve(table, e.ids["channel_id"])
  ELSE {IF e.ids["channel_id"] # NoId THEN e.ids["channel_id"]
        ELSE e.ids["short_channel_id"]}

\* record_channel_event: channel ID first, then SCID, then their raw values.
EventKeys(table, e) ==
  LET cid  == e.ids["channel_id"]
      scid == e.ids["short_channel_id"]
  IN CASE Resolve(table, cid) # {}  -> Resolve(table, cid)
       [] Resolve(table, cid) = {} /\ Resolve(table, scid) # {} ->
            Resolve(table, scid)
       [] OTHER -> {IF cid # NoId THEN cid
                    ELSE IF scid # NoId THEN scid
                    ELSE <<"peer", PeerOf[e.chan]>>}

EventRows(r) ==
  {<<k, r[k]>> : k \in {j \in {"channel_id", "short_channel_id"} : r[j] # NoId}}

(***************************************************************************)
(* The tables.  `channels` tells the present keys from the disappeared     *)
(* ones.  History variables say whose history was stored, pruned or not:   *)
(* `recorded` which channel's samples and events went under a key, and the *)
(* SCID they had, `carried` what a channel's entries could be told by,     *)
(* `lastSample` the latest sample of a channel, `latest` the keys of the   *)
(* last complete snapshot.                                                 *)
(***************************************************************************)

\* What the history says of an entry stored under a key.
Stored(e, key) == [key |-> key, chan |-> e.chan, scid |-> e.ids["short_channel_id"]]

\* What the sample of an entry can be told by: the values it lists, and its
\* position among the peer's channels when it has no name yet.
SampleMarks(e, index) ==
  {e.ids[k] : k \in Listed(e.ids)}
    \cup {<<"pending", PeerOf[e.chan], i>> : i \in
            IF \A k \in {"channel_id", "short_channel_id", "funding_outpoint"} :
                 e.ids[k] = NoId
            THEN {index} ELSE {}}

\* What an event can be told by.
EventMarks(e) == {e.ids["channel_id"], e.ids["short_channel_id"]} \ {NoId}

NoSample == [key |-> NoId, ids |-> NoId]

EmptyTables ==
  [aliases    |-> [p \in {} |-> NoId],
   channels   |-> [k \in {} |-> "present"],
   recorded   |-> {},
   carried    |-> [c \in Chan |-> {}],
   lastSample |-> [c \in Chan |-> NoSample],
   latest     |-> {}]

Put(f, keys, value) ==
  [k \in DOMAIN f \cup keys |-> IF k \in keys THEN value ELSE f[k]]

\* resolve_sample_identity and record_sample of one entry under `key`: the row
\* of the key is present again.
WithSample(t, e, index, key) ==
  [aliases    |-> RecordAliases(t.aliases, SampleRows(e.ids, key), key),
   channels   |-> Put(t.channels, {key}, "present"),
   recorded   |-> t.recorded \cup {Stored(e, key)},
   carried    |-> [t.carried EXCEPT ![e.chan] = @ \cup SampleMarks(e, index)],
   lastSample |-> [t.lastSample EXCEPT ![e.chan] = [key |-> key, ids |-> e.ids]],
   latest     |-> t.latest]

\* The channels with no disappeared_at.
Active(t) == {k \in DOMAIN t.channels : t.channels[k] = "present"}

\* A broken build that selects every known channel, not only the active ones.
KnownAbsent(t, keys) == DOMAIN t.channels \ keys

\* The keys record_disappearances marks: active so far, absent from the samples.
Gone(t, keys) == Active(t) \ keys

\* record_disappearances; the snapshot of `keys` is then the latest.
WithDisappearances(t, keys) ==
  [t EXCEPT !.channels = Put(t.channels, Gone(t, keys), "disappeared"),
            !.latest   = keys]

WithEvent(t, e, key) ==
  [t EXCEPT !.aliases  = RecordAliases(t.aliases, EventRows(e.ids), key),
            !.recorded = t.recorded \cup {Stored(e, key)},
            !.carried  = [t.carried EXCEPT ![e.chan] = @ \cup EventMarks(e)]]

(***************************************************************************)
(* The handlers.  They run on one thread and record_* never awaits: no     *)
(* other handler runs while a transaction is open.                         *)
(***************************************************************************)

\* The responses that list the channels of L, in any order.
Responses(L) ==
  {s \in [1..Cardinality(L) -> {e \in Entry : e.chan \in L}] :
     \A c \in L : \E i \in DOMAIN s : s[i].chan = c}

\* listpeerchannels is answered and record_channel_snapshot_at_height begins.
BeginSnapshot ==
  /\ ~recording
  /\ recording' = TRUE
  /\ \E L \in SUBSET Chan : response' \in Responses(L)
  /\ next' = 1
  /\ present' = {}
  /\ tx' = db
  /\ UNCHANGED db

RecordSample ==
  /\ recording
  /\ next \in 1..Len(response)
  /\ \E key \in SampleKeys(tx.aliases, response[next], next - 1) :
       /\ tx' = WithSample(tx, response[next], next - 1, key)
       /\ present' = present \cup {key}
  /\ next' = next + 1
  /\ UNCHANGED <<recording, response, db>>

\* The transaction is over: committed or dropped.
Done ==
  /\ recording' = FALSE
  /\ response' = <<>>
  /\ next' = 1
  /\ present' = {}
  /\ tx' = EmptyTables

\* A broken build in which every sample is committed on its own.
FinishSnapshotAnytime ==
  /\ recording
  /\ db' = IF next > Len(response) THEN WithDisappearances(tx, present) ELSE tx
  /\ Done

\* Disappearances, the run, and the commit.  The prune in between deletes samples,
\* events, buckets, runs and probes by age, and none of these tables' rows.
FinishSnapshot ==
  /\ recording
  /\ next > Len(response)
  /\ db' = WithDisappearances(tx, present)
  /\ Done

\* A statement fails or the process dies: SQLite drops the open transaction.
Rollback ==
  /\ recording
  /\ Done
  /\ UNCHANGED db

RecordChannelEvent(e) ==
  /\ ~recording
  /\ \E key \in EventKeys(db.aliases, e) : db' = WithEvent(db, e, key)
  /\ UNCHANGED transaction

Init ==
  /\ recording = FALSE
  /\ response = <<>>
  /\ next = 1
  /\ present = {}
  /\ tx = EmptyTables
  /\ db = EmptyTables

Next ==
  \/ BeginSnapshot
  \/ RecordSample
  \/ FinishSnapshot
  \/ Rollback
  \/ \E e \in Entry : RecordChannelEvent(e)

Spec == Init /\ [][Next]_vars

(***************************************************************************)
(* Properties.                                                             *)
(***************************************************************************)

AliasTable(t) ==
  /\ DOMAIN t \subseteq AliasKind \X Key
  /\ t \in [DOMAIN t -> Key]

SampleRecord == [key : Key, ids : Report] \cup {NoSample}

Tables(t) ==
  /\ t = [aliases |-> t.aliases, channels |-> t.channels,
          recorded |-> t.recorded, carried |-> t.carried,
          lastSample |-> t.lastSample, latest |-> t.latest]
  /\ AliasTable(t.aliases)
  /\ t.channels \in [DOMAIN t.channels -> {"present", "disappeared"}]
  /\ DOMAIN t.channels \subseteq Key
  /\ t.recorded \subseteq [key : Key, chan : Chan, scid : Id \cup {NoId}]
  /\ t.carried \in [Chan -> SUBSET Key]
  /\ t.lastSample \in [Chan -> SampleRecord]
  /\ t.latest \subseteq Key

\* The types of the state.
TypeOK ==
  /\ recording \in BOOLEAN
  /\ response \in Seq(Entry)
  /\ next \in Nat \ {0}
  /\ present \subseteq Key
  /\ Tables(tx)
  /\ Tables(db)

\* All rows of an alias lead to one key.
Functional(table) ==
  \A p, q \in DOMAIN table : p[2] = q[2] => table[p] = table[q]

\* resolve_alias has one answer: its ORDER BY leaves ties among the rows of one
\* rank, and LIMIT 1 takes any of them, so no alias may ever lead two ways.
FunctionalResolution == Functional(tx.aliases) /\ Functional(db.aliases)

(***************************************************************************)
(* FunctionalResolution is not inductive by itself: it holds because every *)
(* key is a root, an alias that leads to itself; because a row is either   *)
(* the identity row of its key or names a value that some report lists     *)
(* under the row's kind; and because a value with any row has a row of     *)
(* that kind.                                                              *)
(***************************************************************************)

Rooted(table) ==
  \A p \in DOMAIN table : \E q \in DOMAIN table :
    q[2] = table[p] /\ table[q] = table[p]

\* What the reports can put on an alias list, kind and value.
Listing == UNION {{<<k, e.ids[k]>> : k \in Listed(e.ids)} : e \in Entry}

Kinded(table) ==
  \A p \in DOMAIN table :
    \/ p[1] = "identity" /\ table[p] = p[2]
    \/ p \in Listing

Named(table) ==
  \A p \in DOMAIN table : p[2] \in Id =>
    \E q \in DOMAIN table : q[2] = p[2] /\ q[1] # "identity"

SoundTable(table) ==
  AliasTable(table) /\ Functional(table) /\ Rooted(table) /\ Kinded(table)
    /\ Named(table)

\* The inductive invariant of the alias table, committed or not: no report can
\* ever make an alias lead two ways, since nothing but the row of its own kind
\* or its own identity row may carry a value.
SoundAliases == SoundTable(tx.aliases) /\ SoundTable(db.aliases)

\* Nothing connects the channels of S with the others: no value that a sample or
\* an event of one of them listed, and no position at which both were nameless.
Unconnected(t, S) ==
  \A c \in S, d \in Chan \ S : t.carried[c] \cap t.carried[d] = {}

\* Two channels share an identity only if something connects them, directly or
\* through others: a value that both list, such as a remote alias that the peer
\* chose twice, or the position under which both were filed while they had no
\* name.  There the code merges their histories for good; but it does not merge
\* "channels based only on peer ID" (README), nor by anything else, whatever the
\* channels list, lose or change.  An event that names no channel at all is filed
\* as the peer's.
NoMerge ==
  \A S \in SUBSET Chan : Unconnected(db, S) =>
    \A x, y \in db.recorded :
      x.key = y.key /\ x.key \notin PeerKey => (x.chan \in S <=> y.chan \in S)

\* The channels that metrics() counts as active, those with no disappeared_at,
\* are those of the latest complete snapshot, whatever failed since.
ActiveIsLatestSnapshot == Active(db) = db.latest

SharesAlias(r, s) == \E j \in Listed(r), k \in Listed(s) : r[j] = s[k]

\* Two successive samples of channel c that share an alias are stored under one
\* key.
SameIdentity(c) ==
  LET old == db.lastSample[c]
      new == db'.lastSample[c]
  IN old # NoSample /\ new # old /\ SharesAlias(old.ids, new.ids)
       => new.key = old.key

\* "When an identifier changes during a splice, any surviving alias keeps the
\* same identity" (README), whatever identifiers the channel carries.
SurvivingAliasKeepsIdentity == [][\A c \in Chan : SameIdentity(c)]_vars

\* All that is stored of channel c carried one SCID.
AnchoredBy(t, c, scid) == \A x \in t.recorded : x.chan = c => x.scid = scid

\* What SurvivingAliasKeepsIdentity says does hold of a channel as long as every
\* sample and event that is stored of it carries one SCID, whatever else of it
\* changes: either handler finds the key of the SCID, by it or by a value that is
\* looked up before it and was bound to the same key.
AnchoredAliasKeepsIdentity ==
  [][\A c \in Chan, scid \in Id : AnchoredBy(db, c, scid)' => SameIdentity(c)]_vars

\* The directory that the committed alias table stands for.
DirectoryOf(table) ==
  [a \in {p[2] : p \in DOMAIN table} |->
     table[CHOOSE p \in DOMAIN table : p[2] = a]]

Directory == INSTANCE IdentityDirectory WITH
  Alias <- Key, dir <- DirectoryOf(db.aliases)

\* The tables implement the directory: through crashes, failed snapshots and
\* events between two snapshots, an alias that leads to an identity leads there
\* for ever, and no step leaves an alias leading to a key that is not a root.
ImplementsDirectory == Directory!Spec

================================================================================
