------------------------- MODULE ChannelIdentityProofs -------------------------
(***************************************************************************)
(* Proofs about ChannelIdentity for any channels, identifiers and reports. *)
(***************************************************************************)
EXTENDS ChannelIdentity, FiniteSetTheorems, TLAPS

(***************************************************************************)
(* The operators.                                                          *)
(***************************************************************************)

\* resolve_alias finds a key whenever some row has the alias: among finitely
\* many ranks there is a least one.
LEMMA ResolveSome ==
  ASSUME NEW t, AliasTable(t), NEW a, NEW p \in Rows(t, a)
  PROVE  Resolve(t, a) # {}
<1> DEFINE Best(q) == \A o \in Rows(t, a) : Rank[q[1]] <= Rank[o[1]]
<1>1. \A q \in Rows(t, a) : q[1] \in AliasKind
  BY DEF Rows, AliasTable
<1>2. \A k \in AliasKind : Rank[k] \in {0, 1, 2}
  BY DEF AliasKind, SampleKind, Rank
<1>3. \E q \in Rows(t, a) : Best(q)
  <2>1. CASE \E q \in Rows(t, a) : Rank[q[1]] = 0
    BY <2>1, <1>1, <1>2
  <2>2. CASE /\ ~ \E q \in Rows(t, a) : Rank[q[1]] = 0
             /\ \E q \in Rows(t, a) : Rank[q[1]] = 1
    BY <2>2, <1>1, <1>2
  <2>3. CASE ~ \E q \in Rows(t, a) : Rank[q[1]] \in {0, 1}
    BY <2>3, <1>1, <1>2
  <2> QED BY <2>1, <2>2, <2>3
<1> QED BY <1>3 DEF Resolve

\* What resolve_alias returns is the key of some row of the alias.
LEMMA ResolveRow ==
  ASSUME NEW t, NEW a, NEW key \in Resolve(t, a)
  PROVE  \E p \in DOMAIN t : p[2] = a /\ t[p] = key
BY DEF Resolve, Rows

\* When no alias decides, no alias of the report has a row.
LEMMA UndecidedIsUnknown ==
  ASSUME NEW t, NEW r, Deciding(t, r) = {}, NEW k \in Listed(r)
  PROVE  Resolve(t, r[k]) = {}
<1> DEFINE Known == {j \in Listed(r) : Resolve(t, r[j]) # {}}
<1>1. Listed(r) \subseteq SampleKind
  BY DEF Listed
<1>2. SUFFICES ASSUME k \in Known PROVE FALSE
  OBVIOUS
<1>3. \E j \in Known : \A i \in Known : Position[j] <= Position[i]
  <2>1. \A j \in Known : Position[j] \in 1..5
    BY <1>1 DEF SampleKind, Position
  <2>2. \A n \in 1..5 : (\E j \in Known : Position[j] = n) =>
          \E j \in Known : \A i \in Known : Position[j] <= Position[i]
    BY <2>1
  <2> QED BY <1>2, <2>1, <2>2
<1>4. PICK j \in Known : \A i \in Known : Position[j] <= Position[i]
  BY <1>3
<1>5. \A i \in SampleKind : Position[i] \in Nat
  BY DEF SampleKind, Position
<1>6. j \in Deciding(t, r)
  BY <1>1, <1>4, <1>5 DEF Deciding
<1> QED BY <1>6

\* A listed value is an identifier, and the key of an undecided sample is one of
\* its listed values or a positional key.
LEMMA ListedIds ==
  ASSUME NEW e \in Entry
  PROVE  /\ e.chan \in Chan /\ e.ids \in Reports[e.chan] /\ e.ids \in Report
         /\ \A k \in Listed(e.ids) : k \in SampleKind /\ e.ids[k] \in Id
BY ReportsAssumption DEF Entry, Report, Listed

\* The key from_value falls back on is positional only when the channel has none
\* of the three identifiers, and else one that the sample lists, so that its
\* alias rows carry it.
LEMMA OwnKeyForms ==
  ASSUME NEW e \in Entry, NEW i \in Nat
  PROVE  \/ /\ OwnKey(e, i) \in PendingKey
            /\ OwnKey(e, i) = <<"pending", PeerOf[e.chan], i>>
            /\ \A k \in {"channel_id", "short_channel_id", "funding_outpoint"} :
                 e.ids[k] = NoId
         \/ \E k \in Listed(e.ids) : OwnKey(e, i) = e.ids[k]
<1> DEFINE Fields == {"channel_id", "short_channel_id", "funding_outpoint"}
           Given  == {k \in Fields : e.ids[k] # NoId}
           Least(k) == \A j \in Given : Position[k] <= Position[j]
<1>1. CASE Given = {}
  BY <1>1, ListedIds DEF OwnKey, PendingKey, Peer
<1>2. CASE Given # {}
  <2>1. \E k \in Given : Least(k)
    <3>1. CASE "channel_id" \in Given
      BY <3>1 DEF Position
    <3>2. CASE "channel_id" \notin Given /\ "short_channel_id" \in Given
      BY <3>2 DEF Position
    <3>3. CASE Given = {"funding_outpoint"}
      BY <3>3 DEF Position
    <3> QED BY <1>2, <3>1, <3>2, <3>3
  <2>2. PICK k \in Given : k = CHOOSE x \in Given : Least(x)
    BY <2>1
  <2>3. OwnKey(e, i) = e.ids[k]
    BY <1>2, <2>2 DEF OwnKey
  <2>4. k \in Listed(e.ids)
    BY DEF Listed, SampleKind
  <2> QED BY <2>3, <2>4
<1> QED BY <1>1, <1>2

(***************************************************************************)
(* The alias table.                                                        *)
(***************************************************************************)

\* A table is keyed by the reports' kinds: the form in which a row's report is
\* named.
LEMMA KindedRows ==
  ASSUME NEW t, AliasTable(t)
  PROVE  Kinded(t) <=> \A p \in DOMAIN t :
           \/ p[1] = "identity" /\ t[p] = p[2]
           \/ \E e \in Entry : p[1] \in Listed(e.ids) /\ e.ids[p[1]] = p[2]
<1>1. ASSUME NEW p \in DOMAIN t
      PROVE  p \in Listing <=>
               \E e \in Entry : p[1] \in Listed(e.ids) /\ e.ids[p[1]] = p[2]
  <2>1. p = <<p[1], p[2]>>
    BY DEF AliasTable
  <2>2. p \in Listing <=> (\E e \in Entry : \E k \in Listed(e.ids) : p = <<k, e.ids[k]>>)
    BY DEF Listing
  <2> QED BY <2>1, <2>2
<1> QED BY <1>1 DEF Kinded

\* record_alias keeps a sound table sound: the new rows of an alias that has
\* rows already lead where those lead, the key is a root and has a row of its
\* kind, and the new rows come from a report or are the key's identity row.
LEMMA RecordAliasesSound ==
  ASSUME NEW t, SoundTable(t), NEW key \in Key,
         NEW R \in SUBSET (AliasKind \X Key),
         \A r \in R \ DOMAIN t, p \in DOMAIN t : p[2] = r[2] => t[p] = key,
         \A r \in R : \/ r[1] = "identity" /\ key = r[2]
                      \/ \E e \in Entry :
                           r[1] \in Listed(e.ids) /\ e.ids[r[1]] = r[2],
         \E q \in DOMAIN t \cup R :
           q[2] = key /\ (q \in DOMAIN t => t[q] = key),
         \A r \in R : r[2] \in Id =>
           \E q \in DOMAIN t \cup R : q[2] = r[2] /\ q[1] # "identity"
  PROVE  SoundTable(RecordAliases(t, R, key))
<1> DEFINE new == RecordAliases(t, R, key)
<1>1. /\ DOMAIN new = DOMAIN t \cup R
      /\ \A p \in DOMAIN t : new[p] = t[p]
      /\ \A p \in R \ DOMAIN t : new[p] = key
  BY DEF RecordAliases
<1>2. AliasTable(new)
  BY <1>1 DEF SoundTable, AliasTable, RecordAliases
<1>3. Functional(new)
  BY <1>1 DEF SoundTable, Functional
<1>4. Rooted(new)
  <2> SUFFICES ASSUME NEW p \in DOMAIN new
               PROVE  \E q \in DOMAIN new : q[2] = new[p] /\ new[q] = new[p]
    BY DEF Rooted
  <2>1. CASE p \in DOMAIN t
    BY <2>1, <1>1 DEF SoundTable, Rooted
  <2>2. CASE p \notin DOMAIN t
    BY <2>2, <1>1
  <2> QED BY <2>1, <2>2
<1>5. Kinded(new)
  BY <1>1, <1>2, KindedRows DEF SoundTable
<1>6. Named(new)
  BY <1>1 DEF SoundTable, Named
<1> HIDE DEF new
<1> QED BY <1>2, <1>3, <1>4, <1>5, <1>6 DEF SoundTable, new

\* In a sound table the rows of a listed value include the one of its own kind.
LEMMA OwnKindFirst ==
  ASSUME NEW t, SoundTable(t), NEW e \in Entry, NEW k \in Listed(e.ids),
         NEW p \in DOMAIN t, p[2] = e.ids[k]
  PROVE  <<k, e.ids[k]>> \in DOMAIN t
<1>1. PICK q \in DOMAIN t : q[2] = e.ids[k] /\ q[1] # "identity"
  BY ListedIds DEF SoundTable, Named
<1>2. PICK f \in Entry : q[1] \in Listed(f.ids) /\ f.ids[q[1]] = q[2]
  BY <1>1, KindedRows DEF SoundTable
<1>3. q[1] = k
  BY <1>1, <1>2, KindAssumption, ListedIds
<1>4. q = <<k, e.ids[k]>>
  BY <1>1, <1>3 DEF SoundTable, AliasTable
<1> QED BY <1>4

\* resolve_sample_identity: whichever key it chooses, its rows fit the table.
LEMMA SampleRowsFit ==
  ASSUME NEW t, SoundTable(t), NEW e \in Entry, NEW i \in Nat,
         NEW key \in SampleKeys(t, e, i)
  PROVE  key \in Key /\ SoundTable(RecordAliases(t, SampleRows(e.ids, key), key))
<1> DEFINE R == SampleRows(e.ids, key)
<1>1. \/ \E p, q \in DOMAIN t : t[p] = key /\ q[2] = key /\ t[q] = key
      \/ /\ key = OwnKey(e, i)
         /\ \A k \in Listed(e.ids), p \in DOMAIN t : p[2] # e.ids[k]
  <2>1. CASE Deciding(t, e.ids) = {}
    <3>1. key = OwnKey(e, i)
      BY <2>1 DEF SampleKeys
    <3>2. \A k \in Listed(e.ids) : Resolve(t, e.ids[k]) = {}
      BY <2>1, UndecidedIsUnknown
    <3>3. \A k \in Listed(e.ids), p \in DOMAIN t : p[2] # e.ids[k]
      BY <3>2, ResolveSome DEF SoundTable, Rows
    <3> QED BY <3>1, <3>3
  <2>2. CASE Deciding(t, e.ids) # {}
    <3>1. PICK k \in Deciding(t, e.ids) : key \in Resolve(t, e.ids[k])
      BY <2>2 DEF SampleKeys
    <3>2. PICK p \in DOMAIN t : t[p] = key
      BY <3>1, ResolveRow
    <3> QED BY <3>2 DEF SoundTable, Rooted
  <2> QED BY <2>1, <2>2
<1>2. key \in Key
  BY <1>1, OwnKeyForms, ListedIds DEF SoundTable, AliasTable, Key
<1>3. R \in SUBSET (AliasKind \X Key)
  BY <1>2, ListedIds DEF SampleRows, AliasKind, Key
<1>4. \A r \in R \ DOMAIN t, p \in DOMAIN t : p[2] = r[2] => t[p] = key
  <2> SUFFICES ASSUME NEW r \in R \ DOMAIN t, NEW p \in DOMAIN t, p[2] = r[2]
               PROVE  t[p] = key
    OBVIOUS
  <2>1. CASE r = <<"identity", key>>
    <3>1. CASE \E q \in DOMAIN t : q[2] = key /\ t[q] = key
      BY <2>1, <3>1 DEF SoundTable, Functional
    <3>2. CASE key \in PendingKey
      <4>1. ~ \E f \in Entry : p[1] \in Listed(f.ids) /\ f.ids[p[1]] = p[2]
        BY <2>1, <3>2, ListedIds, ReportsAssumption
      <4> QED BY <2>1, <4>1, KindedRows DEF SoundTable
    <3>3. CASE \E k \in Listed(e.ids) : /\ key = e.ids[k]
                                        /\ \A q \in DOMAIN t : q[2] # e.ids[k]
      BY <2>1, <3>3
    <3> QED BY <1>1, <3>1, <3>2, <3>3, OwnKeyForms
  <2>2. CASE \E k \in Listed(e.ids) : r = <<k, e.ids[k]>>
    BY <2>2, OwnKindFirst
  <2> QED BY <2>1, <2>2 DEF SampleRows
<1>5. \A r \in R : \/ r[1] = "identity" /\ key = r[2]
                   \/ \E f \in Entry : r[1] \in Listed(f.ids) /\ f.ids[r[1]] = r[2]
  BY DEF SampleRows
<1>6. \E q \in DOMAIN t \cup R : q[2] = key /\ (q \in DOMAIN t => t[q] = key)
  <2>1. <<"identity", key>> \in R
    BY DEF SampleRows
  <2> QED BY <1>4, <2>1, <1>1, OwnKeyForms, ListedIds, ReportsAssumption, KindedRows
          DEF SoundTable
<1>7. \A r \in R : r[2] \in Id =>
        \E q \in DOMAIN t \cup R : q[2] = r[2] /\ q[1] # "identity"
  <2>1. \A k \in Listed(e.ids) : /\ <<k, e.ids[k]>> \in R
                                 /\ k # "identity"
    BY ListedIds DEF SampleRows, SampleKind
  <2>2. key \in Id =>
          \E q \in DOMAIN t \cup R : q[2] = key /\ q[1] # "identity"
    <3> HIDE DEF R
    <3>1. CASE \E q \in DOMAIN t : q[2] = key
      BY <3>1 DEF SoundTable, Named
    <3>2. CASE \E k \in Listed(e.ids) : key = e.ids[k]
      <4>1. PICK k \in Listed(e.ids) : key = e.ids[k]
        BY <3>2
      <4>2. <<k, key>> \in R /\ <<k, key>>[1] # "identity" /\ <<k, key>>[2] = key
        BY <2>1, <4>1
      <4> QED BY <4>2
    <3>3. CASE key \in PendingKey
      BY <3>3, ReportsAssumption
    <3> QED BY <1>1, <3>1, <3>2, <3>3, OwnKeyForms
  <2> QED BY <2>1, <2>2 DEF SampleRows
<1> HIDE DEF R
<1>8. SoundTable(RecordAliases(t, R, key))
  BY <1>2, <1>3, <1>4, <1>5, <1>6, <1>7, RecordAliasesSound
<1> QED BY <1>2, <1>8 DEF R

\* record_channel_event: whichever key it chooses, its rows fit the table.
LEMMA EventRowsFit ==
  ASSUME NEW t, SoundTable(t), NEW e \in Entry, NEW key \in EventKeys(t, e)
  PROVE  key \in Key /\ SoundTable(RecordAliases(t, EventRows(e.ids), key))
<1> DEFINE R    == EventRows(e.ids)
           cid  == e.ids["channel_id"]
           scid == e.ids["short_channel_id"]
<1>1. \A r \in R : \E k \in Listed(e.ids) : r = <<k, e.ids[k]>> /\ k # "identity"
  BY DEF EventRows, Listed, SampleKind
<1>2. \/ \E p, q \in DOMAIN t : t[p] = key /\ q[2] = key /\ t[q] = key
      \/ \E k \in Listed(e.ids) :
           /\ key = e.ids[k] /\ <<k, key>> \in R
           /\ \A p \in DOMAIN t : p[2] # key
      \/ R = {} /\ key \in PeerKey
  <2>1. CASE key \in Resolve(t, cid) \/ key \in Resolve(t, scid)
    <3>1. PICK p \in DOMAIN t : t[p] = key
      BY <2>1, ResolveRow
    <3> QED BY <3>1 DEF SoundTable, Rooted
  <2>2. CASE ~(key \in Resolve(t, cid) \/ key \in Resolve(t, scid))
    <3>1. Resolve(t, cid) = {} /\ Resolve(t, scid) = {}
      BY <2>2 DEF EventKeys
    <3>2. key = IF cid # NoId THEN cid ELSE IF scid # NoId THEN scid
                ELSE <<"peer", PeerOf[e.chan]>>
      BY <3>1 DEF EventKeys
    <3>3. \A p \in DOMAIN t : p[2] # cid /\ p[2] # scid
      BY <3>1, ResolveSome DEF SoundTable, Rows
    <3>4. CASE cid # NoId
      BY <3>2, <3>3, <3>4 DEF Listed, EventRows, SampleKind
    <3>5. CASE cid = NoId /\ scid # NoId
      BY <3>2, <3>3, <3>5 DEF Listed, EventRows, SampleKind
    <3>6. CASE cid = NoId /\ scid = NoId
      BY <3>2, <3>6, ListedIds DEF EventRows, PeerKey, Peer
    <3> QED BY <3>4, <3>5, <3>6
  <2> QED BY <2>1, <2>2
<1>3. key \in Key
  BY <1>2, ListedIds DEF SoundTable, AliasTable, Key
<1>4. CASE R = {}
  <2>1. RecordAliases(t, R, key) = t
    BY <1>4 DEF RecordAliases, SoundTable, AliasTable
  <2> QED BY <1>3, <2>1
<1>5. CASE R # {}
  <2>1. R \in SUBSET (AliasKind \X Key)
    BY <1>1, ListedIds DEF AliasKind, Key
  <2>2. \A r \in R \ DOMAIN t, p \in DOMAIN t : p[2] = r[2] => t[p] = key
    BY <1>1, OwnKindFirst
  <2>3. \A r \in R : \/ r[1] = "identity" /\ key = r[2]
                     \/ \E f \in Entry :
                          r[1] \in Listed(f.ids) /\ f.ids[r[1]] = r[2]
    BY <1>1
  <2>4. \E q \in DOMAIN t \cup R : q[2] = key /\ (q \in DOMAIN t => t[q] = key)
    <3> HIDE DEF R
    <3>1. CASE \E p, q \in DOMAIN t : t[p] = key /\ q[2] = key /\ t[q] = key
      BY <3>1
    <3>2. CASE \E k \in Listed(e.ids) :
                 /\ <<k, key>> \in R /\ \A p \in DOMAIN t : p[2] # key
      <4>1. PICK k \in Listed(e.ids) :
              <<k, key>> \in R /\ \A p \in DOMAIN t : p[2] # key
        BY <3>2
      <4>2. <<k, key>>[2] = key /\ <<k, key>> \notin DOMAIN t
        BY <4>1
      <4> QED BY <4>1, <4>2
    <3> QED BY <1>2, <1>5, <3>1, <3>2
  <2>5. \A r \in R : r[2] \in Id =>
          \E q \in DOMAIN t \cup R : q[2] = r[2] /\ q[1] # "identity"
    BY <1>1
  <2> HIDE DEF R
  <2>6. SoundTable(RecordAliases(t, R, key))
    BY <1>3, <2>1, <2>2, <2>3, <2>4, <2>5, RecordAliasesSound
  <2> QED BY <1>3, <2>6 DEF R
<1> QED BY <1>4, <1>5

(***************************************************************************)
(* The tables.                                                             *)
(***************************************************************************)

\* What the history keeps of an entry.
LEMMA StoredTyped ==
  ASSUME NEW e \in Entry, NEW key \in Key
  PROVE  Stored(e, key) \in [key : Key, chan : Chan, scid : Id \cup {NoId}]
<1>1. e.ids["short_channel_id"] \in Id \cup {NoId}
  BY ListedIds DEF Report, SampleKind
<1> QED BY <1>1, ListedIds DEF Stored

\* The marks of an entry are possible keys.
LEMMA MarksTyped ==
  ASSUME NEW e \in Entry, NEW i \in Nat
  PROVE  SampleMarks(e, i) \in SUBSET Key /\ EventMarks(e) \in SUBSET Key
<1>1. \A k \in Listed(e.ids) : e.ids[k] \in Key
  BY ListedIds DEF Key
<1>2. <<"pending", PeerOf[e.chan], i>> \in Key
  BY ListedIds DEF Key, PendingKey, Peer
<1>3. SampleMarks(e, i) \in SUBSET Key
  BY <1>1, <1>2 DEF SampleMarks
<1>4. \A k \in {"channel_id", "short_channel_id"} : e.ids[k] # NoId => e.ids[k] \in Key
  BY ListedIds DEF Report, SampleKind, Key
<1> QED BY <1>3, <1>4 DEF EventMarks

\* The key of a sample is a key, and its rows fit the type of the table.
LEMMA SampleKeyTyped ==
  ASSUME NEW t, AliasTable(t), NEW e \in Entry, NEW i \in Nat,
         NEW key \in SampleKeys(t, e, i)
  PROVE  key \in Key /\ AliasTable(RecordAliases(t, SampleRows(e.ids, key), key))
<1>1. key \in Key
  <2>1. CASE key = OwnKey(e, i)
    BY <2>1, OwnKeyForms, ListedIds DEF Key
  <2>2. ASSUME NEW k \in Deciding(t, e.ids), key \in Resolve(t, e.ids[k]) PROVE key \in Key
    BY <2>2, ResolveRow DEF AliasTable
  <2> QED BY <2>1, <2>2 DEF SampleKeys
<1>2. SampleRows(e.ids, key) \in SUBSET (AliasKind \X Key)
  BY <1>1, ListedIds DEF SampleRows, AliasKind, Key
<1> QED BY <1>1, <1>2 DEF AliasTable, RecordAliases

\* The key of an event is a key, and its rows fit the type of the table.
LEMMA EventKeyTyped ==
  ASSUME NEW t, AliasTable(t), NEW e \in Entry, NEW key \in EventKeys(t, e)
  PROVE  key \in Key /\ AliasTable(RecordAliases(t, EventRows(e.ids), key))
<1>1. \A k \in {"channel_id", "short_channel_id"} : e.ids[k] # NoId => e.ids[k] \in Key
  BY ListedIds DEF Report, SampleKind, Key
<1>2. <<"peer", PeerOf[e.chan]>> \in Key
  BY ListedIds DEF Key, PeerKey, Peer
<1>3. key \in Key
  <2>1. ASSUME NEW a, key \in Resolve(t, a) PROVE key \in Key
    BY <2>1, ResolveRow DEF AliasTable
  <2> QED BY <1>1, <1>2, <2>1 DEF EventKeys
<1>4. EventRows(e.ids) \in SUBSET (AliasKind \X Key)
  BY <1>1 DEF EventRows, AliasKind, SampleKind
<1> QED BY <1>3, <1>4 DEF AliasTable, RecordAliases

\* Recording a sample keeps the types of the tables, whatever the key.
LEMMA WithSampleTyped ==
  ASSUME NEW t, Tables(t), NEW e \in Entry, NEW i \in Nat, NEW key \in Key,
         AliasTable(RecordAliases(t.aliases, SampleRows(e.ids, key), key))
  PROVE  Tables(WithSample(t, e, i, key))
<1> DEFINE u == WithSample(t, e, i, key)
<1>1. u.channels \in [DOMAIN u.channels -> {"present", "disappeared"}]
  BY DEF WithSample, Put, Tables
<1>2. u.carried \in [Chan -> SUBSET Key]
  BY MarksTyped, ListedIds DEF WithSample, Tables
<1>3. DOMAIN u.channels \subseteq Key
  BY DEF WithSample, Put, Tables
<1>4. u.recorded \subseteq [key : Key, chan : Chan, scid : Id \cup {NoId}]
  BY StoredTyped DEF WithSample, Tables
<1>5. u.lastSample \in [Chan -> SampleRecord]
  <2>1. [key |-> key, ids |-> e.ids] \in SampleRecord
    BY ListedIds DEF SampleRecord
  <2> QED BY <2>1, ListedIds DEF WithSample, Tables
<1>6. u.latest \subseteq Key
  BY DEF WithSample, Tables
<1> QED BY <1>1, <1>2, <1>3, <1>4, <1>5, <1>6 DEF Tables, WithSample

\* Marking the disappeared channels keeps the types of the tables, and all but
\* their status.
LEMMA WithDisappearancesTyped ==
  ASSUME NEW t, Tables(t), NEW keys \in SUBSET Key
  PROVE  LET u == WithDisappearances(t, keys)
         IN /\ Tables(u)
            /\ u.aliases = t.aliases /\ u.recorded = t.recorded
            /\ u.carried = t.carried /\ u.lastSample = t.lastSample
<1> DEFINE C == Put(t.channels, Gone(t, keys), "disappeared")
           u == WithDisappearances(t, keys)
<1>1. u = [t EXCEPT !.channels = C, !.latest = keys]
  BY DEF WithDisappearances
<1>2. Gone(t, keys) \subseteq DOMAIN t.channels
  BY DEF Gone, Active
<1>3. DOMAIN C = DOMAIN t.channels
  BY <1>2 DEF Put
<1>4. C \in [DOMAIN C -> {"present", "disappeared"}]
  BY <1>2 DEF Put, Tables
<1> HIDE DEF C, u
<1>6. u = [aliases |-> t.aliases, channels |-> C, recorded |-> t.recorded,
           carried |-> t.carried, lastSample |-> t.lastSample, latest |-> keys]
  BY <1>1 DEF Tables
<1>7. Tables(u)
  BY <1>3, <1>4, <1>6 DEF Tables
<1> QED BY <1>6, <1>7 DEF u

\* Recording an event keeps the types of the tables, whatever the key.
LEMMA WithEventTyped ==
  ASSUME NEW t, Tables(t), NEW e \in Entry, NEW key \in Key,
         AliasTable(RecordAliases(t.aliases, EventRows(e.ids), key))
  PROVE  /\ Tables(WithEvent(t, e, key))
         /\ WithEvent(t, e, key).aliases =
              RecordAliases(t.aliases, EventRows(e.ids), key)
<1> DEFINE A == RecordAliases(t.aliases, EventRows(e.ids), key)
           S == t.recorded \cup {Stored(e, key)}
           M == [t.carried EXCEPT ![e.chan] = @ \cup EventMarks(e)]
           u == WithEvent(t, e, key)
<1>1. u = [t EXCEPT !.aliases = A, !.recorded = S, !.carried = M]
  BY DEF WithEvent
<1>2. M \in [Chan -> SUBSET Key]
  BY MarksTyped, ListedIds DEF Tables
<1> HIDE DEF A, S, M, u
<1>3. u = [aliases |-> A, channels |-> t.channels, recorded |-> S, carried |-> M,
           lastSample |-> t.lastSample, latest |-> t.latest]
  BY <1>1 DEF Tables
<1>4. S \subseteq [key : Key, chan : Chan, scid : Id \cup {NoId}] /\ AliasTable(A)
  BY StoredTyped DEF Tables, S, A
<1>5. Tables(u)
  BY <1>2, <1>3, <1>4 DEF Tables
<1> QED BY <1>3, <1>5 DEF u, A

\* A new database is well typed and sound.
LEMMA EmptyTablesSound == Tables(EmptyTables) /\ SoundTable(EmptyTables.aliases)
<1>1. DOMAIN EmptyTables.aliases = {} /\ DOMAIN EmptyTables.channels = {}
  BY DEF EmptyTables
<1>2. Tables(EmptyTables)
  BY DEF EmptyTables, Tables, AliasTable, SampleRecord
<1>3. SoundTable(EmptyTables.aliases)
  BY <1>1, <1>2 DEF Tables, SoundTable, Functional, Rooted, Kinded, Named
<1> QED BY <1>2, <1>3

(***************************************************************************)
(* The theorems.                                                           *)
(***************************************************************************)

\* An idle collector holds nothing.
LEMMA NothingTyped == <<>> \in Seq(Entry) /\ 1 \in Nat \ {0} /\ {} \subseteq Key
  OBVIOUS

\* A listpeerchannels response is a sequence of entries.
LEMMA ResponseTyped ==
  ASSUME NEW L \in SUBSET Chan, NEW s \in Responses(L)
  PROVE  s \in Seq(Entry)
<1>1. Cardinality(L) \in Nat
  BY FS_Subset, FS_CardinalityType, ReportsAssumption
<1> QED BY <1>1 DEF Responses

\* The tables and the collector's state always have their types, in every step of
\* a snapshot, at a rollback and for every event.  No assumption is made on which
\* values the reports share.
THEOREM TypeCorrect == Spec => []TypeOK
<1>1. Init => TypeOK
  BY EmptyTablesSound, NothingTyped DEF Init, TypeOK
<1>2. TypeOK /\ [Next]_vars => TypeOK'
  <2> SUFFICES ASSUME TypeOK, [Next]_vars PROVE TypeOK'
    OBVIOUS
  <2> USE DEF TypeOK
  <2>1. CASE BeginSnapshot
    BY <2>1, ResponseTyped DEF BeginSnapshot
  <2>2. CASE RecordSample
    <3>1. /\ next \in 1..Len(response) /\ response[next] \in Entry
          /\ next - 1 \in Nat /\ next' \in Nat \ {0}
      BY <2>2 DEF RecordSample
    <3>2. PICK key \in SampleKeys(tx.aliases, response[next], next - 1) :
            /\ tx' = WithSample(tx, response[next], next - 1, key)
            /\ present' = present \cup {key}
      BY <2>2 DEF RecordSample
    <3>3. /\ key \in Key
          /\ AliasTable(RecordAliases(tx.aliases,
                          SampleRows(response[next].ids, key), key))
      BY <3>1, <3>2, SampleKeyTyped DEF Tables
    <3>4. Tables(tx')
      BY <3>1, <3>2, <3>3, WithSampleTyped
    <3> QED BY <2>2, <3>1, <3>2, <3>3, <3>4 DEF RecordSample
  <2>3. CASE FinishSnapshot
    <3>1. Tables(db')
      BY <2>3, WithDisappearancesTyped DEF FinishSnapshot
    <3> QED BY <2>3, <3>1, EmptyTablesSound, NothingTyped DEF FinishSnapshot, Done
  <2>4. CASE Rollback
    BY <2>4, EmptyTablesSound, NothingTyped DEF Rollback, Done
  <2>5. CASE \E e \in Entry : RecordChannelEvent(e)
    <3>1. PICK e \in Entry : RecordChannelEvent(e)
      BY <2>5
    <3>2. PICK key \in EventKeys(db.aliases, e) : db' = WithEvent(db, e, key)
      BY <3>1 DEF RecordChannelEvent
    <3>3. Tables(db')
      BY <3>2, EventKeyTyped, WithEventTyped DEF Tables
    <3> QED BY <3>1, <3>3 DEF RecordChannelEvent, transaction
  <2>6. CASE UNCHANGED vars
    BY <2>6 DEF vars, transaction
  <2> QED BY <2>1, <2>2, <2>3, <2>4, <2>5, <2>6 DEF Next
<1> QED BY <1>1, <1>2, PTL DEF Spec

IInv == TypeOK /\ SoundAliases

\* The alias tables stay sound, committed or not.
THEOREM InductiveInvariant == Spec => []IInv
<1>1. Init => SoundAliases
  BY EmptyTablesSound DEF Init, SoundAliases
<1>2. TypeOK /\ SoundAliases /\ [Next]_vars => SoundAliases'
  <2> SUFFICES ASSUME TypeOK, SoundAliases, [Next]_vars PROVE SoundAliases'
    OBVIOUS
  <2> USE DEF TypeOK, SoundAliases
  <2>1. CASE BeginSnapshot
    BY <2>1 DEF BeginSnapshot
  <2>2. CASE RecordSample
    <3>1. response[next] \in Entry /\ next - 1 \in Nat
      BY <2>2 DEF RecordSample
    <3>2. PICK key \in SampleKeys(tx.aliases, response[next], next - 1) :
            tx' = WithSample(tx, response[next], next - 1, key)
      BY <2>2 DEF RecordSample
    <3>3. tx'.aliases =
            RecordAliases(tx.aliases, SampleRows(response[next].ids, key), key)
      BY <3>2 DEF WithSample
    <3>4. SoundTable(tx'.aliases)
      BY <3>1, <3>2, <3>3, SampleRowsFit
    <3> QED BY <2>2, <3>4 DEF RecordSample
  <2>3. CASE FinishSnapshot
    <3>1. SoundTable(db'.aliases)
      BY <2>3, WithDisappearancesTyped DEF FinishSnapshot
    <3> QED BY <2>3, <3>1, EmptyTablesSound DEF FinishSnapshot, Done
  <2>4. CASE Rollback
    BY <2>4, EmptyTablesSound DEF Rollback, Done
  <2>5. CASE \E e \in Entry : RecordChannelEvent(e)
    <3>1. PICK e \in Entry : RecordChannelEvent(e)
      BY <2>5
    <3>2. PICK key \in EventKeys(db.aliases, e) : db' = WithEvent(db, e, key)
      BY <3>1 DEF RecordChannelEvent
    <3>3. db'.aliases = RecordAliases(db.aliases, EventRows(e.ids), key)
      BY <3>2, EventKeyTyped, WithEventTyped DEF Tables
    <3>4. SoundTable(db'.aliases)
      BY <3>2, <3>3, EventRowsFit
    <3> QED BY <3>1, <3>4 DEF RecordChannelEvent, transaction
  <2>6. CASE UNCHANGED vars
    BY <2>6 DEF vars, transaction
  <2> QED BY <2>1, <2>2, <2>3, <2>4, <2>5, <2>6 DEF Next
<1> QED BY <1>1, <1>2, TypeCorrect, PTL DEF Spec, IInv

\* Whatever the node reports, no row of the alias table is ever out of place:
\* keys are roots and a value is known under its own kind or as an identity.
THEOREM AliasesStaySound == Spec => []SoundAliases
<1>1. IInv => SoundAliases
  BY DEF IInv
<1> QED BY <1>1, InductiveInvariant, PTL

\* No alias ever leads two ways, whichever reports the node makes and whenever
\* the process dies, so the LIMIT 1 of resolve_alias never has a choice.
THEOREM ResolutionIsFunctional == Spec => []FunctionalResolution
<1>1. IInv => FunctionalResolution
  BY DEF IInv, SoundAliases, SoundTable, FunctionalResolution
<1> QED BY <1>1, InductiveInvariant, PTL

(***************************************************************************)
(* The channels that are there.                                            *)
(***************************************************************************)

\* Recording a sample makes its key active.
LEMMA SampleKeepsActive ==
  ASSUME NEW t, NEW e, NEW i, NEW key
  PROVE  LET u == WithSample(t, e, i, key)
         IN Active(u) = Active(t) \cup {key} /\ u.latest = t.latest
<1> DEFINE u == WithSample(t, e, i, key)
<1>1. u.channels = Put(t.channels, {key}, "present") /\ u.latest = t.latest
  BY DEF WithSample
<1>2. Active(u) = Active(t) \cup {key}
  BY <1>1 DEF Active, Put
<1> QED BY <1>1, <1>2

\* Marking the absent channels leaves exactly the keys of the snapshot active,
\* if they all were.
LEMMA DisappearancesKeepActive ==
  ASSUME NEW t, Tables(t), NEW keys, keys \subseteq Active(t)
  PROVE  LET u == WithDisappearances(t, keys)
         IN Active(u) = keys /\ u.latest = keys
<1> DEFINE u == WithDisappearances(t, keys)
<1>1. /\ u.channels = Put(t.channels, Gone(t, keys), "disappeared")
      /\ u.latest = keys
  BY DEF WithDisappearances, Tables
<1>2. Active(u) = Active(t) \ Gone(t, keys)
  BY <1>1 DEF Active, Put, Gone
<1> QED BY <1>1, <1>2 DEF Gone

\* The active channels as an inductive invariant: in the open transaction, the
\* keys recorded so far are active.
Lifecycle == present \subseteq Active(tx) /\ ActiveIsLatestSnapshot

\* The channels that metrics() counts as active are those of the latest complete
\* snapshot, for any channels and whatever failed or crashed since.
THEOREM ActiveFollowsSnapshots == Spec => []ActiveIsLatestSnapshot
<1>1. Init => Lifecycle
  BY DEF Init, Lifecycle, EmptyTables, Active, ActiveIsLatestSnapshot
<1>2. TypeOK /\ Lifecycle /\ [Next]_vars => Lifecycle'
  <2> SUFFICES ASSUME TypeOK, Lifecycle, [Next]_vars PROVE Lifecycle'
    OBVIOUS
  <2>1. Tables(tx) /\ Tables(db)
    BY DEF TypeOK
  <2>2. CASE BeginSnapshot
    BY <2>2 DEF BeginSnapshot, Lifecycle, Active, ActiveIsLatestSnapshot
  <2>3. CASE RecordSample
    <3>1. PICK key \in SampleKeys(tx.aliases, response[next], next - 1) :
            /\ tx' = WithSample(tx, response[next], next - 1, key)
            /\ present' = present \cup {key}
      BY <2>3 DEF RecordSample
    <3>2. Active(tx') = Active(tx) \cup {key}
      BY <3>1, SampleKeepsActive
    <3>3. UNCHANGED db
      BY <2>3 DEF RecordSample
    <3> QED BY <3>1, <3>2, <3>3 DEF Lifecycle, ActiveIsLatestSnapshot
  <2>4. CASE FinishSnapshot
    <3>1. db' = WithDisappearances(tx, present)
      BY <2>4 DEF FinishSnapshot
    <3>2. Active(db') = present /\ db'.latest = present
      BY <3>1, <2>1, DisappearancesKeepActive DEF Lifecycle
    <3>3. present' = {}
      BY <2>4 DEF FinishSnapshot, Done
    <3> QED BY <3>2, <3>3 DEF Lifecycle, ActiveIsLatestSnapshot
  <2>5. CASE Rollback
    BY <2>5 DEF Rollback, Done, Lifecycle, ActiveIsLatestSnapshot
  <2>6. CASE \E e \in Entry : RecordChannelEvent(e)
    <3>1. PICK e \in Entry : RecordChannelEvent(e)
      BY <2>6
    <3>2. PICK key : db' = WithEvent(db, e, key)
      BY <3>1 DEF RecordChannelEvent
    <3>3. db'.channels = db.channels /\ db'.latest = db.latest
      BY <3>2, <2>1 DEF WithEvent, Tables
    <3>4. UNCHANGED <<tx, present>>
      BY <3>1 DEF RecordChannelEvent, transaction
    <3>5. Active(db') = Active(db)
      BY <3>3 DEF Active
    <3> QED BY <3>3, <3>4, <3>5 DEF Lifecycle, ActiveIsLatestSnapshot
  <2>7. CASE UNCHANGED vars
    BY <2>7 DEF vars, transaction, Lifecycle, ActiveIsLatestSnapshot
  <2> QED BY <2>2, <2>3, <2>4, <2>5, <2>6, <2>7 DEF Next
<1>3. Lifecycle => ActiveIsLatestSnapshot
  BY DEF Lifecycle
<1> QED BY <1>1, <1>2, <1>3, TypeCorrect, PTL DEF Spec

(***************************************************************************)
(* The refinement: the alias table implements IdentityDirectory.           *)
(***************************************************************************)

Extends(t, u) ==
  DOMAIN t \subseteq DOMAIN u /\ \A p \in DOMAIN t : u[p] = t[p]

\* record_alias only adds rows.
LEMMA RecordAliasesExtends ==
  ASSUME NEW t, NEW rows, NEW key
  PROVE  Extends(t, RecordAliases(t, rows, key))
BY DEF Extends, RecordAliases

\* In a table that is functional, the directory maps an alias to the key of any
\* of its rows.
LEMMA DirectoryLooksUp ==
  ASSUME NEW t, SoundTable(t)
  PROVE  /\ DOMAIN DirectoryOf(t) = {p[2] : p \in DOMAIN t}
         /\ \A p \in DOMAIN t : DirectoryOf(t)[p[2]] = t[p]
<1> DEFINE Row(a) == CHOOSE p \in DOMAIN t : p[2] = a
<1>1. DOMAIN DirectoryOf(t) = {p[2] : p \in DOMAIN t}
  BY DEF DirectoryOf
<1>2. ASSUME NEW p \in DOMAIN t
      PROVE  DirectoryOf(t)[p[2]] = t[p]
  <2>1. Row(p[2]) \in DOMAIN t /\ Row(p[2])[2] = p[2]
    OBVIOUS
  <2>2. t[Row(p[2])] = t[p]
    BY <2>1 DEF SoundTable, Functional
  <2>3. DirectoryOf(t)[p[2]] = t[Row(p[2])]
    BY DEF DirectoryOf
  <2> QED BY <2>2, <2>3
<1> QED BY <1>1, <1>2

\* A sound table that extends a sound one binds new aliases and no others, and
\* only to roots.
LEMMA ExtensionBinds ==
  ASSUME NEW t, NEW u, SoundTable(t), SoundTable(u), Extends(t, u)
  PROVE  LET d == DirectoryOf(t)
             e == DirectoryOf(u)
         IN /\ e \in [DOMAIN e -> Key]
            /\ \A a \in DOMAIN d : a \in DOMAIN e /\ e[a] = d[a]
            /\ \A a \in DOMAIN e : e[a] \in DOMAIN e /\ e[e[a]] = e[a]
<1> DEFINE d == DirectoryOf(t)
           e == DirectoryOf(u)
<1>1. /\ DOMAIN d = {p[2] : p \in DOMAIN t}
      /\ \A p \in DOMAIN t : d[p[2]] = t[p]
  BY DirectoryLooksUp
<1>2. /\ DOMAIN e = {p[2] : p \in DOMAIN u}
      /\ \A p \in DOMAIN u : e[p[2]] = u[p]
  BY DirectoryLooksUp
<1>3. e = [a \in DOMAIN e |-> e[a]]
  BY DEF DirectoryOf
<1> HIDE DEF d, e
<1>4. \A a \in DOMAIN e : e[a] \in Key
  BY <1>2 DEF SoundTable, AliasTable
<1>5. \A a \in DOMAIN d : a \in DOMAIN e /\ e[a] = d[a]
  BY <1>1, <1>2 DEF Extends
<1>6. ASSUME NEW a \in DOMAIN e
      PROVE  e[a] \in DOMAIN e /\ e[e[a]] = e[a]
  <2>1. PICK p \in DOMAIN u : a = p[2] /\ e[a] = u[p]
    BY <1>2
  <2>2. PICK q \in DOMAIN u : q[2] = u[p] /\ u[q] = u[p]
    BY <2>1 DEF SoundTable, Rooted
  <2> QED BY <1>2, <2>1, <2>2
<1> QED BY <1>3, <1>4, <1>5, <1>6 DEF d, e

\* While a transaction is open its alias table extends the committed one.
Ahead == recording => Extends(db.aliases, tx.aliases)

\* A snapshot never changes or removes an alias on its way to the commit.
THEOREM SnapshotsOnlyAdd == Spec => []Ahead
<1>1. Init => Ahead
  BY DEF Init, Ahead
<1>2. Ahead /\ [Next]_vars => Ahead'
  <2> SUFFICES ASSUME Ahead, [Next]_vars PROVE Ahead'
    OBVIOUS
  <2>1. CASE BeginSnapshot
    BY <2>1 DEF BeginSnapshot, Ahead, Extends
  <2>2. CASE RecordSample
    <3>1. PICK key : tx' = WithSample(tx, response[next], next - 1, key)
      BY <2>2 DEF RecordSample
    <3>2. tx'.aliases =
            RecordAliases(tx.aliases, SampleRows(response[next].ids, key), key)
      BY <3>1 DEF WithSample
    <3>3. Extends(tx.aliases, tx'.aliases)
      BY <3>2, RecordAliasesExtends
    <3> QED BY <2>2, <3>3 DEF RecordSample, Ahead, Extends
  <2>3. CASE FinishSnapshot \/ Rollback
    BY <2>3 DEF FinishSnapshot, Rollback, Done, Ahead
  <2>4. CASE \E e \in Entry : RecordChannelEvent(e)
    BY <2>4 DEF RecordChannelEvent, transaction, Ahead
  <2>5. CASE UNCHANGED vars
    BY <2>5 DEF vars, transaction, Ahead
  <2> QED BY <2>1, <2>2, <2>3, <2>4, <2>5 DEF Next
<1> QED BY <1>1, <1>2, PTL DEF Spec

\* The tables implement the directory of identities: an alias that leads to an
\* identity leads there for ever, whatever the node reports, through rollbacks,
\* crashes and events between two snapshots.
THEOREM DirectoryIsImplemented == Spec => ImplementsDirectory
<1>1. Init => Directory!Init
  <2> SUFFICES ASSUME Init PROVE Directory!Init
    OBVIOUS
  <2>1. DOMAIN db.aliases = {}
    BY DEF Init, EmptyTables
  <2> QED BY <2>1 DEF Directory!Init, DirectoryOf
<1>2. IInv /\ IInv' /\ Ahead /\ [Next]_vars =>
        [Directory!Bind]_(DirectoryOf(db.aliases))
  <2> SUFFICES ASSUME IInv, IInv', Ahead, [Next]_vars
               PROVE  Directory!Bind \/ UNCHANGED DirectoryOf(db.aliases)
    OBVIOUS
  <2>1. SoundTable(db.aliases) /\ SoundTable(db'.aliases) /\ Tables(db) /\ Tables(tx)
    BY DEF IInv, SoundAliases, TypeOK
  <2>2. ASSUME Extends(db.aliases, db'.aliases)
        PROVE  Directory!Bind
    BY <2>1, <2>2, ExtensionBinds DEF Directory!Bind
  <2>3. CASE BeginSnapshot \/ RecordSample \/ Rollback
    BY <2>3 DEF BeginSnapshot, RecordSample, Rollback
  <2>4. CASE FinishSnapshot
    <3>1. db'.aliases = tx.aliases
      BY <2>1, <2>4 DEF FinishSnapshot, WithDisappearances, Tables
    <3>2. Extends(db.aliases, tx.aliases)
      BY <2>4 DEF FinishSnapshot, Ahead
    <3> QED BY <2>2, <3>1, <3>2
  <2>5. CASE \E e \in Entry : RecordChannelEvent(e)
    <3>1. PICK e \in Entry : RecordChannelEvent(e)
      BY <2>5
    <3>2. PICK key \in EventKeys(db.aliases, e) : db' = WithEvent(db, e, key)
      BY <3>1 DEF RecordChannelEvent
    <3>3. db'.aliases = RecordAliases(db.aliases, EventRows(e.ids), key)
      BY <2>1, <3>2 DEF WithEvent, Tables
    <3>4. Extends(db.aliases, db'.aliases)
      BY <3>3, RecordAliasesExtends
    <3> QED BY <2>2, <3>4
  <2>6. CASE UNCHANGED vars
    BY <2>6 DEF vars
  <2> QED BY <2>3, <2>4, <2>5, <2>6 DEF Next
<1> QED
  BY <1>1, <1>2, InductiveInvariant, SnapshotsOnlyAdd, PTL
  DEF Spec, ImplementsDirectory, Directory!Spec

(***************************************************************************)
(* The separation of histories.                                            *)
(***************************************************************************)

\* What the entries of some channels could be told by.
MarksOf(t, S) == UNION {t.carried[c] : c \in S}

\* Every alias was somebody's mark, and no row and no entry leaves the channels
\* that something connects.
Apart(t) ==
  /\ \A p \in DOMAIN t.aliases : p[2] \in MarksOf(t, Chan)
  /\ \A S \in SUBSET Chan : Unconnected(t, S) =>
       /\ \A p \in DOMAIN t.aliases :
            p[2] \in MarksOf(t, S) => t.aliases[p] \in MarksOf(t, S)
       /\ \A x \in t.recorded : x.chan \in S => x.key \in MarksOf(t, S) \cup PeerKey

\* A mark is on one side of a set that nothing connects with the rest.
LEMMA OneSide ==
  ASSUME NEW t, NEW S \in SUBSET Chan, Unconnected(t, S)
  PROVE  /\ Unconnected(t, Chan \ S)
         /\ MarksOf(t, S) \cap MarksOf(t, Chan \ S) = {}
         /\ MarksOf(t, Chan) = MarksOf(t, S) \cup MarksOf(t, Chan \ S)
BY DEF Unconnected, MarksOf

\* resolve_sample_identity: the key is one that some mark of the sample leads to,
\* or a mark of its own.
LEMMA SampleKeyMarked ==
  ASSUME NEW t, NEW e \in Entry, NEW i \in Nat, NEW key \in SampleKeys(t, e, i)
  PROVE  \/ \E p \in DOMAIN t : p[2] \in SampleMarks(e, i) /\ t[p] = key
         \/ key \in SampleMarks(e, i)
<1>1. \A k \in Listed(e.ids) : e.ids[k] \in SampleMarks(e, i)
  BY DEF SampleMarks
<1>2. CASE key = OwnKey(e, i)
  BY <1>1, <1>2, OwnKeyForms DEF SampleMarks
<1>3. ASSUME NEW k \in Deciding(t, e.ids), key \in Resolve(t, e.ids[k])
      PROVE  \E p \in DOMAIN t : p[2] \in SampleMarks(e, i) /\ t[p] = key
  <2>1. PICK p \in DOMAIN t : p[2] = e.ids[k] /\ t[p] = key
    BY <1>3, ResolveRow
  <2>2. e.ids[k] \in SampleMarks(e, i)
    BY <1>1 DEF Deciding
  <2> QED BY <2>1, <2>2
<1> QED BY <1>2, <1>3 DEF SampleKeys

\* record_channel_event chooses so too, or files the event as the peer's and binds
\* no alias.
LEMMA EventKeyMarked ==
  ASSUME NEW t, AliasTable(t), NEW e \in Entry, NEW key \in EventKeys(t, e)
  PROVE  \/ \E p \in DOMAIN t : p[2] \in EventMarks(e) /\ t[p] = key
         \/ key \in EventMarks(e)
         \/ key \in PeerKey /\ EventRows(e.ids) = {}
<1> DEFINE cid  == e.ids["channel_id"]
           scid == e.ids["short_channel_id"]
<1>1. ASSUME NEW a \in {cid, scid}, key \in Resolve(t, a)
      PROVE  \E p \in DOMAIN t : p[2] \in EventMarks(e) /\ t[p] = key
  <2>1. PICK p \in DOMAIN t : p[2] = a /\ t[p] = key
    BY <1>1, ResolveRow
  <2>2. p[2] # NoId
    BY ReportsAssumption DEF AliasTable
  <2> QED BY <2>1, <2>2 DEF EventMarks
<1>2. CASE key \notin Resolve(t, cid) /\ key \notin Resolve(t, scid)
  <2>1. key = IF cid # NoId THEN cid ELSE IF scid # NoId THEN scid
              ELSE <<"peer", PeerOf[e.chan]>>
    BY <1>2 DEF EventKeys
  <2>2. CASE cid # NoId \/ scid # NoId
    BY <2>1, <2>2 DEF EventMarks
  <2>3. CASE cid = NoId /\ scid = NoId
    BY <2>1, <2>3, ListedIds DEF EventRows, PeerKey, Peer
  <2> QED BY <2>2, <2>3
<1> QED BY <1>1, <1>2

\* u is t with an entry stored under key, by its marks M and with alias rows R.
Stores(t, u, e, key, M, R) ==
  /\ u.aliases = RecordAliases(t.aliases, R, key)
  /\ u.recorded = t.recorded \cup {Stored(e, key)}
  /\ u.carried = [t.carried EXCEPT ![e.chan] = @ \cup M]
  /\ \A r \in R : r[2] \in M \/ r[2] = key
  /\ \/ \E p \in DOMAIN t.aliases : p[2] \in M /\ t.aliases[p] = key
     \/ key \in M
     \/ key \in PeerKey /\ R = {}

\* Storing an entry under such a key, with the alias rows of its marks and of the
\* key, keeps the channels apart that nothing connects.
LEMMA StoringKeepsApart ==
  ASSUME NEW t, NEW u, NEW e \in Entry, NEW key, NEW M, NEW R,
         t.carried \in [Chan -> SUBSET Key], Apart(t), Stores(t, u, e, key, M, R)
  PROVE  Apart(u)
<1> USE DEF Stores
<1>1. /\ \A c \in Chan : t.carried[c] \subseteq u.carried[c]
      /\ e.chan \in Chan /\ M \subseteq u.carried[e.chan]
  BY ListedIds
<1>2. \A S \in SUBSET Chan : MarksOf(t, S) \subseteq MarksOf(u, S)
                              /\ (e.chan \in S => M \subseteq MarksOf(u, S))
  BY <1>1 DEF MarksOf
<1>3. \A S \in SUBSET Chan : Unconnected(u, S) => Unconnected(t, S)
  BY <1>1 DEF Unconnected
<1>4. /\ DOMAIN u.aliases = DOMAIN t.aliases \cup R
      /\ \A p \in DOMAIN t.aliases : u.aliases[p] = t.aliases[p]
      /\ \A p \in R \ DOMAIN t.aliases : u.aliases[p] = key
  BY DEF RecordAliases
<1>5. ASSUME NEW S \in SUBSET Chan, Unconnected(u, S),
             NEW p \in DOMAIN t.aliases, p[2] \in MarksOf(u, S)
      PROVE  t.aliases[p] \in MarksOf(u, S)
  <2>1. p[2] \in MarksOf(t, S) \cup MarksOf(t, Chan \ S)
    BY <1>3, <1>5, OneSide DEF Apart
  <2>2. p[2] \notin MarksOf(t, Chan \ S)
    BY <1>2, <1>5, OneSide
  <2>3. t.aliases[p] \in MarksOf(t, S)
    BY <1>3, <1>5, <2>1, <2>2 DEF Apart
  <2> QED BY <1>2, <2>3
<1>6. ASSUME NEW S \in SUBSET Chan, Unconnected(u, S), e.chan \in S
      PROVE  key \in MarksOf(u, S) \/ (key \in PeerKey /\ R = {})
  BY <1>2, <1>5, <1>6
<1>7. ASSUME NEW p \in DOMAIN u.aliases PROVE p[2] \in MarksOf(u, Chan)
  <2>1. Unconnected(u, Chan)
    BY DEF Unconnected
  <2>2. R = {} \/ key \in MarksOf(u, Chan)
    BY <1>1, <1>6, <2>1
  <2> QED BY <1>1, <1>2, <1>4, <2>2 DEF Apart
<1>8. ASSUME NEW S \in SUBSET Chan, Unconnected(u, S),
             NEW p \in DOMAIN u.aliases, p[2] \in MarksOf(u, S)
      PROVE  u.aliases[p] \in MarksOf(u, S)
  <2>1. CASE p \in DOMAIN t.aliases
    BY <1>4, <1>5, <1>8, <2>1
  <2>2. CASE p \in R \ DOMAIN t.aliases
    <3>1. u.aliases[p] = key /\ R # {}
      BY <1>4, <2>2
    <3>2. CASE e.chan \in S
      BY <1>6, <1>8, <3>1, <3>2
    <3>3. CASE e.chan \in Chan \ S
      <4>1. key \in MarksOf(u, Chan \ S)
        BY <1>6, <1>8, <3>1, <3>3, OneSide
      <4>2. p[2] \in MarksOf(u, Chan \ S)
        BY <1>2, <2>2, <3>3, <4>1
      <4> QED BY <1>8, <4>2, OneSide
    <3> QED BY <1>1, <3>2, <3>3
  <2> QED BY <1>4, <2>1, <2>2
<1>9. ASSUME NEW S \in SUBSET Chan, Unconnected(u, S), NEW x \in u.recorded, x.chan \in S
      PROVE  x.key \in MarksOf(u, S) \cup PeerKey
  <2>1. CASE x \in t.recorded
    BY <1>2, <1>3, <1>9, <2>1 DEF Apart
  <2>2. CASE x = Stored(e, key)
    BY <1>6, <1>9, <2>2 DEF Stored
  <2> QED BY <2>1, <2>2
<1> QED BY <1>7, <1>8, <1>9 DEF Apart

\* What Apart says of the tables it says of a copy of them.
LEMMA CopyStaysApart ==
  ASSUME NEW t, NEW u, Apart(t), u.aliases = t.aliases, u.recorded = t.recorded,
         u.carried = t.carried
  PROVE  Apart(u)
<1>1. \A S : MarksOf(u, S) = MarksOf(t, S) /\ (Unconnected(u, S) <=> Unconnected(t, S))
  BY DEF MarksOf, Unconnected
<1> QED BY <1>1 DEF Apart

\* Committed or not, the tables keep the channels apart.
Separation == Apart(tx) /\ Apart(db)

\* For any node, whatever its channels list, share, lose or change: the histories
\* of two channels are stored under one key only if shared values or positions of
\* nameless channels connect the two, through any number of others.
THEOREM HistoriesStayApart == Spec => []NoMerge
<1>1. Apart(EmptyTables)
  BY DEF Apart, EmptyTables
<1>2. Init => Separation
  BY <1>1 DEF Init, Separation
<1>3. TypeOK /\ Separation /\ [Next]_vars => Separation'
  <2> SUFFICES ASSUME TypeOK, Separation, [Next]_vars PROVE Separation'
    OBVIOUS
  <2>1. Tables(tx) /\ Tables(db)
    BY DEF TypeOK
  <2>2. CASE BeginSnapshot
    BY <2>2 DEF BeginSnapshot, Separation
  <2>3. CASE RecordSample
    <3> DEFINE e == response[next]
               i == next - 1
    <3>1. e \in Entry /\ i \in Nat
      BY <2>3 DEF RecordSample, TypeOK
    <3>2. PICK key \in SampleKeys(tx.aliases, e, i) : tx' = WithSample(tx, e, i, key)
      BY <2>3 DEF RecordSample
    <3>3. UNCHANGED db
      BY <2>3 DEF RecordSample
    <3> HIDE DEF e, i
    <3>4. /\ tx'.aliases = RecordAliases(tx.aliases, SampleRows(e.ids, key), key)
          /\ tx'.recorded = tx.recorded \cup {Stored(e, key)}
          /\ tx'.carried = [tx.carried EXCEPT ![e.chan] = @ \cup SampleMarks(e, i)]
      BY <3>2 DEF WithSample
    <3>5. \A r \in SampleRows(e.ids, key) : r[2] \in SampleMarks(e, i) \/ r[2] = key
      BY DEF SampleRows, SampleMarks
    <3>6. tx.carried \in [Chan -> SUBSET Key]
      BY <2>1 DEF Tables
    <3>7. \/ \E p \in DOMAIN tx.aliases :
               p[2] \in SampleMarks(e, i) /\ tx.aliases[p] = key
          \/ key \in SampleMarks(e, i)
      BY <3>1, <3>2, SampleKeyMarked
    <3>8. Stores(tx, tx', e, key, SampleMarks(e, i), SampleRows(e.ids, key))
      BY <3>4, <3>5, <3>7 DEF Stores
    <3>9. Apart(tx')
      BY <3>1, <3>6, <3>8, StoringKeepsApart DEF Separation
    <3> QED BY <3>3, <3>9 DEF Separation
  <2>4. CASE FinishSnapshot
    <3>1. /\ db'.aliases = tx.aliases /\ db'.recorded = tx.recorded
          /\ db'.carried = tx.carried
      BY <2>1, <2>4, WithDisappearancesTyped DEF FinishSnapshot, TypeOK
    <3>2. Apart(db')
      BY <3>1, CopyStaysApart DEF Separation
    <3> QED BY <1>1, <2>4, <3>2 DEF FinishSnapshot, Done, Separation
  <2>5. CASE Rollback
    BY <1>1, <2>5 DEF Rollback, Done, Separation
  <2>6. CASE \E e \in Entry : RecordChannelEvent(e)
    <3>1. PICK e \in Entry : RecordChannelEvent(e)
      BY <2>6
    <3>2. PICK key \in EventKeys(db.aliases, e) : db' = WithEvent(db, e, key)
      BY <3>1 DEF RecordChannelEvent
    <3>3. /\ db'.aliases = RecordAliases(db.aliases, EventRows(e.ids), key)
          /\ db'.recorded = db.recorded \cup {Stored(e, key)}
          /\ db'.carried = [db.carried EXCEPT ![e.chan] = @ \cup EventMarks(e)]
      BY <2>1, <3>2 DEF WithEvent, Tables
    <3>4. \A r \in EventRows(e.ids) : r[2] \in EventMarks(e)
      BY DEF EventRows, EventMarks
    <3>5. db.carried \in [Chan -> SUBSET Key] /\ AliasTable(db.aliases)
      BY <2>1 DEF Tables
    <3>6. \/ \E p \in DOMAIN db.aliases : p[2] \in EventMarks(e) /\ db.aliases[p] = key
          \/ key \in EventMarks(e)
          \/ key \in PeerKey /\ EventRows(e.ids) = {}
      BY <3>2, <3>5, EventKeyMarked
    <3>7. Stores(db, db', e, key, EventMarks(e), EventRows(e.ids))
      BY <3>3, <3>4, <3>6 DEF Stores
    <3>8. Apart(db')
      BY <3>5, <3>7, StoringKeepsApart DEF Separation
    <3> QED BY <3>1, <3>8 DEF RecordChannelEvent, transaction, Separation
  <2>7. CASE UNCHANGED vars
    BY <2>7 DEF vars, transaction, Separation
  <2> QED BY <2>2, <2>3, <2>4, <2>5, <2>6, <2>7 DEF Next
<1>4. TypeOK /\ Separation => NoMerge
  <2> SUFFICES ASSUME TypeOK, Apart(db), NEW S \in SUBSET Chan, Unconnected(db, S),
                      NEW x \in db.recorded, NEW y \in db.recorded,
                      x.key = y.key, x.key \notin PeerKey, x.chan \in S
               PROVE  y.chan \in S
    <3>1. SUFFICES ASSUME TypeOK, Separation PROVE NoMerge
      OBVIOUS
    <3> QED BY <3>1 DEF Separation, NoMerge
  <2>1. y.chan \in Chan
    BY DEF TypeOK, Tables
  <2>2. CASE y.chan \in Chan \ S
    <3>1. x.key \in MarksOf(db, S) /\ y.key \in MarksOf(db, Chan \ S)
      BY <2>2, OneSide DEF Apart
    <3> QED BY <3>1, OneSide
  <2> QED BY <2>1, <2>2
<1> QED BY <1>2, <1>3, <1>4, TypeCorrect, PTL DEF Spec

(***************************************************************************)
(* The identity of an anchored channel.                                    *)
(***************************************************************************)

\* The values that stand for a channel in some report.
IdsOf(c) == UNION {{r[k] : k \in Listed(r)} : r \in Reports[c]}

\* The node never uses a value for two channels, not even one after the other.
OwnedIds == \A c, d \in Chan : IdsOf(c) \cap IdsOf(d) # {} => c = d

\* An entry lists only values of its channel.
LEMMA ListedOwn ==
  ASSUME NEW e \in Entry, NEW k \in Listed(e.ids)
  PROVE  e.ids[k] \in IdsOf(e.chan)
BY ListedIds DEF IdsOf

\* Rows of the values of channel c and rows that lead to them are the same, and
\* all of them lead where the SCID leads.
AnchoredTable(t, c, scid) ==
  /\ \A p \in DOMAIN t : p[2] \in IdsOf(c) <=> t[p] \in IdsOf(c)
  /\ \A p \in DOMAIN t : p[2] \in IdsOf(c) =>
       \E q \in DOMAIN t : q[2] = scid /\ t[q] = t[p]

\* The latest sample of channel c is stored where the SCID leads.
AnchoredSample(t, c, scid) ==
  t.lastSample[c] # NoSample =>
    \E q \in DOMAIN t.aliases : q[2] = scid /\ t.aliases[q] = t.lastSample[c].key

AnchoredTables(t) ==
  \A c \in Chan, scid \in Id : AnchoredBy(t, c, scid) =>
    AnchoredTable(t.aliases, c, scid) /\ AnchoredSample(t, c, scid)

\* How the handlers choose a key: a row of the channel gives it, or the SCID is
\* unknown and the key is a value of the channel or, without a SCID, a made-up one.
Chooses(t, e, key) ==
  \/ \E p \in DOMAIN t : p[2] \in IdsOf(e.chan) /\ t[p] = key
  \/ /\ \A p \in DOMAIN t : p[2] # e.ids["short_channel_id"]
     /\ \/ key \in IdsOf(e.chan)
        \/ key \in PendingKey \cup PeerKey /\ e.ids["short_channel_id"] = NoId

\* The values of channels are identifiers, and a SCID that is there is one.
LEMMA OwnValues ==
  /\ \A c \in Chan : IdsOf(c) \subseteq Id
  /\ \A e \in Entry, k \in {"channel_id", "short_channel_id"} :
       e.ids[k] # NoId => k \in Listed(e.ids) /\ e.ids[k] \in IdsOf(e.chan)
<1>1. ASSUME NEW c \in Chan PROVE IdsOf(c) \subseteq Id
  <2>1. ASSUME NEW r \in Reports[c], NEW k \in Listed(r) PROVE r[k] \in Id
    BY <2>1, ReportsAssumption DEF Listed, Report
  <2> QED BY <2>1 DEF IdsOf
<1>2. ASSUME NEW e \in Entry, NEW k \in {"channel_id", "short_channel_id"}, e.ids[k] # NoId
      PROVE  k \in Listed(e.ids) /\ e.ids[k] \in IdsOf(e.chan)
  <2>1. k \in Listed(e.ids)
    BY <1>2 DEF Listed, SampleKind
  <2> QED BY <2>1, ListedOwn
<1> QED BY <1>1, <1>2

\* No row has a missing field for its alias.
LEMMA NoRowOfNothing ==
  ASSUME NEW t, AliasTable(t)
  PROVE  (\A p \in DOMAIN t : p[2] # NoId) /\ Resolve(t, NoId) = {}
<1>1. \A p \in DOMAIN t : p[2] # NoId
  BY ReportsAssumption DEF AliasTable
<1> QED BY <1>1 DEF Resolve, Rows

\* An alias that resolves to nothing has no row.
LEMMA UnknownHasNoRow ==
  ASSUME NEW t, AliasTable(t), NEW a, Resolve(t, a) = {}
  PROVE  \A p \in DOMAIN t : p[2] # a
<1> SUFFICES ASSUME NEW p \in DOMAIN t, p[2] = a PROVE FALSE
  OBVIOUS
<1>1. p \in Rows(t, a)
  BY DEF Rows
<1> QED BY <1>1, ResolveSome

\* resolve_sample_identity chooses so.
LEMMA SampleChooses ==
  ASSUME NEW t, AliasTable(t), NEW e \in Entry, NEW i \in Nat, NEW key \in SampleKeys(t, e, i)
  PROVE  Chooses(t, e, key)
<1> DEFINE scid == e.ids["short_channel_id"]
<1>1. CASE Deciding(t, e.ids) = {}
  <2>1. key = OwnKey(e, i)
    BY <1>1 DEF SampleKeys
  <2>2. \A p \in DOMAIN t : p[2] # scid
    <3>1. CASE scid = NoId
      BY <3>1, NoRowOfNothing
    <3>2. CASE scid # NoId
      BY <1>1, <3>2, OwnValues, UndecidedIsUnknown, UnknownHasNoRow
    <3> QED BY <3>1, <3>2
  <2>3. CASE \E k \in Listed(e.ids) : OwnKey(e, i) = e.ids[k]
    BY <2>1, <2>2, <2>3, ListedOwn DEF Chooses
  <2>4. CASE OwnKey(e, i) \in PendingKey /\ scid = NoId
    BY <2>1, <2>2, <2>4 DEF Chooses
  <2> QED BY <2>3, <2>4, OwnKeyForms
<1>2. CASE Deciding(t, e.ids) # {}
  <2>1. PICK k \in Deciding(t, e.ids) : key \in Resolve(t, e.ids[k])
    BY <1>2 DEF SampleKeys
  <2>2. k \in Listed(e.ids)
    BY DEF Deciding
  <2>3. \E p \in DOMAIN t : p[2] = e.ids[k] /\ t[p] = key
    BY <2>1, ResolveRow
  <2> QED BY <2>2, <2>3, ListedOwn DEF Chooses
<1> QED BY <1>1, <1>2

\* record_channel_event chooses so too.
LEMMA EventChooses ==
  ASSUME NEW t, AliasTable(t), NEW e \in Entry, NEW key \in EventKeys(t, e)
  PROVE  Chooses(t, e, key)
<1> DEFINE cid  == e.ids["channel_id"]
           scid == e.ids["short_channel_id"]
<1>1. ASSUME NEW a \in {cid, scid}, key \in Resolve(t, a) PROVE Chooses(t, e, key)
  <2>1. a # NoId
    BY <1>1, NoRowOfNothing
  <2>2. a \in IdsOf(e.chan)
    BY <2>1, OwnValues
  <2>3. \E p \in DOMAIN t : p[2] = a /\ t[p] = key
    BY <1>1, ResolveRow
  <2> QED BY <2>2, <2>3 DEF Chooses
<1>2. CASE Resolve(t, cid) = {} /\ Resolve(t, scid) = {}
  <2>1. key = IF cid # NoId THEN cid ELSE IF scid # NoId THEN scid
              ELSE <<"peer", PeerOf[e.chan]>>
    BY <1>2 DEF EventKeys
  <2>2. \A p \in DOMAIN t : p[2] # scid
    BY <1>2, UnknownHasNoRow
  <2>3. CASE cid # NoId \/ scid # NoId
    BY <2>1, <2>2, <2>3, OwnValues DEF Chooses
  <2>4. CASE cid = NoId /\ scid = NoId
    BY <2>1, <2>2, <2>4, ListedIds DEF Chooses, PeerKey, Peer
  <2> QED BY <2>3, <2>4
<1>3. CASE Resolve(t, cid) # {} \/ Resolve(t, scid) # {}
  <2>1. key \in Resolve(t, cid) \/ key \in Resolve(t, scid)
    BY <1>3 DEF EventKeys
  <2> QED BY <2>1, <1>1
<1> QED BY <1>2, <1>3

\* The rows that either handler adds keep an anchored table anchored: those of
\* another channel stay away from it, and its own lead where the SCID leads.
LEMMA RecordAliasesAnchored ==
  ASSUME OwnedIds, NEW t, AliasTable(t), Functional(t), NEW c \in Chan, NEW scid \in Id,
         AnchoredTable(t, c, scid), NEW e \in Entry, NEW key, Chooses(t, e, key), NEW R,
         \A r \in R : r[2] \in IdsOf(e.chan) \/ r[2] = key,
         e.chan = c => e.ids["short_channel_id"] = scid /\ \E r \in R : r[2] = scid
  PROVE  LET u == RecordAliases(t, R, key) IN
           /\ AnchoredTable(u, c, scid)
           /\ e.chan = c => \E q \in DOMAIN u : q[2] = scid /\ u[q] = key
<1> DEFINE u == RecordAliases(t, R, key)
<1>1. /\ DOMAIN u = DOMAIN t \cup R
      /\ \A p \in DOMAIN t : u[p] = t[p]
      /\ \A p \in R \ DOMAIN t : u[p] = key
  BY DEF RecordAliases
<1>2. /\ \A p \in DOMAIN t : p[2] \in IdsOf(c) <=> t[p] \in IdsOf(c)
      /\ \A p \in DOMAIN t : p[2] \in IdsOf(c) =>
           \E q \in DOMAIN t : q[2] = scid /\ t[q] = t[p]
  BY DEF AnchoredTable
<1>3. e.chan \in Chan
  BY ListedIds
<1> HIDE DEF u
<1>4. CASE e.chan = c
  <2>1. key \in IdsOf(c)
    BY <1>2, <1>4, ReportsAssumption DEF Chooses, Key
  <2>2. \A p \in DOMAIN t : p[2] \in IdsOf(c) => t[p] = key
    BY <1>2, <1>4 DEF Chooses, Functional
  <2>3. \A p \in DOMAIN u : p[2] \in IdsOf(c) => u[p] = key
    BY <1>1, <2>2
  <2>4. PICK r \in R : r[2] = scid
    BY <1>4
  <2>5. scid \in IdsOf(c)
    BY <1>4, OwnValues, ReportsAssumption DEF Key
  <2>6. r \in DOMAIN u /\ u[r] = key
    BY <1>1, <2>3, <2>4, <2>5
  <2>7. \A p \in DOMAIN u : p[2] \in IdsOf(c) <=> u[p] \in IdsOf(c)
    BY <1>1, <1>2, <1>4, <2>1
  <2>8. \E q \in DOMAIN u : q[2] = scid /\ u[q] = key
    BY <2>4, <2>6
  <2> QED BY <2>3, <2>7, <2>8 DEF AnchoredTable, u
<1>5. CASE e.chan # c
  <2>1. \A a \in IdsOf(e.chan) : a \notin IdsOf(c)
    BY <1>3, <1>5 DEF OwnedIds
  <2>2. key \notin IdsOf(c)
    <3>1. \A a \in IdsOf(c) : a \notin PendingKey \cup PeerKey
      BY OwnValues, ReportsAssumption
    <3> QED BY <1>2, <2>1, <3>1 DEF Chooses
  <2>3. \A p \in R \ DOMAIN t : p[2] \notin IdsOf(c) /\ u[p] \notin IdsOf(c)
    BY <1>1, <2>1, <2>2
  <2>4. AnchoredTable(u, c, scid)
    <3>1. \A p \in DOMAIN u : p[2] \in IdsOf(c) <=> u[p] \in IdsOf(c)
      BY <1>1, <1>2, <2>3
    <3>2. ASSUME NEW p \in DOMAIN u, p[2] \in IdsOf(c)
          PROVE  \E q \in DOMAIN u : q[2] = scid /\ u[q] = u[p]
      <4>1. p \in DOMAIN t
        BY <1>1, <2>3, <3>2
      <4>2. PICK q \in DOMAIN t : q[2] = scid /\ t[q] = t[p]
        BY <1>2, <3>2, <4>1
      <4> QED BY <1>1, <4>1, <4>2
    <3> QED BY <3>1, <3>2 DEF AnchoredTable
  <2> QED BY <1>5, <2>4 DEF u
<1> QED BY <1>4, <1>5

\* What is stored under a key, in the terms of the anchor.
LEMMA StoringAnchors ==
  ASSUME NEW t, NEW u, NEW e, NEW key, u.recorded = t.recorded \cup {Stored(e, key)},
         NEW c, NEW scid, AnchoredBy(u, c, scid)
  PROVE  AnchoredBy(t, c, scid) /\ (e.chan = c => e.ids["short_channel_id"] = scid)
<1>1. Stored(e, key) \in u.recorded /\ \A x \in t.recorded : x \in u.recorded
  OBVIOUS
<1>2. Stored(e, key).chan = e.chan /\ Stored(e, key).scid = e.ids["short_channel_id"]
  BY DEF Stored
<1> QED BY <1>1, <1>2 DEF AnchoredBy

\* A sample keeps the tables anchored and is itself stored at the anchor.
LEMMA SampleKeepsAnchors ==
  ASSUME OwnedIds, NEW t, Tables(t), SoundTable(t.aliases), AnchoredTables(t),
         NEW e \in Entry, NEW i \in Nat, NEW key \in SampleKeys(t.aliases, e, i)
  PROVE  AnchoredTables(WithSample(t, e, i, key))
<1> DEFINE u == WithSample(t, e, i, key)
<1>1. /\ u.aliases = RecordAliases(t.aliases, SampleRows(e.ids, key), key)
      /\ u.recorded = t.recorded \cup {Stored(e, key)}
      /\ u.lastSample = [t.lastSample EXCEPT ![e.chan] = [key |-> key, ids |-> e.ids]]
  BY DEF WithSample
<1>2. t.lastSample \in [Chan -> SampleRecord] /\ AliasTable(t.aliases) /\ e.chan \in Chan
  BY ListedIds DEF Tables
<1> HIDE DEF u
<1>3. ASSUME NEW c \in Chan, NEW scid \in Id, AnchoredBy(u, c, scid)
      PROVE  AnchoredTable(u.aliases, c, scid) /\ AnchoredSample(u, c, scid)
  <2>1. /\ AnchoredBy(t, c, scid)
        /\ e.chan = c => e.ids["short_channel_id"] = scid
    BY <1>1, <1>3, StoringAnchors
  <2>2. AnchoredTable(t.aliases, c, scid) /\ AnchoredSample(t, c, scid)
    BY <2>1 DEF AnchoredTables
  <2>3. \A r \in SampleRows(e.ids, key) : r[2] \in IdsOf(e.chan) \/ r[2] = key
    BY ListedOwn DEF SampleRows
  <2>4. e.chan = c => \E r \in SampleRows(e.ids, key) : r[2] = scid
    <3>1. scid # NoId
      BY ReportsAssumption DEF Key
    <3>2. e.ids["short_channel_id"] # NoId =>
            <<"short_channel_id", e.ids["short_channel_id"]>> \in SampleRows(e.ids, key)
      BY OwnValues DEF SampleRows
    <3> QED BY <2>1, <3>1, <3>2
  <2>5. Functional(t.aliases) /\ Chooses(t.aliases, e, key)
    BY <1>2, SampleChooses DEF SoundTable
  <2>6. /\ AnchoredTable(u.aliases, c, scid)
        /\ e.chan = c => \E q \in DOMAIN u.aliases : q[2] = scid /\ u.aliases[q] = key
    BY <1>1, <1>2, <2>1, <2>2, <2>3, <2>4, <2>5, RecordAliasesAnchored
  <2>7. AnchoredSample(u, c, scid)
    <3>1. CASE e.chan = c
      <4>1. u.lastSample[c].key = key
        BY <1>1, <1>2, <3>1
      <4> QED BY <2>6, <3>1, <4>1 DEF AnchoredSample
    <3>2. CASE e.chan # c
      <4>1. u.lastSample[c] = t.lastSample[c]
        BY <1>1, <1>2, <3>2
      <4>2. Extends(t.aliases, u.aliases)
        BY <1>1, RecordAliasesExtends
      <4> QED BY <2>2, <4>1, <4>2 DEF AnchoredSample, Extends
    <3> QED BY <3>1, <3>2
  <2> QED BY <2>6, <2>7
<1> QED BY <1>3 DEF AnchoredTables, u

\* An event keeps the tables anchored.
LEMMA EventKeepsAnchors ==
  ASSUME OwnedIds, NEW t, Tables(t), SoundTable(t.aliases), AnchoredTables(t),
         NEW e \in Entry, NEW key \in EventKeys(t.aliases, e)
  PROVE  AnchoredTables(WithEvent(t, e, key))
<1> DEFINE u == WithEvent(t, e, key)
<1>1. /\ u.aliases = RecordAliases(t.aliases, EventRows(e.ids), key)
      /\ u.recorded = t.recorded \cup {Stored(e, key)}
      /\ u.lastSample = t.lastSample
  BY DEF WithEvent, Tables
<1>2. AliasTable(t.aliases)
  BY DEF Tables
<1> HIDE DEF u
<1>3. ASSUME NEW c \in Chan, NEW scid \in Id, AnchoredBy(u, c, scid)
      PROVE  AnchoredTable(u.aliases, c, scid) /\ AnchoredSample(u, c, scid)
  <2>1. /\ AnchoredBy(t, c, scid)
        /\ e.chan = c => e.ids["short_channel_id"] = scid
    BY <1>1, <1>3, StoringAnchors
  <2>2. AnchoredTable(t.aliases, c, scid) /\ AnchoredSample(t, c, scid)
    BY <2>1 DEF AnchoredTables
  <2>3. \A r \in EventRows(e.ids) : r[2] \in IdsOf(e.chan) \/ r[2] = key
    BY OwnValues DEF EventRows
  <2>4. e.chan = c => \E r \in EventRows(e.ids) : r[2] = scid
    <3>1. scid # NoId
      BY ReportsAssumption DEF Key
    <3>2. e.ids["short_channel_id"] # NoId =>
            <<"short_channel_id", e.ids["short_channel_id"]>> \in EventRows(e.ids)
      BY DEF EventRows
    <3> QED BY <2>1, <3>1, <3>2
  <2>5. Functional(t.aliases) /\ Chooses(t.aliases, e, key)
    BY <1>2, EventChooses DEF SoundTable
  <2>6. AnchoredTable(u.aliases, c, scid)
    BY <1>1, <1>2, <2>1, <2>2, <2>3, <2>4, <2>5, RecordAliasesAnchored
  <2>7. Extends(t.aliases, u.aliases)
    BY <1>1, RecordAliasesExtends
  <2>8. AnchoredSample(u, c, scid)
    BY <1>1, <2>2, <2>7 DEF AnchoredSample, Extends
  <2> QED BY <2>6, <2>8
<1> QED BY <1>3 DEF AnchoredTables, u

\* A transaction only adds to the history.
Continues ==
  recording => /\ db.recorded \subseteq tx.recorded
               /\ \A c \in Chan : db.lastSample[c] # NoSample => tx.lastSample[c] # NoSample

\* Committed or not, the tables are anchored.
Anchors == AnchoredTables(tx) /\ AnchoredTables(db) /\ Continues

\* No step of a snapshot and no event lets an anchored channel drift.
THEOREM AnchorsHold ==
  ASSUME OwnedIds
  PROVE  Spec => []Anchors
<1>1. AnchoredTables(EmptyTables)
  BY DEF AnchoredTables, AnchoredTable, AnchoredSample, EmptyTables
<1>2. Init => Anchors
  BY <1>1 DEF Init, Anchors, Continues
<1>3. IInv /\ Anchors /\ [Next]_vars => Anchors'
  <2> SUFFICES ASSUME IInv, Anchors, [Next]_vars PROVE Anchors'
    OBVIOUS
  <2>1. /\ Tables(tx) /\ Tables(db)
        /\ SoundTable(tx.aliases) /\ SoundTable(db.aliases)
    BY DEF IInv, TypeOK, SoundAliases
  <2>2. CASE BeginSnapshot
    BY <2>2 DEF BeginSnapshot, Anchors, Continues
  <2>3. CASE RecordSample
    <3> DEFINE e == response[next]
    <3>1. e \in Entry /\ next - 1 \in Nat
      BY <2>3 DEF RecordSample, IInv, TypeOK
    <3>2. PICK key \in SampleKeys(tx.aliases, e, next - 1) :
            tx' = WithSample(tx, e, next - 1, key)
      BY <2>3 DEF RecordSample
    <3> HIDE DEF e
    <3>3. AnchoredTables(tx')
      BY <2>1, <3>1, <3>2, SampleKeepsAnchors DEF Anchors
    <3>4. /\ tx.recorded \subseteq tx'.recorded
          /\ tx'.lastSample = [tx.lastSample EXCEPT ![e.chan] = [key |-> key, ids |-> e.ids]]
      BY <3>2 DEF WithSample
    <3>5. key # NoId
      BY <2>1, <3>1, <3>2, SampleRowsFit, ReportsAssumption
    <3>6. ASSUME NEW c \in Chan, tx.lastSample[c] # NoSample
          PROVE  tx'.lastSample[c] # NoSample
      BY <2>1, <3>4, <3>5, <3>6 DEF NoSample, Tables
    <3>7. Continues'
      BY <2>3, <3>4, <3>6 DEF RecordSample, Anchors, Continues
    <3> QED BY <2>3, <3>3, <3>7 DEF RecordSample, Anchors
  <2>4. CASE FinishSnapshot
    <3>1. /\ db'.aliases = tx.aliases /\ db'.recorded = tx.recorded
          /\ db'.lastSample = tx.lastSample
      BY <2>1, <2>4 DEF FinishSnapshot, WithDisappearances, Tables
    <3>2. AnchoredTables(db')
      BY <3>1 DEF Anchors, AnchoredTables, AnchoredSample, AnchoredBy
    <3> QED BY <1>1, <2>4, <3>2 DEF FinishSnapshot, Done, Anchors, Continues
  <2>5. CASE Rollback
    BY <1>1, <2>5 DEF Rollback, Done, Anchors, Continues
  <2>6. CASE \E e \in Entry : RecordChannelEvent(e)
    <3>1. PICK e \in Entry : RecordChannelEvent(e)
      BY <2>6
    <3>2. PICK key \in EventKeys(db.aliases, e) : db' = WithEvent(db, e, key)
      BY <3>1 DEF RecordChannelEvent
    <3>3. AnchoredTables(db')
      BY <2>1, <3>2, EventKeepsAnchors DEF Anchors
    <3> QED BY <3>1, <3>3 DEF RecordChannelEvent, transaction, Anchors, Continues
  <2>7. CASE UNCHANGED vars
    BY <2>7 DEF vars, transaction, Anchors, Continues
  <2> QED BY <2>2, <2>3, <2>4, <2>5, <2>6, <2>7 DEF Next
<1> QED BY <1>2, <1>3, InductiveInvariant, PTL DEF Spec

\* When the node never uses a value for two channels, a channel keeps its identity
\* as long as all that is stored of it carries one SCID: whatever else of it changes
\* or is missing, and whatever snapshots fail or events fall between them.
THEOREM AnchorsKeepIdentity ==
  ASSUME OwnedIds
  PROVE  Spec => AnchoredAliasKeepsIdentity
<1> DEFINE Keeps == \A c \in Chan, scid \in Id : AnchoredBy(db, c, scid)' => SameIdentity(c)
<1>1. IInv /\ Anchors /\ Ahead /\ [Next]_vars => [Keeps]_vars
  <2> SUFFICES ASSUME IInv, Anchors, Ahead, Next,
                      NEW c \in Chan, NEW scid \in Id, AnchoredBy(db, c, scid)'
               PROVE  SameIdentity(c)
    OBVIOUS
  <2>1. Tables(tx) /\ Tables(db) /\ Functional(tx.aliases)
    BY DEF IInv, TypeOK, SoundAliases, SoundTable
  <2>2. CASE db'.lastSample = db.lastSample
    BY <2>2 DEF SameIdentity
  <2>3. CASE FinishSnapshot
    <3>1. /\ db'.recorded = tx.recorded /\ db'.lastSample = tx.lastSample /\ recording
      BY <2>1, <2>3 DEF FinishSnapshot, WithDisappearances, Tables
    <3>2. AnchoredBy(tx, c, scid) /\ AnchoredBy(db, c, scid)
      BY <3>1 DEF AnchoredBy, Anchors, Continues
    <3>3. AnchoredSample(tx, c, scid) /\ AnchoredSample(db, c, scid)
      BY <3>2 DEF Anchors, AnchoredTables
    <3>4. Extends(db.aliases, tx.aliases)
      BY <3>1 DEF Ahead
    <3>5. ASSUME db.lastSample[c] # NoSample
          PROVE  tx.lastSample[c].key = db.lastSample[c].key
      <4>1. PICK q \in DOMAIN db.aliases :
              q[2] = scid /\ db.aliases[q] = db.lastSample[c].key
        BY <3>3, <3>5 DEF AnchoredSample
      <4>2. PICK r \in DOMAIN tx.aliases :
              r[2] = scid /\ tx.aliases[r] = tx.lastSample[c].key
        BY <3>1, <3>3, <3>5 DEF AnchoredSample, Anchors, Continues
      <4>3. q \in DOMAIN tx.aliases /\ tx.aliases[q] = db.aliases[q]
        BY <3>4 DEF Extends
      <4> QED BY <2>1, <4>1, <4>2, <4>3 DEF Functional
    <3> QED BY <3>1, <3>5 DEF SameIdentity
  <2>4. ~FinishSnapshot => db'.lastSample = db.lastSample
    <3>1. ASSUME NEW e \in Entry, RecordChannelEvent(e)
          PROVE  db'.lastSample = db.lastSample
      BY <2>1, <3>1 DEF RecordChannelEvent, WithEvent, Tables
    <3> QED BY <3>1 DEF Next, BeginSnapshot, RecordSample, Rollback
  <2> QED BY <2>2, <2>3, <2>4
<1> QED BY <1>1, InductiveInvariant, AnchorsHold, SnapshotsOnlyAdd, PTL
        DEF Spec, AnchoredAliasKeepsIdentity

================================================================================
