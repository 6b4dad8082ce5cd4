--------------------------- MODULE MCChannelIdentity ---------------------------
(***************************************************************************)
(* Small instances of ChannelIdentity: two channels `a` and `b` with one   *)
(* peer, and three regimes: what the node reports of them.                 *)
(***************************************************************************)
EXTENDS ChannelIdentity, TLC

CONSTANTS a, b, p,          \* the channels and their peer
          aId, aId2,        \* the channel IDs of `a` before and after a splice
          aOnly,            \* its channel ID where it keeps one
          aScid, aLocal, bId, bScid,
          shared            \* a remote alias that the peer chose for both

MCChan   == {a, b}
MCPeerOf == [c \in MCChan |-> p]

\* The reports with these channel IDs, SCIDs and local aliases.
ReportsOf(cids, scids, aliases) ==
  {[channel_id |-> c, short_channel_id |-> s, funding_outpoint |-> NoId,
    local_alias |-> l, remote_alias |-> NoId] : c \in cids, s \in scids, l \in aliases}

\* Whatever happens to channel `a`, it keeps one SCID that both handlers see;
\* channel `b` keeps its channel ID.
Steady ==
  a :> ReportsOf({aId, aId2, NoId}, {aScid}, {aLocal, NoId})
    @@ b :> ReportsOf({bId}, {bScid, NoId}, {NoId})

\* Every identifier of channel `a` may change or be missing; a channel with a SCID
\* has a local alias.
Splices ==
  a :> (ReportsOf({aId, aId2, NoId}, {aScid}, {aLocal})
          \cup ReportsOf({aId, aId2}, {NoId}, {aLocal, NoId}))
    @@ b :> ReportsOf({bId}, {NoId}, {NoId})

\* The channels may be nameless, in any position; once they have a channel ID, they
\* have a remote alias, and the peer chose the same for both.
Meets ==
  LET opened(reports) == {[r EXCEPT !["remote_alias"] = shared] : r \in reports}
  IN a :> (ReportsOf({NoId}, {NoId}, {aLocal})
             \cup opened(ReportsOf({aOnly}, {NoId}, {aLocal})))
       @@ b :> (ReportsOf({NoId}, {NoId}, {NoId})
                  \cup opened(ReportsOf({bId}, {NoId}, {NoId})))

Values == {aId, aId2, aOnly, aScid, aLocal, bId, bScid, shared}

MCReports == [c \in MCChan |-> Steady[c] \cup Splices[c] \cup Meets[c]]

\* The two channel IDs of `a` come in every role alike.
SplicedIds == Permutations({aId, aId2})

Regime == "steady" :> Steady @@ "splices" :> Splices @@ "meets" :> Meets

ResponsesWithin(reports) ==
  UNION {{s \in Responses(L) : \A i \in DOMAIN s : s[i].ids \in reports[s[i].chan]} :
           L \in SUBSET Chan}

RegimeResponses ==
  [r \in DOMAIN Regime |-> ResponsesWithin(Regime[r])]

VARIABLE regime   \* how the node reports its channels in this behaviour

MCInit == Init /\ regime \in DOMAIN Regime

BeginInRegime ==
  /\ response' \in RegimeResponses[regime]
  /\ BeginSnapshot
  /\ UNCHANGED regime

RecordInRegime == RecordSample /\ UNCHANGED regime
FinishInRegime == FinishSnapshot /\ UNCHANGED regime
RollbackInRegime == Rollback /\ UNCHANGED regime

EventInRegime(c) ==
  /\ \E r \in Regime[regime][c] : RecordChannelEvent([chan |-> c, ids |-> r])
  /\ UNCHANGED regime

MCNext ==
  \/ BeginInRegime
  \/ RecordInRegime
  \/ FinishInRegime
  \/ RollbackInRegime
  \/ \E c \in Chan : EventInRegime(c)

MCSpec == MCInit /\ [][MCNext]_<<vars, regime>>

================================================================================
