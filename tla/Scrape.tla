---------------------------------- MODULE Scrape ----------------------------------
(***************************************************************************)
(* One answer of cln-exporter to Prometheus (metrics.rs: render): the      *)
(* node's RPCs and the discovery and collection of the plugins' metrics    *)
(* run together, each call with its own timeout; one more call follows;    *)
(* then all that was answered is written, the plugins' metrics only when   *)
(* they are valid and no name of theirs was written before.                *)
(*                                                                         *)
(* A name is the sequence of its parts: cln_tracker_bwatch_height is       *)
(* <<"tracker", "bwatch", "height">>, and may be the family                *)
(* <<"bwatch", "height">> of one namespace or <<"height">> of another.     *)
(* Writing takes no time.  Concurrent scrapes share nothing but the        *)
(* registry (module DiscoveryCache).                                       *)
(***************************************************************************)
EXTENDS Naturals, Sequences, FiniteSets, FiniteSetsExt, SequencesExt

CONSTANTS
  Timeout,      \* prometheus-rpc-timeout
  Warning,      \* prometheus-htlc-warning-blocks
  MaxFamilies,  \* MAX_FAMILIES
  MaxSamples,   \* MAX_SAMPLES
  MaxAccounts,  \* MAX_ACCOUNTS of collect_bookkeeper
  Scenarios,    \* what the node may answer, and when: a sequence of scenarios
  None          \* no value

\* The calls that render joins, but for the plugins'; each is a collector.
Builtin == {"node", "funds", "channels", "peers", "feerates", "configs", "plugins",
            "tracker", "bookkeeper", "channel_apy"}

Call == Builtin \cup {"discovery", "listnodes"}

\* `slow' are the calls that may take time or fail, the others are answered at
\* once; `plugins' are the metrics RPCs in their order, each with the stem of its
\* name, which valid_rpc_name begins with a letter or digit, and the answers it may
\* give; `htlcs' are the expiry heights of the pending
\* HTLCs, `height' and `blocks' the height at the start and a bound on the blocks
\* that follow, and `accounts' the accounts of bookkeeper, each a balance by coin.
ScenarioFields == {"slow", "plugins", "htlcs", "height", "blocks", "accounts"}

Name   == Seq(STRING)
Family == [name: Name, counter: BOOLEAN, samples: Nat]
Answer == [version: Nat, namespace: Name, families: Seq(Family)]

ASSUME ConstantsAssumption ==
  /\ {Timeout, MaxFamilies, MaxSamples} \subseteq Nat \ {0}
  /\ {Warning, MaxAccounts} \subseteq Nat
  /\ \A n \in DOMAIN Scenarios : LET s == Scenarios[n] IN
       /\ DOMAIN s = ScenarioFields
       /\ s.slow \subseteq Call
       /\ s.htlcs \subseteq Nat /\ IsFiniteSet(s.htlcs)
       /\ s.height \in Nat /\ s.blocks \in Nat
       /\ DOMAIN s.plugins = 1..Len(s.plugins) /\ Len(s.plugins) \in Nat
       /\ \A i \in DOMAIN s.plugins :
            /\ s.plugins[i].stem \in Name \ {<<>>}
            /\ s.plugins[i].answers \subseteq Answer
       /\ DOMAIN s.accounts = 1..Len(s.accounts) /\ Len(s.accounts) \in Nat
       /\ \A i \in DOMAIN s.accounts : s.accounts[i] \in [DOMAIN s.accounts[i] -> Nat]

VARIABLES
  scenario,     \* the one of Scenarios this behaviour is about
  phase,        \* what render awaits: the join, then listnodes; then it is done
  clock,        \* the time since the scrape began
  answer,       \* how each call stands
  began,        \* when discovery had ended, and when listnodes was called
  plugin,       \* for each metrics RPC, how it stands and its valid families
  height,       \* the node's height
  informed,     \* blockheight of getinfo's answer
  output        \* what has been written

vars == <<scenario, phase, clock, answer, began, plugin, height, informed, output>>

Standing == {"unasked", "waiting", "ok", "failed"}
Case == Scenarios[scenario]
Plugins == DOMAIN Case.plugins
Rpc(i)  == Case.plugins[i].rpc
Stem(i) == Case.plugins[i].stem

(***************************************************************************)
(* validate_response.                                                      *)
(***************************************************************************)

\* A wire answer [version, namespace, families], where a family is [name,
\* counter, samples], of the RPC whose stem is `stem'.
Valid(wire, stem) ==
  LET families == wire.families
      names    == {families[n].name : n \in DOMAIN families}
  IN /\ wire.version = 1
     /\ wire.namespace = stem
     /\ Len(families) \in 1..MaxFamilies
     /\ Cardinality(names) = Len(families)
     /\ \A n \in DOMAIN families :
          families[n].counter => Last(families[n].name) = "total"
     /\ FoldLeft(LAMBDA sum, f : sum + f.samples, 0, families) <= MaxSamples

(***************************************************************************)
(* The calls.                                                              *)
(***************************************************************************)

\* A broken build that retries a call that timed out.
DeadlineRetried(start) == start + 2 * Timeout

\* When a call that was made at `start' times out.
Deadline(start) == start + Timeout

Start(c) == IF c = "listnodes" THEN began.listnodes ELSE 0

\* The times at which the calls that have no answer yet time out.
Deadlines ==
  {Deadline(Start(c)) : c \in {x \in Call : answer[x] = "waiting"}}
    \cup {Deadline(began.plugins) : i \in {x \in Plugins : plugin[x].at = "waiting"}}

\* A built-in call is answered.
Answered(c) ==
  /\ c # "discovery"
  /\ answer[c] = "waiting"
  /\ answer' = [answer EXCEPT ![c] = "ok"]
  /\ informed' = IF c = "node" THEN height ELSE informed
  /\ UNCHANGED <<scenario, phase, clock, began, plugin, height, output>>

\* A built-in call, or the discovery, fails or times out.
Failed(c) ==
  /\ answer[c] = "waiting"
  /\ answer' = [answer EXCEPT ![c] = "failed"]
  /\ UNCHANGED <<scenario, phase, clock, began, plugin, height, informed, output>>

\* collect: with the methods known, all of them are called at once.
Discovered ==
  /\ answer["discovery"] = "waiting"
  /\ answer' = [answer EXCEPT !["discovery"] = "ok"]
  /\ plugin' = [i \in Plugins |-> [at |-> "waiting", families |-> <<>>]]
  /\ began' = [began EXCEPT !.plugins = clock]
  /\ UNCHANGED <<scenario, phase, clock, height, informed, output>>

\* A metrics RPC is answered.
PluginAnswered(i) ==
  /\ plugin[i].at = "waiting"
  /\ \E wire \in Case.plugins[i].answers :
       /\ Valid(wire, Stem(i))
       /\ plugin' = [plugin EXCEPT ![i] = [at |-> "ok", families |-> wire.families]]
  /\ UNCHANGED <<scenario, phase, clock, answer, began, height, informed, output>>

\* It fails, times out, or its answer is not valid.
PluginFailed(i) ==
  /\ plugin[i].at = "waiting"
  /\ plugin' = [plugin EXCEPT ![i].at = "failed"]
  /\ UNCHANGED <<scenario, phase, clock, answer, began, height, informed, output>>

\* The node connects a block.
Block ==
  /\ phase # "done"
  /\ height < Case.height + Case.blocks
  /\ height' = height + 1
  /\ UNCHANGED <<scenario, phase, clock, answer, began, plugin, informed, output>>

\* Time passes while a call is awaited, and no call outlives its timeout.
Tick ==
  /\ Deadlines # {}
  /\ \A t \in Deadlines : clock < t
  /\ clock' = clock + 1
  /\ UNCHANGED <<scenario, phase, answer, began, plugin, height, informed, output>>

(***************************************************************************)
(* What the collectors write.                                              *)
(***************************************************************************)

\* The names of collect_node and of collect_tracker, where plugins may meet them.
NodeNames ==
  {<<"node", n>> : n \in {"info", "blockheight", "bitcoin_synced", "lightning_synced"}}
    \cup {<<"routing", "fees", "collected", "msat">>}

TrackerNames ==
  {<<"tracker", n>> : n \in {"healthy", "descriptors", "pending_movements", "incident"}}
    \cup {<<"tracker", "bwatch", n>> :
            n \in {"height", "lag_blocks", "active_rescans", "rescan_blocks_processed",
                   "rescan_blocks_total", "rescan_progress_ratio"}}
    \cup {<<"tracker", n, "total">> :
            n \in {"reconciliation_failures", "bookkeeper_failures", "reorgs"}}

\* The names that each collector writes from an answer, one name standing for all
\* of the other collectors'.  Every answer is taken to have something to write (a
\* channel, a peer, an account) and the fields that are read from it.
Names ==
  [exporter    |-> {<<"exporter", "up">>},
   node        |-> NodeNames,
   funds       |-> {<<"wallet", "onchain_msat">>},
   channels    |-> {<<"channel", "htlcs_near_expiry">>},
   peers       |-> {<<"peer", "connected">>},
   feerates    |-> {<<"bitcoin", "feerate_perkw">>},
   configs     |-> {},
   plugins     |-> {<<"plugin", "active">>},
   bookkeeper  |-> {<<"bookkeeper", "balance_msat">>},
   channel_apy |-> {<<"channel", "apy_ratio">>},
   tank        |-> {<<"anchor", "tank_shortfall_msat">>},
   listnodes   |-> {<<"liquidity", "advertisement_enabled">>},
   events      |-> {<<"notifications", "total">>},
   tracker     |-> TrackerNames]

\* discover_methods: the methods are a set, and their names end in -metrics, which
\* those of the collectors do not.
ASSUME PluginsAssumption ==
  \A n \in DOMAIN Scenarios : LET plugins == Scenarios[n].plugins IN
    \A i \in DOMAIN plugins :
      /\ plugins[i].rpc \notin DOMAIN Names
      /\ \A j \in DOMAIN plugins : plugins[i].rpc = plugins[j].rpc => i = j

WrittenBy(c) == {[name |-> n, by |-> c] : n \in Names[c]}

Minus(x, y) == IF x > y THEN x - y ELSE 0

\* A broken build that warns a block late.
NearAfter(expiry, blockheight) == Minus(expiry, blockheight) < Warning

\* cln_channel_htlcs_near_expiry counts an HTLC: collect_channels.
Near(expiry, blockheight) == Minus(expiry, blockheight) <= Warning

Balance(account, coin) == IF coin \in DOMAIN account THEN account[coin] ELSE 0

\* A broken build that keeps what the last account has of a coin.
GroupedLast(sums, account) == [c \in DOMAIN sums \cup DOMAIN account |->
                                 IF c \in DOMAIN account THEN account[c] ELSE sums[c]]

Grouped(sums, account) ==
  [c \in DOMAIN sums \cup DOMAIN account |-> Balance(sums, c) + Balance(account, c)]

\* collect_bookkeeper: the balances of the first accounts one by one, those of
\* the others added up under __other__, which is account 0 here.
Balances(accounts) ==
  LET shown == SubSeq(accounts, 1, Min({MaxAccounts, Len(accounts)}))
      other == FoldLeft(Grouped, [c \in {} |-> 0],
                        SubSeq(accounts, MaxAccounts + 1, Len(accounts)))
      Series(n, account) == {[account |-> n, coin |-> c, amount |-> account[c]] :
                               c \in DOMAIN account}
  IN Series(0, other) \cup UNION {Series(n, shown[n]) : n \in DOMAIN shown}

(***************************************************************************)
(* render.                                                                 *)
(***************************************************************************)

Ok(c) == answer[c] = "ok"

\* Everything that the join awaits is there.
Joined ==
  /\ \A c \in Call \ {"listnodes"} : answer[c] # "waiting"
  /\ \A i \in Plugins : plugin[i].at # "waiting"

\* finish_collector of a built-in collector.
Writes(c) == Ok(c)

\* collect_anchor_tank needs four answers.
TankKnown == \A c \in {"funds", "channels", "feerates", "configs"} : Ok(c)

\* Without getinfo's answer the height is 0.
Blockheight == IF Ok("node") THEN informed ELSE 0

\* The collectors that are written before the second call.
First == Builtin \ {"tracker"}

\* The join is over: the first collectors are written, and listnodes is called
\* with the id of getinfo's answer.
Join ==
  /\ phase = "joining"
  /\ Joined
  /\ phase' = "advertising"
  /\ began' = [began EXCEPT !.listnodes = clock]
  /\ answer' = [answer EXCEPT !["listnodes"] =
                  IF ~Ok("node") THEN "failed"
                  ELSE IF "listnodes" \in Case.slow THEN "waiting" ELSE "ok"]
  /\ output' =
       [written  |-> (UNION {WrittenBy(c) : c \in {"exporter"} \cup {x \in First : Writes(x)}})
                       \cup IF TankKnown THEN WrittenBy("tank") ELSE {},
        success  |-> [c \in First |-> Ok(c)],
        accepted |-> <<>>,
        near     |-> IF Ok("channels")
                     THEN Cardinality({e \in Case.htlcs : Near(e, Blockheight)})
                     ELSE None,
        balances |-> IF Ok("bookkeeper") THEN Balances(Case.accounts) ELSE {}]
  /\ UNCHANGED <<scenario, clock, plugin, height, informed>>

\* What plugin i writes: its families' names under its namespace.
NamesOf(i) == {Stem(i) \o f.name : f \in Range(plugin[i].families)}

WrittenByPlugin(i) == {[name |-> n, by |-> Rpc(i)] : n \in NamesOf(i)}

Taken(out) == {w.name : w \in out.written}

\* A broken build that writes what does not conflict and reports the rest.
RenderPiecemeal(out, i) ==
  LET fine == plugin[i].at = "ok" /\ NamesOf(i) \cap Taken(out) = {}
  IN [out EXCEPT !.accepted = Append(@, fine),
                 !.written = @ \cup {w \in WrittenByPlugin(i) : w.name \notin Taken(out)}]

\* A broken build that checks family_names and not sample_names, where the
\* built-in collectors' names are.
RenderUnchecked(out, i) ==
  LET families == {w.name : w \in {x \in out.written : x.by \notin DOMAIN Names \ {"exporter"}}}
      fine == plugin[i].at = "ok" /\ NamesOf(i) \cap families = {}
  IN [out EXCEPT !.accepted = Append(@, fine),
                 !.written = @ \cup IF fine THEN WrittenByPlugin(i) ELSE {}]

\* render_plugin_metrics: all of it, or nothing when a name is taken.
RenderPlugin(out, i) ==
  LET fine == plugin[i].at = "ok" /\ NamesOf(i) \cap Taken(out) = {}
  IN [out EXCEPT !.accepted = Append(@, fine),
                 !.written = @ \cup IF fine THEN WrittenByPlugin(i) ELSE {}]

\* finish_collector, for more collectors.
Reported(success, collectors) ==
  [c \in DOMAIN success \cup collectors |-> IF c \in collectors THEN Ok(c) ELSE success[c]]

\* A plugin of namespace `tracker' has been written.
TrackerRendered(out) ==
  \E i \in DOMAIN out.accepted : out.accepted[i] /\ Stem(i) = <<"tracker">>

\* The compatibility fallback, which is not checked against the plugins' names.
WithFallback(out) ==
  IF TrackerRendered(out) THEN out
  ELSE [out EXCEPT !.written = @ \cup IF Ok("tracker") THEN WrittenBy("tracker") ELSE {},
                   !.success = Reported(@, {"tracker"})]

\* listnodes is there: the rest is written.
Finish ==
  /\ phase = "advertising"
  /\ answer["listnodes"] # "waiting"
  /\ phase' = "done"
  /\ LET listed == [output EXCEPT
                      !.written = @ \cup WrittenBy("events") \cup
                                  IF Ok("listnodes") THEN WrittenBy("listnodes") ELSE {},
                      !.success = Reported(@, {"listnodes", "discovery"})]
         called == IF Ok("discovery") THEN [i \in Plugins |-> i] ELSE <<>>
     IN output' = WithFallback(FoldLeft(RenderPlugin, listed, called))
  /\ UNCHANGED <<scenario, clock, answer, began, plugin, height, informed>>

Init ==
  /\ scenario \in DOMAIN Scenarios
  /\ phase = "joining" /\ clock = 0
  /\ answer = [c \in Call |-> IF c = "listnodes" THEN "unasked"
                              ELSE IF c \in {"discovery"} \cup Case.slow THEN "waiting"
                              ELSE "ok"]
  /\ began = [plugins |-> 0, listnodes |-> 0]
  /\ plugin = [i \in Plugins |-> [at |-> "unasked", families |-> <<>>]]
  /\ height = Case.height /\ informed = Case.height
  /\ output = None

Next ==
  \/ \E c \in Call : Answered(c) \/ Failed(c)
  \/ Discovered
  \/ \E i \in Plugins : PluginAnswered(i) \/ PluginFailed(i)
  \/ Block
  \/ Tick
  \/ Join
  \/ Finish

\* A broken build whose calls to plugins have no timeout.
TimesOutBuiltin == \E c \in Call : clock = Deadline(Start(c)) /\ Failed(c)

\* tokio::time::timeout ends a call at its deadline.
TimesOut ==
  \/ \E c \in Call : clock = Deadline(Start(c)) /\ Failed(c)
  \/ clock = Deadline(began.plugins) /\ \E i \in Plugins : PluginFailed(i)

\* Time passes and the runtime runs what is ready; whether the node answers is
\* left open.
Fairness == WF_vars(Tick) /\ WF_vars(TimesOut) /\ WF_vars(Join) /\ WF_vars(Finish)

Spec == Init /\ [][Next]_vars /\ Fairness

(***************************************************************************)
(* Properties.                                                             *)
(***************************************************************************)

\* The types of the state; nothing is awaited any more when the scrape is done.
TypeOK ==
  /\ scenario \in DOMAIN Scenarios
  /\ phase \in {"joining", "advertising", "done"}
  /\ clock \in 0..3 * Timeout
  /\ answer \in [Call -> Standing]
  /\ \A i \in Plugins : plugin[i].at \in Standing
  /\ began.plugins \in 0..clock /\ began.listnodes \in 0..clock
  /\ informed \in Case.height..height
  /\ phase = "done" => Deadlines = {}

Done == phase = "done"

Of(by) == {w \in output.written : w.by = by}

\* One failure is one collector's: whatever else failed, was late or was
\* refused, a built-in collector that was answered is written in full, one that
\* was not is not written and reported, and so is the anchor tank by its four.
Isolated ==
  Done =>
    /\ \A c \in First \cup {"listnodes"} :
         /\ output.success[c] = Ok(c)
         /\ Of(c) = IF Ok(c) THEN WrittenBy(c) ELSE {}
    /\ Of("tank") = IF TankKnown THEN WrittenBy("tank") ELSE {}

\* A plugin that is reported as failing has left nothing, and one that is
\* reported as accepted has written all of its families and no other.
RejectedAsUnit ==
  Done =>
    \A i \in Plugins :
      Of(Rpc(i)) = IF i \in DOMAIN output.accepted /\ output.accepted[i]
              THEN WrittenByPlugin(i) ELSE {}

\* No two write the same name, whatever namespaces and families make it up and
\* whichever of them were answered; except that the fallback, which comes last,
\* may repeat what a plugin whose namespace extends `tracker' has written.
OneWriter ==
  Done =>
    \A v, w \in output.written :
      v.name = w.name /\ v.by # w.by =>
        \E i \in Plugins : {v.by, w.by} = {Rpc(i), "tracker"} /\ Len(Stem(i)) > 1

\* The state of Tracker is shown by one of its two sources: by tracker-metrics
\* when that is accepted, else by tracker-health when that was answered.
TrackerShownOnce ==
  Done =>
    IF TrackerRendered(output) THEN Of("tracker") = {} /\ "tracker" \notin DOMAIN output.success
    ELSE output.success["tracker"] = Ok("tracker") /\ (Of("tracker") # {} <=> Ok("tracker"))

\* Every source of metrics, by itself, is written in full and reported as such or
\* has left nothing and is reported as failing.
AllOrNothing == TypeOK /\ Isolated /\ RejectedAsUnit /\ TrackerShownOnce

\* An HTLC that was near its expiry when the scrape began is counted, and none
\* is that is not near it when the scrape ends, whatever blocks come between the
\* answers; or one of the two collectors it takes is reported as failing, which
\* is why the alert on it has to be read together with that on the collectors.
DeadlinesWarned ==
  Done /\ output.success["node"] /\ output.success["channels"] =>
    LET due(h) == Cardinality({e \in Case.htlcs : e <= h + Warning})
    IN output.near \in due(Case.height)..due(height)

\* What the accounts have of a coin, and what some balances amount to.
Given(coin, accounts) == FoldLeft(LAMBDA sum, a : sum + Balance(a, coin), 0, accounts)
AmountOf(balances)    == MapThenSumSet(LAMBDA b : b.amount, balances)

\* Whatever number of accounts bookkeeper has, the balances that are shown add up
\* to those it gave, coin by coin, and every series is written once.
BalancesAddUp ==
  Done /\ Ok("bookkeeper") =>
    /\ \A c \in UNION {DOMAIN a : a \in Range(Case.accounts)} :
         AmountOf({b \in output.balances : b.coin = c}) = Given(c, Case.accounts)
    /\ \A b, d \in output.balances :
         b.account = d.account /\ b.coin = d.coin => b = d

\* A scrape takes at most the time of two calls after the discovery, however many
\* plugins there are: within the 10 s that README gives Prometheus, with the
\* default timeout of 5 s, when the discovery is answered from its cache.
InTime == clock <= began.plugins + 2 * Timeout

\* Every scrape ends, whatever is not answered.
ScrapeEnds == <>Done

===================================================================================
