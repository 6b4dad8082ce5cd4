------------------------------ MODULE ScrapeProofs ------------------------------
(***************************************************************************)
(* Proofs about Scrape for any scenarios: any node, any plugins and any    *)
(* answers of theirs.                                                      *)
(***************************************************************************)
EXTENDS Scrape, FoldTheorems, SequenceTheorems

(***************************************************************************)
(* render_plugin_metrics, plugin by plugin.                                *)
(***************************************************************************)

\* The methods, in the order of their names, are 1..n.
InOrder(n) == [i \in 1..n |-> i]

\* What rendering them makes of an output.
Rendered(out, n) == FoldLeft(RenderPlugin, out, InOrder(n))

\* One step of the recursion of FoldLeft, the functions that satisfy it for every
\* subset of the indexes, and the one that the definition takes.
RenderStep(out, n, g, s) ==
  IF s = {} THEN out ELSE RenderPlugin(g[s \ {Max(s)}], InOrder(n)[Max(s)])

IsRendering(out, n, g) == g = [s \in SUBSET DOMAIN InOrder(n) |-> RenderStep(out, n, g, s)]
Rendering(out, n) == CHOOSE g : IsRendering(out, n, g)

\* FoldLeft of the library, in these terms.
LEMMA UnfoldRendered ==
  ASSUME NEW out, NEW n
  PROVE  Rendered(out, n) = Rendering(out, n)[DOMAIN InOrder(n)]
BY DEF Rendered, FoldLeft, MapThenFoldSet, IsRendering, RenderStep, Rendering

\* The recursion with the elements of 1..n in place of those of the sequence.
Renders(out, g, s) == IF s = {} THEN out ELSE RenderPlugin(g[s \ {Max(s)}], Max(s))

\* The two are the same step.
LEMMA RendersIs ==
  ASSUME NEW out, NEW n \in Nat, NEW g, NEW s \in SUBSET (1..n)
  PROVE  RenderStep(out, n, g, s) = Renders(out, g, s)
<1>1. s # {} => InOrder(n)[Max(s)] = Max(s)
  BY Greatest DEF InOrder
<1> QED BY <1>1 DEF RenderStep, Renders

\* What a function that satisfies it is for a subset.
LEMMA RenderingAt ==
  ASSUME NEW out, NEW n \in Nat, NEW g, IsRendering(out, n, g), NEW s \in SUBSET (1..n)
  PROVE  g[s] = Renders(out, g, s)
<1>1. DOMAIN InOrder(n) = 1..n
  BY DEF InOrder
<1>2. g[s] = RenderStep(out, n, g, s)
  BY <1>1 DEF IsRendering
<1> QED BY <1>2, RendersIs

\* A function that is so for every subset satisfies it.
LEMMA RenderingIf ==
  ASSUME NEW out, NEW n \in Nat, NEW g, g = [s \in SUBSET (1..n) |-> g[s]],
         \A s \in SUBSET (1..n) : g[s] = Renders(out, g, s)
  PROVE  IsRendering(out, n, g)
<1>1. DOMAIN InOrder(n) = 1..n
  BY DEF InOrder
<1>2. \A s \in SUBSET (1..n) : g[s] = RenderStep(out, n, g, s)
  BY RendersIs
<1> QED BY <1>1, <1>2 DEF IsRendering

\* There is such a function: from one for 1..n there is one for 1..n+1.
LEMMA RenderingNext ==
  ASSUME NEW out, NEW n \in Nat, NEW g, IsRendering(out, n, g)
  PROVE  \E h : IsRendering(out, n + 1, h)
<1> DEFINE h == [s \in SUBSET (1..n + 1) |->
                   IF n + 1 \in s THEN RenderPlugin(g[s \ {n + 1}], n + 1) ELSE g[s]]
<1>1. ASSUME NEW s \in SUBSET (1..n + 1) PROVE h[s] = Renders(out, h, s)
  <2>1. CASE n + 1 \in s
    <3>1. Max(s) = n + 1
      BY <2>1, Greatest
    <3>2. s \ {n + 1} \in SUBSET (1..n + 1) /\ n + 1 \notin s \ {n + 1}
      OBVIOUS
    <3>3. h[s \ {n + 1}] = g[s \ {n + 1}]
      BY <3>2
    <3> QED BY <2>1, <3>1, <3>3 DEF Renders
  <2>2. CASE n + 1 \notin s
    <3>1. s \in SUBSET (1..n)
      BY <2>2
    <3>2. h[s] = g[s] /\ g[s] = Renders(out, g, s)
      BY <2>2, <3>1, RenderingAt
    <3>3. CASE s = {}
      BY <3>2, <3>3 DEF Renders
    <3>4. CASE s # {}
      <4>1. s \ {Max(s)} \in SUBSET (1..n + 1) /\ n + 1 \notin s \ {Max(s)}
        BY <2>2
      <4>2. h[s \ {Max(s)}] = g[s \ {Max(s)}]
        BY <4>1
      <4> QED BY <3>2, <3>4, <4>2 DEF Renders
    <3> QED BY <3>3, <3>4
  <2> QED BY <2>1, <2>2
<1>2. h = [s \in SUBSET (1..n + 1) |-> h[s]]
  OBVIOUS
<1> HIDE DEF h
<1>3. IsRendering(out, n + 1, h)
  BY <1>1, <1>2, n + 1 \in Nat, RenderingIf
<1> QED BY <1>3

\* So there is one for every number of plugins.
LEMMA RenderingIs ==
  ASSUME NEW out, NEW n \in Nat
  PROVE  IsRendering(out, n, Rendering(out, n))
<1> DEFINE Bad == {k \in Nat : ~\E g : IsRendering(out, k, g)}
<1>1. Bad = {}
  <2> SUFFICES ASSUME Bad # {} PROVE FALSE
    OBVIOUS
  <2>1. PICK k \in Bad : \A j \in Bad : k <= j
    <3>1. Bad \in SUBSET Nat
      OBVIOUS
    <3> HIDE DEF Bad
    <3> QED BY <3>1, Least
  <2>2. CASE k = 0
    <3> DEFINE g == [s \in SUBSET (1..0) |-> out]
    <3>1. SUBSET (1..0) = {{}}
      OBVIOUS
    <3>2. /\ g = [s \in SUBSET (1..0) |-> g[s]]
          /\ \A s \in SUBSET (1..0) : g[s] = Renders(out, g, s)
      BY <3>1 DEF Renders
    <3> HIDE DEF g
    <3>3. IsRendering(out, 0, g)
      BY <3>2, 0 \in Nat, RenderingIf
    <3> QED BY <2>1, <2>2, <3>3
  <2>3. CASE k # 0
    <3>1. k - 1 \in Nat /\ k - 1 \notin Bad /\ (k - 1) + 1 = k
      BY <2>1, <2>3
    <3>2. PICK g : IsRendering(out, k - 1, g)
      BY <3>1
    <3>3. \E h : IsRendering(out, k, h)
      BY <3>1, <3>2, RenderingNext
    <3> QED BY <2>1, <3>3
  <2> QED BY <2>2, <2>3
<1> QED BY <1>1 DEF Rendering

\* Rendering n plugins is going through n + 1 outputs, each of which is the one
\* before with one more plugin rendered.
LEMMA RenderedOneByOne ==
  ASSUME NEW out, NEW n \in Nat
  PROVE  \E r : /\ r[0] = out
                /\ \A k \in 0..n : k # n => r[k + 1] = RenderPlugin(r[k], k + 1)
                /\ Rendered(out, n) = r[n]
<1> DEFINE g == Rendering(out, n)
           r == [k \in 0..n |-> g[1..k]]
<1>1. IsRendering(out, n, g)
  BY RenderingIs
<1>2. Rendered(out, n) = g[1..n]
  BY UnfoldRendered DEF InOrder
<1>3. 1..0 = {} /\ g[{}] = out
  <2>1. {} \in SUBSET (1..n) /\ 1..0 = {}
    OBVIOUS
  <2>2. g[{}] = Renders(out, g, {})
    BY <1>1, <2>1, RenderingAt
  <2> QED BY <2>1, <2>2 DEF Renders
<1>4. ASSUME NEW k \in 0..n, k # n PROVE r[k + 1] = RenderPlugin(r[k], k + 1)
  <2>1. Max(1..k + 1) = k + 1 /\ (1..k + 1) \ {k + 1} = 1..k
    BY Greatest
  <2>2. 1..k + 1 \in SUBSET (1..n) /\ k + 1 \in 0..n
    BY <1>4
  <2>3. g[1..k + 1] = Renders(out, g, 1..k + 1)
    BY <1>1, <2>2, RenderingAt
  <2>4. 1..k + 1 # {} /\ r[k] = g[1..k] /\ r[k + 1] = g[1..k + 1]
    BY <2>2
  <2> QED BY <2>1, <2>3, <2>4 DEF Renders
<1>5. r[0] = out /\ r[n] = g[1..n]
  BY <1>3
<1> HIDE DEF r
<1> QED BY <1>2, <1>4, <1>5

(***************************************************************************)
(* The names.                                                              *)
(***************************************************************************)

\* The source that may write a name, told by its first parts.
Writer(name) ==
  CASE name[1] = "exporter" -> "exporter"
    [] name[1] = "node" \/ name[1] = "routing" -> "node"
    [] name[1] = "wallet" -> "funds"
    [] name[1] = "channel" /\ name[2] = "htlcs_near_expiry" -> "channels"
    [] name[1] = "channel" /\ name[2] = "apy_ratio" -> "channel_apy"
    [] name[1] = "peer" -> "peers"
    [] name[1] = "bitcoin" -> "feerates"
    [] name[1] = "plugin" -> "plugins"
    [] name[1] = "bookkeeper" -> "bookkeeper"
    [] name[1] = "anchor" -> "tank"
    [] name[1] = "liquidity" -> "listnodes"
    [] name[1] = "notifications" -> "events"
    [] name[1] = "tracker" -> "tracker"

\* The sources of names that are not plugins.
LEMMA SourcesAre ==
  DOMAIN Names = {"exporter", "node", "funds", "channels", "peers", "feerates", "configs",
                  "plugins", "bookkeeper", "channel_apy", "tank", "listnodes", "events",
                  "tracker"}
BY DEF Names

\* A name of a collector tells its writer.
LEMMA WriterIs ==
  ASSUME NEW c \in DOMAIN Names, NEW n \in Names[c]
  PROVE  Writer(n) = c
<1>1. CASE c = "node"
  <2>1. n[1] = "node" \/ n[1] = "routing"
    BY <1>1 DEF Names, NodeNames
  <2> QED BY <1>1, <2>1 DEF Writer
<1>2. CASE c = "tracker"
  <2>1. n[1] = "tracker"
    BY <1>2 DEF Names, TrackerNames
  <2> QED BY <1>2, <2>1 DEF Writer
<1>3. CASE c \notin {"node", "tracker"}
  BY <1>3, SourcesAre DEF Names, Writer
<1> QED BY <1>1, <1>2, <1>3

\* So no two of them write the same name.
LEMMA NamesApart ==
  ASSUME NEW c \in DOMAIN Names, NEW d \in DOMAIN Names, c # d
  PROVE  Names[c] \cap Names[d] = {}
BY WriterIs

(***************************************************************************)
(* The inductive invariant.                                                *)
(***************************************************************************)

\* The types of the records, whose fields are read.
Records ==
  /\ began \in [plugins : Nat, listnodes : Nat]
  /\ plugin \in [Plugins -> [at : Standing, families : Seq(Family)]]
  /\ clock \in Nat /\ height \in Nat /\ informed \in Nat

\* What is awaited in each phase: listnodes once all else is there, then nothing.
Awaited ==
  /\ phase = "joining" => answer["listnodes"] = "unasked"
  /\ phase # "joining" => Joined
  /\ phase = "done" => answer["listnodes"] # "waiting"
  /\ \A i \in Plugins : plugin[i].at = "waiting" => answer["discovery"] = "ok"

\* The discovery has one timeout, the plugins one after it, and listnodes one after
\* both, or after the other calls, which began with the discovery.
Timed ==
  /\ began.plugins <= Timeout
  /\ answer["discovery"] = "waiting" => began.plugins = 0 /\ phase = "joining"
  /\ phase = "joining" => clock <= began.plugins + Timeout
  /\ began.listnodes <= began.plugins + Timeout
  /\ phase = "advertising" => clock <= began.listnodes + Timeout
  /\ clock <= began.plugins + 2 * Timeout

\* The sources that are written before the second call, and those before the plugins.
Early == {"exporter"} \cup {c \in First : Ok(c)} \cup IF TankKnown THEN {"tank"} ELSE {}
Late  == Early \cup {"events"} \cup IF Ok("listnodes") THEN {"listnodes"} ELSE {}

WrittenByAll(S) == UNION {WrittenBy(c) : c \in S}

NearNow == IF Ok("channels") THEN Cardinality({e \in Case.htlcs : Near(e, Blockheight)})
                             ELSE None
BalancesNow == IF Ok("bookkeeper") THEN Balances(Case.accounts) ELSE {}

\* What has been written when the join is over.
Advertised ==
  output = [written |-> WrittenByAll(Early), success |-> [c \in First |-> Ok(c)],
            accepted |-> <<>>, near |-> NearNow, balances |-> BalancesNow]

\* The plugins of an output that are reported as accepted, and what they wrote.
Accepted(out) == {i \in DOMAIN out.accepted : out.accepted[i]}
WrittenByPlugins(S) == UNION {WrittenByPlugin(i) : i \in S}

\* Plugins are accepted that answered, and whose names are nobody's before them.
Fine(out, n) ==
  /\ DOMAIN out.accepted = 1..n
  /\ \A i \in Accepted(out) :
       /\ plugin[i].at = "ok"
       /\ \A c \in Late : NamesOf(i) \cap Names[c] = {}
       /\ \A j \in Accepted(out) : i # j => NamesOf(i) \cap NamesOf(j) = {}

\* The fallback is written when it was answered and no plugin replaces it.
Fallback(out) == IF ~TrackerRendered(out) /\ Ok("tracker") THEN {"tracker"} ELSE {}

\* What has been written in the end.
FinishedAs(out) ==
  /\ \E n \in {0, Len(Case.plugins)} : Fine(out, n)
  /\ out.written = WrittenByAll(Late \cup Fallback(out)) \cup WrittenByPlugins(Accepted(out))
  /\ out.success = [c \in First \cup {"listnodes", "discovery"} \cup
                      IF TrackerRendered(out) THEN {} ELSE {"tracker"} |-> Ok(c)]
  /\ out.near = NearNow /\ out.balances = BalancesNow

Finished == FinishedAs(output)

Core == TypeOK /\ Records /\ Awaited /\ Timed

IInv ==
  /\ Core
  /\ phase = "advertising" => Advertised
  /\ phase = "done" => Finished

(***************************************************************************)
(* The calls and the clock.                                                *)
(***************************************************************************)

\* What a scenario is.
LEMMA CaseIs ==
  ASSUME TypeOK
  PROVE  /\ Len(Case.plugins) \in Nat /\ Plugins = 1..Len(Case.plugins)
         /\ Case.height \in Nat /\ Case.htlcs \subseteq Nat /\ IsFiniteSet(Case.htlcs)
         /\ \A i \in Plugins : /\ Stem(i) \in Name \ {<<>>}
                               /\ Case.plugins[i].answers \subseteq Answer
                               /\ Rpc(i) \notin DOMAIN Names
                               /\ \A j \in Plugins : Rpc(i) = Rpc(j) => i = j
<1>1. scenario \in DOMAIN Scenarios
  BY DEF TypeOK
<1> QED BY <1>1, ConstantsAssumption, PluginsAssumption DEF Case, Plugins, Stem, Rpc

\* A timeout is a positive number.
LEMMA TimeoutIs == Timeout \in Nat /\ Timeout > 0
BY ConstantsAssumption

\* The calls of the first part are not listnodes.
LEMMA CallsAre ==
  /\ "listnodes" \in Call /\ "discovery" \in Call /\ "node" \in Call
  /\ Builtin \subseteq Call /\ "listnodes" \notin Builtin /\ "discovery" \notin Builtin
BY DEF Call, Builtin

\* At the start the joined calls and the discovery are awaited.
LEMMA CoreInit == Init => Core
<1> SUFFICES ASSUME Init PROVE Core
  OBVIOUS
<1>1. scenario \in DOMAIN Scenarios /\ Case.height \in Nat
  BY ConstantsAssumption DEF Init, Case
<1>2. plugin \in [Plugins -> [at : Standing, families : Seq(Family)]]
  <2>1. <<>> \in Seq(Family)
    OBVIOUS
  <2> QED BY <2>1 DEF Init, Standing
<1>3. answer \in [Call -> Standing]
  BY DEF Init, Standing
<1>4. answer["listnodes"] = "unasked" /\ answer["discovery"] = "waiting"
  BY CallsAre DEF Init
<1>5. TypeOK
  BY <1>1, <1>2, <1>3, TimeoutIs DEF Init, TypeOK
<1>6. Records
  BY <1>1, <1>2 DEF Init, Records
<1>7. Awaited
  BY <1>4 DEF Init, Awaited
<1>8. Timed
  BY <1>4, TimeoutIs DEF Init, Timed
<1> QED BY <1>5, <1>6, <1>7, <1>8 DEF Core

\* A call ends while the clock stands: what is left to hold is what is awaited.
LEMMA CoreCall ==
  ASSUME Core, NEW c \in Call, NEW r \in {"ok", "failed"}, answer[c] = "waiting",
         answer' = [answer EXCEPT ![c] = r],
         informed' \in {informed, height}, c = "discovery" => r = "failed",
         UNCHANGED <<scenario, phase, clock, began, plugin, height, output>>
  PROVE  Core'
<1>1. scenario' = scenario /\ Case' = Case /\ Plugins' = Plugins
  BY DEF Case, Plugins
<1>2. answer \in [Call -> Standing] /\ answer' \in [Call -> Standing]
  BY DEF Core, TypeOK, Standing
<1>3. \A x \in Call : answer'[x] = "waiting" => answer[x] = "waiting"
  BY <1>2
<1>4. phase # "done"
  <2>1. phase = "done" => \A x \in Call : answer[x] # "waiting"
    BY DEF Core, Awaited, Joined
  <2> QED BY <2>1
<1>5. Case.height \in Nat
  BY CaseIs DEF Core
<1>6. TypeOK'
  BY <1>1, <1>2, <1>4, <1>5 DEF Core, TypeOK, Records
<1>7. Records'
  BY <1>1 DEF Core, Records
<1>8. Awaited'
  <2>1. phase = "joining" => answer'["listnodes"] = "unasked"
    BY <1>2, CallsAre DEF Core, Awaited
  <2>2. phase # "joining" => Joined'
    BY <1>1, <1>3 DEF Core, Awaited, Joined
  <2>3. answer["discovery"] = "ok" => answer'["discovery"] = "ok"
    BY <1>2, CallsAre
  <2> QED BY <1>1, <1>4, <2>1, <2>2, <2>3 DEF Core, Awaited
<1>9. Timed'
  BY <1>3, CallsAre DEF Core, Timed
<1> QED BY <1>6, <1>7, <1>8, <1>9 DEF Core

\* The answer of a built-in call.
LEMMA CoreAnswered == ASSUME Core, NEW c \in Call, Answered(c) PROVE Core'
BY CoreCall DEF Answered

\* The same of a failure, at any time.
LEMMA CoreFailed == ASSUME Core, NEW c \in Call, Failed(c) PROVE Core'
BY CoreCall DEF Failed

\* With the methods known they are called.
LEMMA CoreDiscovered == ASSUME Core, Discovered PROVE Core'
<1>1. scenario' = scenario /\ Case' = Case /\ Plugins' = Plugins /\ phase' = phase
  BY DEF Discovered, Case, Plugins
<1>2. answer \in [Call -> Standing] /\ answer' \in [Call -> Standing]
  BY DEF Core, TypeOK, Standing, Discovered
<1>3. answer'["discovery"] = "ok" /\ answer'["listnodes"] = answer["listnodes"]
  BY <1>2, CallsAre DEF Discovered
<1>4. phase = "joining" /\ answer["discovery"] = "waiting"
  BY DEF Core, Timed, Discovered
<1>5. began' = [plugins |-> clock, listnodes |-> began.listnodes] /\ clock' = clock
  BY DEF Discovered, Core, Records
<1>6. plugin' \in [Plugins -> [at : Standing, families : Seq(Family)]]
  <2>1. <<>> \in Seq(Family)
    OBVIOUS
  <2> QED BY <2>1 DEF Discovered, Standing
<1>7. TypeOK'
  BY <1>1, <1>2, <1>4, <1>5, <1>6 DEF Core, TypeOK, Records, Discovered
<1>8. Records'
  BY <1>1, <1>5, <1>6 DEF Core, Records, Discovered
<1>9. Awaited'
  BY <1>1, <1>3, <1>4 DEF Core, Awaited
<1>10. Timed'
  <2>1. clock <= Timeout /\ clock \in Nat /\ began.listnodes \in Nat /\ began.listnodes <= clock
    BY <1>4, TimeoutIs DEF Core, Timed, Records, TypeOK
  <2> QED BY <1>1, <1>3, <1>4, <1>5, <2>1, TimeoutIs DEF Timed
<1> QED BY <1>7, <1>8, <1>9, <1>10 DEF Core

\* A metrics RPC ends.
LEMMA CorePlugin ==
  ASSUME Core, NEW i \in Plugins, plugin[i].at = "waiting",
         plugin' \in [Plugins -> [at : Standing, families : Seq(Family)]],
         \A j \in Plugins : plugin'[j].at = "waiting" => plugin[j].at = "waiting",
         UNCHANGED <<scenario, phase, clock, answer, began, height, informed, output>>
  PROVE  Core'
<1>1. Case' = Case /\ Plugins' = Plugins
  BY DEF Case, Plugins
<1>2. phase = "joining"
  BY DEF Core, TypeOK, Awaited, Joined
<1>3. TypeOK'
  BY <1>1, <1>2 DEF Core, TypeOK
<1>4. Records'
  BY <1>1 DEF Core, Records
<1>5. Awaited'
  BY <1>1, <1>2 DEF Core, Awaited
<1>6. Timed'
  BY DEF Core, Timed
<1> QED BY <1>3, <1>4, <1>5, <1>6 DEF Core

\* It ends with a valid answer, which is one of the scenario's.
LEMMA CorePluginAnswered == ASSUME Core, NEW i \in Plugins, PluginAnswered(i) PROVE Core'
<1>1. PICK wire \in Case.plugins[i].answers :
        plugin' = [plugin EXCEPT ![i] = [at |-> "ok", families |-> wire.families]]
  BY DEF PluginAnswered
<1>2. wire.families \in Seq(Family)
  BY CaseIs DEF Core, Answer
<1>3. plugin' \in [Plugins -> [at : Standing, families : Seq(Family)]]
  BY <1>1, <1>2 DEF Core, Records, Standing
<1>4. \A j \in Plugins : plugin'[j].at = "waiting" => plugin[j].at = "waiting"
  BY <1>1 DEF Core, Records
<1> QED BY <1>3, <1>4, CorePlugin DEF PluginAnswered

\* It fails, or its answer is not valid.
LEMMA CorePluginFailed == ASSUME Core, NEW i \in Plugins, PluginFailed(i) PROVE Core'
<1>1. plugin' \in [Plugins -> [at : Standing, families : Seq(Family)]]
  BY DEF Core, Records, Standing, PluginFailed
<1>2. \A j \in Plugins : plugin'[j].at = "waiting" => plugin[j].at = "waiting"
  BY DEF Core, Records, PluginFailed
<1> QED BY <1>1, <1>2, CorePlugin DEF PluginFailed

\* A block changes the height only.
LEMMA CoreBlock == ASSUME Core, Block PROVE Core'
<1>1. Case' = Case /\ Plugins' = Plugins /\ Case.height \in Nat
  BY CaseIs DEF Case, Plugins, Block, Core
<1>2. TypeOK'
  BY <1>1 DEF Core, TypeOK, Records, Block
<1>3. Records'
  BY <1>1 DEF Core, Records, Block
<1>4. Awaited'
  BY <1>1 DEF Core, Awaited, Joined, Block
<1>5. Timed'
  BY DEF Core, Timed, Block
<1> QED BY <1>2, <1>3, <1>4, <1>5 DEF Core

\* Time passes up to the first deadline: in the first part it is that of the calls
\* that began with the scrape or that of the plugins, then that of listnodes.
LEMMA CoreTick == ASSUME Core, Tick PROVE Core'
<1>1. Case' = Case /\ Plugins' = Plugins
  BY DEF Case, Plugins, Tick
<1>2. /\ clock \in Nat /\ clock' = clock + 1 /\ phase' = phase
      /\ began \in [plugins : Nat, listnodes : Nat] /\ began' = began /\ answer' = answer
      /\ phase \in {"joining", "advertising", "done"}
  BY DEF Core, Records, TypeOK, Tick
<1>3. phase # "done"
  BY DEF Core, TypeOK, Tick
<1>4. ASSUME phase = "joining" PROVE Timed'
  <2>1. \A c \in Call : answer[c] = "waiting" => Deadline(Start(c)) = Timeout
    BY <1>4, TimeoutIs DEF Core, Awaited, Start, Deadline
  <2>2. \A t \in Deadlines : t <= began.plugins + Timeout
    BY <1>2, <2>1, TimeoutIs DEF Deadlines, Deadline
  <2>3. clock + 1 <= began.plugins + Timeout
    <3>1. PICK t \in Deadlines : clock < t
      BY DEF Tick
    <3>2. t \in Nat
      BY <1>2, <2>1, TimeoutIs DEF Deadlines, Deadline
    <3> QED BY <1>2, <2>2, <3>1, <3>2, TimeoutIs
  <2> QED BY <1>2, <1>4, <2>3, TimeoutIs DEF Core, Timed
<1>5. ASSUME phase = "advertising" PROVE Timed'
  <2>1. Deadlines = {Deadline(began.listnodes)}
    <3>1. \A c \in Call : answer[c] = "waiting" => c = "listnodes"
      BY <1>5 DEF Core, Awaited, Joined
    <3>2. \A i \in Plugins : plugin[i].at # "waiting"
      BY <1>5 DEF Core, Awaited, Joined
    <3>3. Deadlines # {}
      BY DEF Tick
    <3> QED BY <3>1, <3>2, <3>3 DEF Deadlines, Start
  <2>2. clock < began.listnodes + Timeout
    BY <2>1 DEF Tick, Deadline
  <2>3. /\ began.plugins <= Timeout /\ began.listnodes <= began.plugins + Timeout
        /\ answer["discovery"] # "waiting"
    BY <1>5 DEF Core, Timed
  <2> QED BY <1>2, <1>5, <2>2, <2>3, TimeoutIs DEF Timed
<1>6. Timed'
  BY <1>2, <1>3, <1>4, <1>5
<1>7. TypeOK'
  <2>1. clock' \in 0..3 * Timeout
    BY <1>2, <1>6, TimeoutIs DEF Timed
  <2> QED BY <1>1, <1>2, <1>3, <2>1 DEF Core, TypeOK, Tick
<1>8. Records'
  BY <1>1, <1>2 DEF Core, Records, Tick
<1>9. Awaited'
  BY <1>1, <1>2 DEF Core, Awaited, Joined, Tick
<1> QED BY <1>6, <1>7, <1>8, <1>9 DEF Core

\* The join is over: listnodes is called, and nothing else is awaited.
LEMMA CoreJoin == ASSUME Core, Join PROVE Core'
<1>1. /\ scenario' = scenario /\ Case' = Case /\ Plugins' = Plugins /\ clock' = clock
      /\ plugin' = plugin /\ height' = height /\ informed' = informed
      /\ phase = "joining" /\ phase' = "advertising"
  BY DEF Join, Case, Plugins
<1>2. answer \in [Call -> Standing] /\ answer' \in [Call -> Standing]
  BY DEF Core, TypeOK, Standing, Join
<1>3. began' = [plugins |-> began.plugins, listnodes |-> clock] /\ clock \in Nat
  BY DEF Join, Core, Records
<1>4. \A c \in Call \ {"listnodes"} : answer'[c] = answer[c]
  BY <1>2 DEF Join
<1>5. TypeOK'
  BY <1>1, <1>2, <1>3 DEF Core, TypeOK, Records
<1>6. Records'
  BY <1>1, <1>3 DEF Core, Records
<1>7. Awaited'
  BY <1>1, <1>4, CallsAre DEF Core, Awaited, Joined, Join
<1>8. Timed'
  <2>1. answer'["discovery"] # "waiting"
    BY <1>4, CallsAre DEF Join, Joined
  <2>2. began.plugins <= Timeout /\ clock <= began.plugins + Timeout /\ began.plugins \in Nat
    BY <1>1 DEF Core, Timed, Records
  <2> QED BY <1>1, <1>3, <2>1, <2>2, TimeoutIs DEF Timed
<1> QED BY <1>5, <1>6, <1>7, <1>8 DEF Core

\* The end: nothing is awaited, so there is no deadline.
LEMMA CoreFinish == ASSUME Core, Finish PROVE Core'
<1>1. /\ scenario' = scenario /\ Case' = Case /\ Plugins' = Plugins /\ clock' = clock
      /\ plugin' = plugin /\ height' = height /\ informed' = informed
      /\ answer' = answer /\ began' = began
      /\ phase = "advertising" /\ phase' = "done" /\ answer["listnodes"] # "waiting"
  BY DEF Finish, Case, Plugins
<1>2. Joined
  BY <1>1 DEF Core, Awaited
<1>3. Deadlines' = {}
  BY <1>1, <1>2 DEF Joined, Deadlines
<1>4. TypeOK'
  BY <1>1, <1>3 DEF Core, TypeOK
<1>5. Records'
  BY <1>1 DEF Core, Records
<1>6. Awaited'
  BY <1>1, <1>2 DEF Core, Awaited, Joined
<1>7. Timed'
  BY <1>1 DEF Core, Timed
<1> QED BY <1>4, <1>5, <1>6, <1>7 DEF Core

\* Every step keeps the core.
LEMMA CoreNext == ASSUME Core, Next PROVE Core'
BY CoreAnswered, CoreFailed, CoreDiscovered, CorePluginAnswered, CorePluginFailed,
   CoreBlock, CoreTick, CoreJoin, CoreFinish DEF Next

\* When the scrape is done nothing happens any more.
LEMMA DoneIsTheEnd == ASSUME Core, phase = "done" PROVE ~Next
<1>1. /\ \A c \in Call : answer[c] # "waiting"
      /\ \A i \in Plugins : plugin[i].at # "waiting"
      /\ Deadlines = {}
  BY DEF Core, TypeOK, Awaited, Joined
<1>2. \A c \in Call : ~Answered(c) /\ ~Failed(c)
  BY <1>1 DEF Answered, Failed
<1>3. \A i \in Plugins : ~PluginAnswered(i) /\ ~PluginFailed(i)
  BY <1>1 DEF PluginAnswered, PluginFailed
<1>4. ~Discovered /\ ~Block /\ ~Tick
  BY <1>1, CallsAre DEF Discovered, Block, Tick
<1>5. ~Join
  BY DEF Join
<1>6. ~Finish
  BY DEF Finish
<1> QED BY <1>2, <1>3, <1>4, <1>5, <1>6 DEF Next

(***************************************************************************)
(* What is written.                                                        *)
(***************************************************************************)

\* What two groups of sources write together.
LEMMA BothWrite ==
  ASSUME NEW S, NEW T
  PROVE  WrittenByAll(S \cup T) = WrittenByAll(S) \cup WrittenByAll(T)
BY DEF WrittenByAll

\* One source writes its names.
LEMMA OneWrites == ASSUME NEW c PROVE WrittenByAll({c}) = WrittenBy(c)
BY DEF WrittenByAll

\* No source writes nothing.
LEMMA NoneWrites == WrittenByAll({}) = {}
BY DEF WrittenByAll

\* With the same answers the same is to be written.
LEMMA SameAnswers ==
  ASSUME scenario' = scenario, informed' = informed,
         \A c \in Call \ {"listnodes"} : answer'[c] = answer[c]
  PROVE  /\ Early' = Early /\ NearNow' = NearNow /\ BalancesNow' = BalancesNow
         /\ [c \in First |-> Ok(c)]' = [c \in First |-> Ok(c)]
<1>1. /\ \A c \in Builtin : answer'[c] = answer[c]
      /\ Case' = Case
  BY CallsAre DEF Case
<1>2. /\ First \subseteq Builtin
      /\ {"funds", "channels", "feerates", "configs", "node", "bookkeeper"} \subseteq Builtin
  BY DEF First, Builtin
<1>3. TankKnown' <=> TankKnown
  BY <1>1, <1>2 DEF TankKnown, Ok
<1>4. Early' = Early
  BY <1>1, <1>2, <1>3 DEF Early, Ok
<1>5. NearNow' = NearNow
  BY <1>1, <1>2 DEF NearNow, Blockheight, Ok
<1>6. BalancesNow' = BalancesNow
  BY <1>1, <1>2 DEF BalancesNow, Ok
<1>7. [c \in First |-> Ok(c)]' = [c \in First |-> Ok(c)]
  BY <1>1, <1>2 DEF Ok
<1> QED BY <1>4, <1>5, <1>6, <1>7

\* What is written when the join is over stays, as its calls are over.
LEMMA AdvertisedStays ==
  ASSUME Core, Advertised, phase = "advertising", Next, phase' = "advertising"
  PROVE  Advertised'
<1>1. /\ \A c \in Call \ {"listnodes"} : answer[c] # "waiting"
      /\ \A i \in Plugins : plugin[i].at # "waiting"
      /\ answer \in [Call -> Standing]
  BY DEF Core, TypeOK, Awaited, Joined
<1> DEFINE Same == /\ output' = output /\ scenario' = scenario /\ informed' = informed
                   /\ \A c \in Call \ {"listnodes"} : answer'[c] = answer[c]
<1>2. Same
  <2>1. ASSUME NEW c \in Call, Answered(c) \/ Failed(c) PROVE Same
    <3>1. c = "listnodes"
      BY <1>1, <2>1 DEF Answered, Failed
    <3> QED BY <1>1, <2>1, <3>1 DEF Answered, Failed
  <2>2. CASE Discovered
    BY <1>1, <2>2, CallsAre DEF Discovered
  <2>3. ASSUME NEW i \in Plugins, PluginAnswered(i) \/ PluginFailed(i) PROVE FALSE
    BY <1>1, <2>3 DEF PluginAnswered, PluginFailed
  <2>4. CASE Block \/ Tick
    BY <2>4 DEF Block, Tick
  <2>5. CASE Join
    BY <2>5 DEF Join
  <2>6. CASE Finish
    BY <2>6 DEF Finish
  <2> HIDE DEF Same
  <2> QED BY <2>1, <2>2, <2>3, <2>4, <2>5, <2>6 DEF Next
<1> QED BY <1>2, SameAnswers DEF Advertised

\* The join writes what Advertised says.
LEMMA JoinAdvertises == ASSUME Core, Join PROVE Advertised'
<1>1. answer \in [Call -> Standing]
  BY DEF Core, TypeOK
<1>2. /\ scenario' = scenario /\ informed' = informed
      /\ \A c \in Call \ {"listnodes"} : answer'[c] = answer[c]
  BY <1>1 DEF Join
<1>3. /\ output'.success = [c \in First |-> Ok(c)] /\ output'.accepted = <<>>
      /\ output'.near = NearNow /\ output'.balances = BalancesNow
      /\ output' = [written |-> output'.written, success |-> output'.success,
                    accepted |-> output'.accepted, near |-> output'.near,
                    balances |-> output'.balances]
  BY DEF Join, NearNow, BalancesNow
<1>4. output'.written = WrittenByAll(Early)
  <2>1. output'.written = WrittenByAll({"exporter"} \cup {c \in First : Ok(c)})
                            \cup IF TankKnown THEN WrittenBy("tank") ELSE {}
    BY DEF Join, Writes, WrittenByAll
  <2>2. (IF TankKnown THEN WrittenBy("tank") ELSE {})
          = WrittenByAll(IF TankKnown THEN {"tank"} ELSE {})
    BY BothWrite, OneWrites, NoneWrites
  <2> QED BY <2>1, <2>2, BothWrite, OneWrites, NoneWrites DEF Early
<1>5. Early' = Early /\ WrittenByAll(Early)' = WrittenByAll(Early)
  BY <1>2, SameAnswers DEF WrittenByAll
<1> QED BY <1>2, <1>3, <1>4, <1>5, SameAnswers DEF Advertised

\* An output in the middle of the plugins: the first n of them are rendered.
Progress(out, n) ==
  /\ out.accepted \in Seq(BOOLEAN) /\ Len(out.accepted) = n
  /\ Fine(out, n)
  /\ out.written = WrittenByAll(Late) \cup WrittenByPlugins(Accepted(out))
  /\ out.near = NearNow /\ out.balances = BalancesNow
  /\ out.success = [c \in First \cup {"listnodes", "discovery"} |-> Ok(c)]
  /\ DOMAIN out = {"written", "success", "accepted", "near", "balances"}
  /\ out = [x \in DOMAIN out |-> out[x]]

\* Its names are those of the sources and those of the plugins that were accepted.
LEMMA TakenIs ==
  ASSUME NEW out, NEW n, Progress(out, n)
  PROVE  /\ \A c \in Late : Names[c] \subseteq Taken(out)
         /\ \A i \in Accepted(out) : NamesOf(i) \subseteq Taken(out)
<1>1. ASSUME NEW c \in Late, NEW m \in Names[c] PROVE m \in Taken(out)
  <2>1. [name |-> m, by |-> c] \in out.written
    BY DEF Progress, WrittenByAll, WrittenBy
  <2> QED BY <2>1 DEF Taken
<1>2. ASSUME NEW i \in Accepted(out), NEW m \in NamesOf(i) PROVE m \in Taken(out)
  <2>1. [name |-> m, by |-> Rpc(i)] \in out.written
    BY DEF Progress, WrittenByPlugins, WrittenByPlugin
  <2> QED BY <2>1 DEF Taken
<1> QED BY <1>1, <1>2

\* Rendering one more plugin: it is added when its names are free, else not.
LEMMA OneMorePlugin ==
  ASSUME NEW out, NEW n \in Nat, Progress(out, n)
  PROVE  Progress(RenderPlugin(out, n + 1), n + 1)
<1> DEFINE fine == plugin[n + 1].at = "ok" /\ NamesOf(n + 1) \cap Taken(out) = {}
           o == RenderPlugin(out, n + 1)
<1>1. /\ o.accepted = Append(out.accepted, fine)
      /\ o.written = out.written \cup IF fine THEN WrittenByPlugin(n + 1) ELSE {}
      /\ o.near = out.near /\ o.balances = out.balances /\ o.success = out.success
      /\ DOMAIN o = DOMAIN out /\ o = [x \in DOMAIN o |-> o[x]]
  BY DEF Progress, RenderPlugin
<1>2. /\ out.accepted \in Seq(BOOLEAN) /\ Len(out.accepted) = n /\ fine \in BOOLEAN
      /\ DOMAIN out.accepted = 1..n
  BY DEF Progress
<1>3. /\ o.accepted \in Seq(BOOLEAN) /\ Len(o.accepted) = n + 1 /\ DOMAIN o.accepted = 1..n + 1
      /\ \A i \in 1..n : o.accepted[i] = out.accepted[i]
      /\ o.accepted[n + 1] = fine
  <2> HIDE DEF fine, o
  <2> QED BY <1>1, <1>2
<1>4. Accepted(o) = Accepted(out) \cup IF fine THEN {n + 1} ELSE {}
  <2> HIDE DEF fine, o
  <2>1. Accepted(o) = {i \in 1..n + 1 : o.accepted[i]}
    BY <1>3 DEF Accepted
  <2>2. Accepted(out) = {i \in 1..n : out.accepted[i]}
    BY <1>2 DEF Accepted
  <2>3. 1..n + 1 = (1..n) \cup {n + 1} /\ n + 1 \notin 1..n
    OBVIOUS
  <2> QED BY <1>3, <2>1, <2>2, <2>3
<1> HIDE DEF o
<1>5. Fine(o, n + 1)
  <2>1. ASSUME NEW i \in Accepted(o)
        PROVE  /\ plugin[i].at = "ok"
               /\ \A c \in Late : NamesOf(i) \cap Names[c] = {}
    BY <1>4, TakenIs DEF Progress, Fine
  <2>2. ASSUME NEW i \in Accepted(o), NEW j \in Accepted(o), i # j
        PROVE  NamesOf(i) \cap NamesOf(j) = {}
    BY <1>4, <2>2, TakenIs DEF Progress, Fine
  <2> QED BY <1>3, <2>1, <2>2 DEF Fine
<1>6. o.written = WrittenByAll(Late) \cup WrittenByPlugins(Accepted(o))
  <2>1. out.written = WrittenByAll(Late) \cup WrittenByPlugins(Accepted(out))
    BY DEF Progress
  <2> HIDE DEF fine
  <2> QED BY <1>1, <1>4, <2>1 DEF WrittenByPlugins
<1>7. Progress(o, n + 1)
  BY <1>1, <1>3, <1>5, <1>6 DEF Progress
<1> QED BY <1>7 DEF o

\* So all of them are rendered in the end.
LEMMA AllPlugins ==
  ASSUME NEW out, NEW n \in Nat, Progress(out, 0)
  PROVE  Progress(Rendered(out, n), n)
<1>1. PICK r : /\ r[0] = out
               /\ \A k \in 0..n : k # n => r[k + 1] = RenderPlugin(r[k], k + 1)
               /\ Rendered(out, n) = r[n]
  BY RenderedOneByOne
<1> DEFINE Bad == {k \in 0..n : ~Progress(r[k], k)}
<1>2. Bad = {}
  <2> SUFFICES ASSUME Bad # {} PROVE FALSE
    OBVIOUS
  <2>1. PICK k \in Bad : \A j \in Bad : k <= j
    <3>1. Bad \in SUBSET Nat
      OBVIOUS
    <3> HIDE DEF Bad
    <3> QED BY <3>1, Least
  <2>2. k # 0
    BY <1>1, <2>1
  <2>3. k - 1 \in 0..n /\ k - 1 \notin Bad /\ (k - 1) + 1 = k /\ k - 1 # n /\ k - 1 \in Nat
    BY <2>1, <2>2
  <2>4. Progress(r[k - 1], k - 1) /\ r[k] = RenderPlugin(r[k - 1], k)
    BY <1>1, <2>3
  <2>5. Progress(r[k], k)
    BY <2>3, <2>4, OneMorePlugin
  <2> QED BY <2>1, <2>5
<1> QED BY <1>1, <1>2

\* The output that the plugins are rendered into.
BeforePlugins ==
  [output EXCEPT !.written = @ \cup WrittenBy("events") \cup
                             IF Ok("listnodes") THEN WrittenBy("listnodes") ELSE {},
                 !.success = Reported(@, {"listnodes", "discovery"})]

\* Before the plugins none of them is rendered.
LEMMA NoneRendered == ASSUME Core, Advertised PROVE Progress(BeforePlugins, 0)
<1>1. /\ BeforePlugins.accepted = <<>> /\ BeforePlugins.near = NearNow
      /\ BeforePlugins.balances = BalancesNow
      /\ DOMAIN BeforePlugins = {"written", "success", "accepted", "near", "balances"}
      /\ BeforePlugins = [x \in DOMAIN BeforePlugins |-> BeforePlugins[x]]
  BY DEF Advertised, BeforePlugins
<1>2. BeforePlugins.written = WrittenByAll(Late)
  <2>1. BeforePlugins.written = WrittenByAll(Early) \cup WrittenBy("events") \cup
                           IF Ok("listnodes") THEN WrittenBy("listnodes") ELSE {}
    BY DEF Advertised, BeforePlugins
  <2>2. (IF Ok("listnodes") THEN WrittenBy("listnodes") ELSE {})
          = WrittenByAll(IF Ok("listnodes") THEN {"listnodes"} ELSE {})
    BY BothWrite, OneWrites, NoneWrites
  <2> DEFINE L == IF Ok("listnodes") THEN {"listnodes"} ELSE {}
  <2>3. Late = (Early \cup {"events"}) \cup L
    BY DEF Late
  <2> HIDE DEF L
  <2>4. WrittenByAll(Late)
          = (WrittenByAll(Early) \cup WrittenByAll({"events"})) \cup WrittenByAll(L)
    <3>1. WrittenByAll((Early \cup {"events"}) \cup L)
            = WrittenByAll(Early \cup {"events"}) \cup WrittenByAll(L)
      BY BothWrite
    <3>2. WrittenByAll(Early \cup {"events"}) = WrittenByAll(Early) \cup WrittenByAll({"events"})
      BY BothWrite
    <3> QED BY <2>3, <3>1, <3>2
  <2>5. WrittenByAll({"events"}) = WrittenBy("events")
    BY BothWrite, OneWrites, NoneWrites
  <2> QED BY <2>1, <2>2, <2>4, <2>5 DEF L
<1>3. BeforePlugins.success = [c \in First \cup {"listnodes", "discovery"} |-> Ok(c)]
  <2>1. BeforePlugins.success = Reported([c \in First |-> Ok(c)], {"listnodes", "discovery"})
    BY DEF Advertised, BeforePlugins
  <2> QED BY <2>1 DEF Reported
<1>4. Accepted(BeforePlugins) = {} /\ Fine(BeforePlugins, 0)
  BY <1>1 DEF Accepted, Fine
<1>5. WrittenByPlugins({}) = {}
  BY DEF WrittenByPlugins
<1> QED BY <1>1, <1>2, <1>3, <1>4, <1>5 DEF Progress

\* The fallback adds its names and its report.
LEMMA FallbackAdds ==
  ASSUME Core, NEW out, NEW n, Progress(out, n)
  PROVE  LET o == WithFallback(out)
         IN /\ o.accepted = out.accepted /\ o.near = out.near /\ o.balances = out.balances
            /\ o.written = out.written \cup WrittenByAll(Fallback(out))
            /\ o.success = [c \in First \cup {"listnodes", "discovery"} \cup
                              IF TrackerRendered(out) THEN {} ELSE {"tracker"} |-> Ok(c)]
<1> DEFINE o == WithFallback(out)
<1>1. CASE TrackerRendered(out)
  <2>1. o = out /\ Fallback(out) = {}
    BY <1>1 DEF WithFallback, Fallback
  <2> QED BY <1>1, <2>1, BothWrite, OneWrites, NoneWrites DEF Progress
<1>2. CASE ~TrackerRendered(out)
  <2>1. /\ o.accepted = out.accepted /\ o.near = out.near /\ o.balances = out.balances
        /\ o.written = out.written \cup IF Ok("tracker") THEN WrittenBy("tracker") ELSE {}
        /\ o.success = Reported(out.success, {"tracker"})
    BY <1>2 DEF WithFallback, Progress
  <2>2. (IF Ok("tracker") THEN WrittenBy("tracker") ELSE {}) = WrittenByAll(Fallback(out))
    BY <1>2, BothWrite, OneWrites, NoneWrites DEF Fallback
  <2>3. o.success = [c \in First \cup {"listnodes", "discovery"} \cup {"tracker"} |-> Ok(c)]
    BY <2>1 DEF Progress, Reported
  <2>4. (IF TrackerRendered(out) THEN {} ELSE {"tracker"}) = {"tracker"}
    BY <1>2
  <2> HIDE DEF o
  <2>5. /\ o.accepted = out.accepted /\ o.near = out.near /\ o.balances = out.balances
        /\ o.written = out.written \cup WrittenByAll(Fallback(out))
        /\ o.success = [c \in First \cup {"listnodes", "discovery"} \cup
                          IF TrackerRendered(out) THEN {} ELSE {"tracker"} |-> Ok(c)]
    BY <2>1, <2>2, <2>3, <2>4
  <2> QED BY <2>5 DEF o
<1> QED BY <1>1, <1>2

\* Whether an output is finished depends on the answers.
LEMMA SameFinish ==
  ASSUME scenario' = scenario, answer' = answer, plugin' = plugin, informed' = informed
  PROVE  FinishedAs(output') <=> Finished'
<1>1. /\ Early' = Early /\ NearNow' = NearNow /\ BalancesNow' = BalancesNow
      /\ Case' = Case /\ \A c \in Call : Ok(c)' <=> Ok(c)
  BY SameAnswers DEF Case, Ok
<1>2. Late' = Late
  BY <1>1 DEF Late, Ok
<1>3. /\ Accepted(output)' = Accepted(output') /\ Fallback(output)' = Fallback(output')
      /\ TrackerRendered(output)' <=> TrackerRendered(output')
  BY <1>1 DEF Accepted, Fallback, TrackerRendered, Ok, Stem
<1>4. \A i : NamesOf(i)' = NamesOf(i) /\ Rpc(i)' = Rpc(i)
  BY <1>1 DEF NamesOf, Stem, Rpc
<1>5. \A m : Fine(output, m)' <=> Fine(output', m)
  BY <1>2, <1>3, <1>4 DEF Fine
<1>6. WrittenByPlugins(Accepted(output))' = WrittenByPlugins(Accepted(output'))
  BY <1>3, <1>4 DEF WrittenByPlugins, WrittenByPlugin
<1>7. WrittenByAll(Late \cup Fallback(output))' = WrittenByAll(Late \cup Fallback(output'))
  BY <1>2, <1>3 DEF WrittenByAll, WrittenBy
<1>8. [c \in First \cup {"listnodes", "discovery"} \cup
          IF TrackerRendered(output) THEN {} ELSE {"tracker"} |-> Ok(c)]'
        = [c \in First \cup {"listnodes", "discovery"} \cup
             IF TrackerRendered(output') THEN {} ELSE {"tracker"} |-> Ok(c)]
  BY <1>3 DEF Ok
<1> QED BY <1>1, <1>5, <1>6, <1>7, <1>8 DEF Finished, FinishedAs

\* The end writes what Finished says.
LEMMA FinishWrites == ASSUME Core, Advertised, Finish PROVE Finished'
<1> DEFINE n == IF Ok("discovery") THEN Len(Case.plugins) ELSE 0
           out == Rendered(BeforePlugins, n)
           called == IF Ok("discovery") THEN [i \in Plugins |-> i] ELSE <<>>
<1>1. n \in {0, Len(Case.plugins)} /\ n \in Nat
  BY CaseIs DEF Core
<1>2. called = InOrder(n)
  BY CaseIs DEF Core, InOrder
<1>3. output' = WithFallback(out)
  <2>1. output' = WithFallback(FoldLeft(RenderPlugin, BeforePlugins, called))
    BY DEF Finish, BeforePlugins
  <2> HIDE DEF called, n
  <2> QED BY <1>2, <2>1 DEF Rendered
<1> HIDE DEF n, out
<1>4. Progress(out, n)
  BY <1>1, NoneRendered, AllPlugins DEF out
<1>5. Accepted(output') = Accepted(out) /\ Fallback(output') = Fallback(out)
      /\ (TrackerRendered(output') <=> TrackerRendered(out)) /\ Fine(output', n)
  <2>1. output'.accepted = out.accepted
    BY <1>3, <1>4, FallbackAdds
  <2>2. Fine(out, n)
    BY <1>4 DEF Progress
  <2> QED BY <2>1, <2>2 DEF Accepted, Fallback, TrackerRendered, Fine
<1>6. /\ output'.written = WrittenByAll(Late \cup Fallback(output'))
                             \cup WrittenByPlugins(Accepted(output'))
      /\ output'.near = NearNow /\ output'.balances = BalancesNow
      /\ output'.success = [c \in First \cup {"listnodes", "discovery"} \cup
                              IF TrackerRendered(output') THEN {} ELSE {"tracker"} |-> Ok(c)]
  <2>1. /\ output'.near = out.near /\ output'.balances = out.balances
        /\ output'.written = out.written \cup WrittenByAll(Fallback(out))
        /\ output'.success = [c \in First \cup {"listnodes", "discovery"} \cup
                                IF TrackerRendered(out) THEN {} ELSE {"tracker"} |-> Ok(c)]
    BY <1>3, <1>4, FallbackAdds
  <2>2. /\ out.near = NearNow /\ out.balances = BalancesNow
        /\ out.written = WrittenByAll(Late) \cup WrittenByPlugins(Accepted(out))
    BY <1>4 DEF Progress
  <2>3. output'.written = WrittenByAll(Late \cup Fallback(output'))
                            \cup WrittenByPlugins(Accepted(output'))
    BY <1>5, <2>1, <2>2, BothWrite
  <2>4. (IF TrackerRendered(output') THEN {} ELSE {"tracker"})
          = IF TrackerRendered(out) THEN {} ELSE {"tracker"}
    BY <1>5
  <2> QED BY <2>1, <2>2, <2>3, <2>4
<1>7. FinishedAs(output')
  BY <1>1, <1>5, <1>6 DEF FinishedAs
<1>8. scenario' = scenario /\ answer' = answer /\ plugin' = plugin /\ informed' = informed
  BY DEF Finish
<1> QED BY <1>7, <1>8, SameFinish

(***************************************************************************)
(* The invariant and what follows from it.                                 *)
(***************************************************************************)

\* At the start nothing is written.
LEMMA InvariantInit == Init => IInv
BY CoreInit DEF Init, IInv

\* A step ends the join, ends the scrape, or changes nothing of the output.
LEMMA InvariantNext == IInv /\ [Next]_vars => IInv'
<1> SUFFICES ASSUME IInv, [Next]_vars PROVE IInv'
  OBVIOUS
<1>1. ASSUME Next PROVE IInv'
  <2>1. Core'
    BY <1>1, CoreNext DEF IInv
  <2>2. phase # "done"
    BY <1>1, DoneIsTheEnd DEF IInv
  <2>3. ASSUME phase' = "advertising" PROVE Advertised'
    <3>1. CASE phase = "advertising"
      BY <1>1, <2>3, <3>1, AdvertisedStays DEF IInv
    <3>2. CASE phase # "advertising"
      <4>1. Join
        BY <1>1, <2>3, <3>2 DEF Next, Answered, Failed, Discovered, PluginAnswered,
           PluginFailed, Block, Tick, Finish
      <4> QED BY <4>1, JoinAdvertises DEF IInv
    <3> QED BY <3>1, <3>2
  <2>4. ASSUME phase' = "done" PROVE Finished'
    <3>1. Finish
      BY <1>1, <2>2, <2>4 DEF Next, Answered, Failed, Discovered, PluginAnswered,
         PluginFailed, Block, Tick, Join
    <3>2. phase = "advertising"
      BY <3>1 DEF Finish
    <3> QED BY <3>1, <3>2, FinishWrites DEF IInv
  <2> QED BY <2>1, <2>3, <2>4 DEF IInv
<1>2. ASSUME UNCHANGED vars PROVE IInv'
  <2>1. /\ scenario' = scenario /\ phase' = phase /\ clock' = clock /\ answer' = answer
        /\ began' = began /\ plugin' = plugin /\ height' = height /\ informed' = informed
        /\ output' = output
    BY <1>2 DEF vars
  <2>2. Case' = Case /\ Plugins' = Plugins /\ Deadlines' = Deadlines
    BY <2>1 DEF Case, Plugins, Deadlines, Deadline, Start
  <2>3. TypeOK' /\ Records'
    BY <2>1, <2>2 DEF IInv, Core, TypeOK, Records
  <2>4. Awaited' /\ Timed'
    BY <2>1, <2>2 DEF IInv, Core, Awaited, Joined, Timed
  <2>5. /\ Early' = Early /\ NearNow' = NearNow /\ BalancesNow' = BalancesNow
        /\ [c \in First |-> Ok(c)]' = [c \in First |-> Ok(c)]
    BY <2>1, SameAnswers
  <2>6. phase = "advertising" => Advertised'
    BY <2>1, <2>5 DEF IInv, Advertised, WrittenByAll, WrittenBy
  <2>7. phase = "done" => Finished'
    BY <2>1, SameFinish DEF IInv, Finished
  <2> QED BY <2>1, <2>3, <2>4, <2>6, <2>7 DEF IInv, Core
<1> QED BY <1>1, <1>2

\* The inductive invariant: what is awaited in each phase, when each call times
\* out, and what the output is made of once the join and the scrape are over.
THEOREM InductiveInvariant == Spec => []IInv
BY InvariantInit, InvariantNext, PTL DEF Spec

\* A scrape takes at most two timeouts after the discovery, whatever number of
\* plugins there are and whatever is not answered.
THEOREM ScrapesEndInTime == Spec => []InTime
<1>1. IInv => InTime
  BY DEF IInv, Core, Timed, InTime
<1> QED BY <1>1, InductiveInvariant, PTL

\* The reports of a scrape that is done.
LEMMA ReportsAre ==
  ASSUME IInv, Done
  PROVE  /\ \A c \in First \cup {"listnodes"} : output.success[c] = Ok(c)
         /\ "node" \in First /\ "channels" \in First
<1>1. Finished
  BY DEF IInv, Done
<1> QED BY <1>1 DEF Finished, FinishedAs, First, Builtin

\* A later height has at least as many HTLCs that are near.
LEMMA LaterIsMore ==
  ASSUME NEW S, IsFiniteSet(S), S \subseteq Nat, NEW g \in Nat, NEW h \in Nat, g <= h
  PROVE  /\ Cardinality({e \in S : e <= g + Warning}) <= Cardinality({e \in S : e <= h + Warning})
         /\ Cardinality({e \in S : e <= h + Warning}) \in Nat
<1>1. Warning \in Nat
  BY ConstantsAssumption
<1>2. {e \in S : e <= g + Warning} \subseteq {e \in S : e <= h + Warning}
  <2>1. ASSUME NEW e \in S, e <= g + Warning PROVE e <= h + Warning
    <3>1. e \in Nat
      OBVIOUS
    <3> QED BY <1>1, <2>1, <3>1
  <2> QED BY <2>1
<1>3. IsFiniteSet({e \in S : e <= h + Warning})
  BY FS_Subset
<1> QED BY <1>2, <1>3, FS_Subset, FS_CardinalityType

\* The HTLCs that are counted are those near their expiry at a height between that
\* of the start and that of the end, when both answers are reported as there.
THEOREM DeadlinesAreWarned == Spec => []DeadlinesWarned
<1>1. IInv => DeadlinesWarned
  <2> SUFFICES ASSUME IInv, Done, output.success["node"], output.success["channels"]
               PROVE  output.near \in Cardinality({e \in Case.htlcs : e <= Case.height + Warning})
                                        ..Cardinality({e \in Case.htlcs : e <= height + Warning})
    BY DEF DeadlinesWarned
  <2>1. Ok("node") /\ Ok("channels")
    BY ReportsAre
  <2>2. output.near = Cardinality({e \in Case.htlcs : Near(e, informed)})
    BY <2>1 DEF IInv, Done, Finished, FinishedAs, NearNow, Blockheight
  <2>3. /\ Case.htlcs \subseteq Nat /\ IsFiniteSet(Case.htlcs) /\ Case.height \in Nat
        /\ informed \in Case.height..height /\ height \in Nat /\ informed \in Nat
    BY CaseIs DEF IInv, Core, TypeOK, Records
  <2>4. {e \in Case.htlcs : Near(e, informed)} = {e \in Case.htlcs : e <= informed + Warning}
    BY <2>3, ConstantsAssumption DEF Near, Minus
  <2> DEFINE due(h) == Cardinality({e \in Case.htlcs : e <= h + Warning})
  <2>5. due(Case.height) <= due(informed) /\ due(informed) \in Nat
    <3>1. Case.height <= informed
      BY <2>3
    <3> QED BY <2>3, <3>1, LaterIsMore
  <2>6. due(informed) <= due(height) /\ due(height) \in Nat
    <3>1. informed <= height
      BY <2>3
    <3> QED BY <2>3, <3>1, LaterIsMore
  <2>7. due(Case.height) \in Nat
    <3>1. Case.height <= Case.height
      BY <2>3
    <3> QED BY <2>3, <3>1, LaterIsMore
  <2>8. output.near = due(informed)
    BY <2>2, <2>4
  <2> HIDE DEF due
  <2>9. output.near \in due(Case.height)..due(height)
    BY <2>5, <2>6, <2>7, <2>8
  <2> QED BY <2>9 DEF due
<1> QED BY <1>1, InductiveInvariant, PTL

\* Who wrote what: the sources are told from one another and from the plugins.
LEMMA OfIs ==
  ASSUME IInv, Done
  PROVE  /\ \A c \in DOMAIN Names :
              Of(c) = IF c \in Late \cup Fallback(output) THEN WrittenBy(c) ELSE {}
         /\ \A i \in Plugins :
              Of(Rpc(i)) = IF i \in Accepted(output) THEN WrittenByPlugin(i) ELSE {}
         /\ Accepted(output) \subseteq Plugins
         /\ Late \cup Fallback(output) \subseteq DOMAIN Names
<1>1. FinishedAs(output) /\ TypeOK
  BY DEF IInv, Core, Done, Finished
<1>2. Accepted(output) \subseteq Plugins
  BY <1>1, CaseIs DEF FinishedAs, Fine, Accepted
<1>3. Late \cup Fallback(output) \subseteq DOMAIN Names
  BY SourcesAre DEF Late, Early, First, Builtin, Fallback
<1>4. \A w \in output.written :
        \/ \E c \in Late \cup Fallback(output) : w \in WrittenBy(c)
        \/ \E i \in Accepted(output) : w \in WrittenByPlugin(i)
  BY <1>1 DEF FinishedAs, WrittenByAll, WrittenByPlugins
<1>5. /\ \A c \in Late \cup Fallback(output) : WrittenBy(c) \subseteq output.written
      /\ \A i \in Accepted(output) : WrittenByPlugin(i) \subseteq output.written
  BY <1>1 DEF FinishedAs, WrittenByAll, WrittenByPlugins
<1>6. /\ \A c : \A w \in WrittenBy(c) : w.by = c
      /\ \A i : \A w \in WrittenByPlugin(i) : w.by = Rpc(i)
  BY DEF WrittenBy, WrittenByPlugin
<1>7. \A i \in Plugins : Rpc(i) \notin DOMAIN Names /\ \A j \in Plugins : Rpc(i) = Rpc(j) => i = j
  BY <1>1, CaseIs
<1>8. ASSUME NEW c \in DOMAIN Names
      PROVE  Of(c) = IF c \in Late \cup Fallback(output) THEN WrittenBy(c) ELSE {}
  <2>1. ASSUME NEW w \in Of(c) PROVE c \in Late \cup Fallback(output) /\ w \in WrittenBy(c)
    BY <1>2, <1>4, <1>6, <1>7 DEF Of
  <2>2. ASSUME NEW w \in WrittenBy(c), c \in Late \cup Fallback(output) PROVE w \in Of(c)
    BY <1>5, <1>6, <2>2 DEF Of
  <2> QED BY <2>1, <2>2
<1>9. ASSUME NEW i \in Plugins
      PROVE  Of(Rpc(i)) = IF i \in Accepted(output) THEN WrittenByPlugin(i) ELSE {}
  <2>1. ASSUME NEW w \in Of(Rpc(i)) PROVE i \in Accepted(output) /\ w \in WrittenByPlugin(i)
    BY <1>2, <1>3, <1>4, <1>6, <1>7 DEF Of
  <2>2. ASSUME NEW w \in WrittenByPlugin(i), i \in Accepted(output) PROVE w \in Of(Rpc(i))
    BY <1>5, <1>6, <2>2 DEF Of
  <2> QED BY <2>1, <2>2
<1> QED BY <1>2, <1>3, <1>8, <1>9

\* Every source of metrics, by itself, is written in full and reported as such, or
\* leaves nothing and is reported as failing: the collectors, the plugins and the
\* two sources of Tracker's state.
THEOREM SourcesAreAllOrNothing == Spec => []AllOrNothing
<1>1. IInv => AllOrNothing
  <2> SUFFICES ASSUME IInv PROVE AllOrNothing
    OBVIOUS
  <2>1. Isolated
    <3> SUFFICES ASSUME Done
                 PROVE  /\ \A c \in First \cup {"listnodes"} :
                             /\ output.success[c] = Ok(c)
                             /\ Of(c) = IF Ok(c) THEN WrittenBy(c) ELSE {}
                        /\ Of("tank") = IF TankKnown THEN WrittenBy("tank") ELSE {}
      BY DEF Isolated
    <3>1. ASSUME NEW c \in First \cup {"listnodes"}
          PROVE  c \in DOMAIN Names /\ (c \in Late \cup Fallback(output) <=> Ok(c))
      BY SourcesAre DEF Late, Early, First, Builtin, Fallback
    <3>2. "tank" \in DOMAIN Names /\ ("tank" \in Late \cup Fallback(output) <=> TankKnown)
      BY SourcesAre DEF Late, Early, First, Builtin, Fallback
    <3>3. \A c \in First \cup {"listnodes"} : Of(c) = IF Ok(c) THEN WrittenBy(c) ELSE {}
      BY <3>1, OfIs
    <3> QED BY <3>2, <3>3, OfIs, ReportsAre
  <2>2. RejectedAsUnit
    BY OfIs DEF RejectedAsUnit, Accepted
  <2>3. TrackerShownOnce
    <3> SUFFICES ASSUME Done
                 PROVE  IF TrackerRendered(output)
                        THEN Of("tracker") = {} /\ "tracker" \notin DOMAIN output.success
                        ELSE /\ output.success["tracker"] = Ok("tracker")
                             /\ Of("tracker") # {} <=> Ok("tracker")
      BY DEF TrackerShownOnce
    <3>1. /\ "tracker" \in DOMAIN Names
          /\ "tracker" \in Late \cup Fallback(output)
               <=> ~TrackerRendered(output) /\ Ok("tracker")
      BY SourcesAre DEF Late, Early, First, Builtin, Fallback
    <3>2. output.success = [c \in First \cup {"listnodes", "discovery"} \cup
                              IF TrackerRendered(output) THEN {} ELSE {"tracker"} |-> Ok(c)]
      BY DEF IInv, Done, Finished, FinishedAs
    <3>3. "tracker" \notin First
      BY DEF First
    <3>4. WrittenBy("tracker") # {}
      <4>1. <<"tracker", "healthy">> \in Names["tracker"]
        BY DEF Names, TrackerNames
      <4> QED BY <4>1 DEF WrittenBy
    <3> QED BY <3>1, <3>2, <3>3, <3>4, OfIs
  <2> QED BY <2>1, <2>2, <2>3 DEF IInv, Core, AllOrNothing
<1> QED BY <1>1, InductiveInvariant, PTL

\* What is put before a sequence, when it is one element.
LEMMA OnePartBefore ==
  ASSUME NEW S, NEW s \in Seq(S), NEW t \in Seq(S), s # <<>>, Len(s) <= 1
  PROVE  s = <<s[1]>> /\ (s \o t)[1] = s[1]
<1>1. Len(s) \in Nat /\ Len(s) # 0 /\ Len(t) \in Nat
  BY EmptySeq, LenProperties
<1>2. ASSUME NEW k \in Nat, k # 0, k <= 1 PROVE k = 1
  BY <1>2
<1>3. Len(s) = 1
  BY <1>1, <1>2
<1>4. s = <<s[1]>>
  BY <1>3
<1>5. (s \o t)[1] = IF 1 <= Len(s) THEN s[1] ELSE t[1 - Len(s)]
  <2>1. 1 \in 1..Len(s) + Len(t)
    BY <1>1, <1>3
  <2> QED BY <2>1, ConcatProperties
<1> QED BY <1>3, <1>4, <1>5

\* A name of a plugin whose namespace is one part begins with it.
LEMMA NamespaceFirst ==
  ASSUME IInv, NEW i \in Plugins, NEW n \in NamesOf(i), Len(Stem(i)) <= 1
  PROVE  Stem(i) = <<n[1]>>
<1>1. PICK f \in Range(plugin[i].families) : n = Stem(i) \o f.name
  BY DEF NamesOf
<1>2. f.name \in Seq(STRING)
  <2>1. plugin[i].families \in Seq(Family)
    BY DEF IInv, Core, Records
  <2>2. f \in Family
    BY <2>1 DEF Range
  <2> QED BY <2>2 DEF Family, Name
<1>3. Stem(i) \in Seq(STRING) /\ Stem(i) # <<>>
  BY CaseIs DEF IInv, Core, Name
<1>4. Stem(i) = <<Stem(i)[1]>> /\ (Stem(i) \o f.name)[1] = Stem(i)[1]
  BY <1>2, <1>3, OnePartBefore
<1> QED BY <1>1, <1>4

\* No two write the same name; only the fallback, which is not checked, may repeat a
\* name of a plugin, and only of one whose namespace extends `tracker'.
THEOREM NamesHaveOneWriter == Spec => []OneWriter
<1>1. IInv => OneWriter
  <2> SUFFICES ASSUME IInv, Done, NEW v \in output.written, NEW w \in output.written,
                      v.name = w.name, v.by # w.by
               PROVE  \E i \in Plugins : {v.by, w.by} = {Rpc(i), "tracker"} /\ Len(Stem(i)) > 1
    BY DEF OneWriter
  <2> DEFINE FromSource(x, c) == c \in Late \cup Fallback(output) /\ x.by = c /\ x.name \in Names[c]
             FromPlugin(x, i) == i \in Accepted(output) /\ x.by = Rpc(i) /\ x.name \in NamesOf(i)
  <2>1. FinishedAs(output)
    BY DEF IInv, Done, Finished
  <2>2. \A x \in output.written : (\E c : FromSource(x, c)) \/ (\E i : FromPlugin(x, i))
    BY <2>1 DEF FinishedAs, WrittenByAll, WrittenBy, WrittenByPlugins, WrittenByPlugin
  <2>3. /\ Accepted(output) \subseteq Plugins /\ Late \cup Fallback(output) \subseteq DOMAIN Names
        /\ Fallback(output) \subseteq {"tracker"} /\ \A i \in Plugins : Len(Stem(i)) \in Nat
    BY OfIs, CaseIs DEF Fallback, IInv, Core, Name
  <2>4. \A i \in Accepted(output) :
          /\ \A c \in Late : NamesOf(i) \cap Names[c] = {}
          /\ \A j \in Accepted(output) : i # j => NamesOf(i) \cap NamesOf(j) = {}
    BY <2>1 DEF FinishedAs, Fine
  <2>5. ASSUME NEW c, NEW d, FromSource(v, c), FromSource(w, d) PROVE FALSE
    BY <2>3, <2>5, NamesApart
  <2>6. ASSUME NEW i, NEW j, FromPlugin(v, i), FromPlugin(w, j) PROVE FALSE
    BY <2>4, <2>6
  <2>7. ASSUME NEW x, NEW y, x.name = y.name, NEW c, NEW i, FromSource(x, c), FromPlugin(y, i)
        PROVE  c = "tracker" /\ Len(Stem(i)) > 1
    <3>1. c \in Fallback(output) /\ c = "tracker" /\ x.name[1] = "tracker"
      <4>1. c \notin Late
        BY <2>4, <2>7
      <4>2. c \in Fallback(output) /\ c = "tracker"
        BY <2>3, <2>7, <4>1
      <4> QED BY <2>7, <4>2 DEF Names, TrackerNames
    <3>2. ~TrackerRendered(output)
      BY <3>1 DEF Fallback
    <3>3. Len(Stem(i)) <= 1 => Stem(i) = <<"tracker">>
      BY <2>3, <2>7, <3>1, NamespaceFirst
    <3>4. Stem(i) # <<"tracker">>
      BY <2>7, <3>2 DEF TrackerRendered, Accepted
    <3> QED BY <2>3, <2>7, <3>1, <3>3, <3>4
  <2>8. ASSUME NEW c, NEW i, FromSource(v, c), FromPlugin(w, i)
        PROVE  \E j \in Plugins : {v.by, w.by} = {Rpc(j), "tracker"} /\ Len(Stem(j)) > 1
    BY <2>3, <2>7, <2>8
  <2>9. ASSUME NEW c, NEW i, FromSource(w, c), FromPlugin(v, i)
        PROVE  \E j \in Plugins : {v.by, w.by} = {Rpc(j), "tracker"} /\ Len(Stem(j)) > 1
    BY <2>3, <2>7, <2>9
  <2> HIDE DEF FromSource, FromPlugin
  <2> QED BY <2>2, <2>5, <2>6, <2>8, <2>9
<1> QED BY <1>1, InductiveInvariant, PTL

(***************************************************************************)
(* The balances.                                                           *)
(***************************************************************************)

\* The recursion of Given, as it is written in the library.
GivenStep(coin, accounts, g, s) ==
  IF s = {} THEN 0 ELSE g[s \ {Max(s)}] + Balance(accounts[Max(s)], coin)
IsGiven(coin, accounts, g) ==
  g = [s \in SUBSET DOMAIN accounts |-> GivenStep(coin, accounts, g, s)]
GivenBy(coin, accounts) == CHOOSE g : IsGiven(coin, accounts, g)

\* FoldLeft of the library, in these terms.
LEMMA UnfoldGiven ==
  ASSUME NEW coin, NEW accounts
  PROVE  Given(coin, accounts) = GivenBy(coin, accounts)[DOMAIN accounts]
BY DEF Given, FoldLeft, MapThenFoldSet, IsGiven, GivenStep, GivenBy

\* No coins.
Nothing == [c \in {} |-> 0]

\* What the accounts beyond the first ones have together.
Others(accounts) == FoldLeft(Grouped, [c \in {} |-> 0], accounts)

\* Its recursion.
OthersStep(accounts, g, s) ==
  IF s = {} THEN [c \in {} |-> 0] ELSE Grouped(g[s \ {Max(s)}], accounts[Max(s)])
IsOthers(accounts, g) ==
  g = [s \in SUBSET DOMAIN accounts |-> OthersStep(accounts, g, s)]
OthersBy(accounts) == CHOOSE g : IsOthers(accounts, g)

\* FoldLeft of the library, in these terms.
LEMMA UnfoldOthers ==
  ASSUME NEW accounts
  PROVE  Others(accounts) = OthersBy(accounts)[DOMAIN accounts]
BY DEF Others, FoldLeft, MapThenFoldSet, IsOthers, OthersStep, OthersBy

\* The recursion of AmountOf.
AmountStep(g, s) == IF s = {} THEN 0 ELSE Chosen(s).amount + g[s \ {Chosen(s)}]
IsAmount(S, g) == g = [s \in SUBSET S |-> AmountStep(g, s)]
AmountBy(S) == CHOOSE g : IsAmount(S, g)

\* MapThenSumSet of the library, in these terms.
LEMMA UnfoldAmount == ASSUME NEW S PROVE AmountOf(S) = AmountBy(S)[S]
BY DEF AmountOf, MapThenSumSet, MapThenFoldSet, IsAmount, AmountStep, AmountBy, Chosen

\* A part of a sequence, element by element.
LEMMA PartIs ==
  ASSUME NEW s, NEW m \in Nat, NEW n \in Nat
  PROVE  /\ DOMAIN SubSeq(s, m + 1, n) = 1..n - m
         /\ \A i \in 1..n - m : SubSeq(s, m + 1, n)[i] = s[m + i]
<1> DEFINE S == {s[i] : i \in m + 1..n}
           t == SubSeq(s, m + 1, n)
<1>1. /\ t \in Seq(S)
      /\ Len(t) = IF m + 1 <= n THEN n - (m + 1) + 1 ELSE 0
      /\ \A i \in 1..n - (m + 1) + 1 : t[i] = s[(m + 1) + i - 1]
  <2>1. m + 1 \in Int /\ n \in Int /\ \A i \in m + 1..n : s[i] \in S
    OBVIOUS
  <2> HIDE DEF S
  <2> QED BY <2>1, SubSeqProperties
<1>2. DOMAIN t = 1..Len(t)
  <2> HIDE DEF t
  <2> QED BY <1>1, LenProperties
<1>3. 1..Len(t) = 1..n - m
  BY <1>1
<1>4. ASSUME NEW i \in 1..n - m PROVE t[i] = s[m + i]
  <2>1. i \in 1..n - (m + 1) + 1 /\ (m + 1) + i - 1 = m + i
    OBVIOUS
  <2>2. t[i] = s[(m + 1) + i - 1]
    BY <1>1, <2>1
  <2> QED BY <2>1, <2>2
<1> QED BY <1>2, <1>3, <1>4

\* What there is of a coin is a number.
LEMMA BalanceType ==
  ASSUME NEW coin, NEW account, account \in [DOMAIN account -> Nat]
  PROVE  Balance(account, coin) \in Nat
BY DEF Balance

\* Adding up what the accounts have of a coin is going through n + 1 sums.
LEMMA GivenOneByOne ==
  ASSUME NEW coin, NEW accounts, NEW n \in Nat, DOMAIN accounts = 1..n,
         \A i \in 1..n : Balance(accounts[i], coin) \in Nat
  PROVE  \E v : /\ v[0] = 0
                /\ \A k \in 1..n : v[k] = v[k - 1] + Balance(accounts[k], coin)
                /\ \A k \in 0..n : v[k] \in Nat
                /\ Given(coin, accounts) = v[n]
<1> DEFINE F == [i \in 1..n |-> [a \in Nat |-> a + Balance(accounts[i], coin)]]
<1>1. PICK h : IsFold(0, F, n, h)
  BY FoldExists
<1>2. F \in [1..n -> [Nat -> Nat]]
  OBVIOUS
<1>3. \A s \in SUBSET (1..n) : h[s] \in Nat
  <2> HIDE DEF F
  <2> QED BY <1>1, <1>2, 0 \in Nat, FoldType
<1>4. ASSUME NEW s \in SUBSET (1..n) PROVE h[s] = GivenStep(coin, accounts, h, s)
  <2>1. h[s] = FoldStep(0, F, h, s)
    BY <1>1 DEF IsFold
  <2>2. CASE s = {}
    BY <2>1, <2>2 DEF FoldStep, GivenStep
  <2>3. CASE s # {}
    <3>1. Max(s) \in 1..n
      BY <2>3, Greatest
    <3>2. h[s \ {Max(s)}] \in Nat
      BY <1>3
    <3>3. F[Max(s)][h[s \ {Max(s)}]] = h[s \ {Max(s)}] + Balance(accounts[Max(s)], coin)
      BY <3>1, <3>2
    <3> HIDE DEF F
    <3> QED BY <2>1, <2>3, <3>3 DEF FoldStep, GivenStep
  <2> QED BY <2>2, <2>3
<1>5. IsGiven(coin, accounts, h)
  BY <1>1, <1>4 DEF IsGiven, IsFold
<1> DEFINE g == GivenBy(coin, accounts)
           v == [k \in 0..n |-> g[1..k]]
<1>6. IsGiven(coin, accounts, g)
  BY <1>5 DEF GivenBy
<1>7. v[0] = 0
  <2>1. 1..0 = {} /\ {} \in SUBSET (1..n)
    OBVIOUS
  <2>2. g[{}] = GivenStep(coin, accounts, g, {})
    BY <1>6, <2>1 DEF IsGiven
  <2> QED BY <2>1, <2>2 DEF GivenStep
<1>8. ASSUME NEW k \in 1..n PROVE v[k] = v[k - 1] + Balance(accounts[k], coin)
  <2>1. Max(1..k) = k /\ (1..k) \ {k} = 1..k - 1
    BY Greatest
  <2>2. 1..k \in SUBSET (1..n) /\ 1..k # {} /\ k \in 0..n /\ k - 1 \in 0..n
    OBVIOUS
  <2>3. g[1..k] = GivenStep(coin, accounts, g, 1..k)
    BY <1>6, <2>2 DEF IsGiven
  <2>4. v[k] = g[1..k] /\ v[k - 1] = g[1..k - 1]
    BY <2>2
  <2> QED BY <2>1, <2>2, <2>3, <2>4 DEF GivenStep
<1>9. Given(coin, accounts) = v[n]
  BY UnfoldGiven
<1> HIDE DEF v
<1>10. \A k \in 0..n : v[k] \in Nat
  <2> DEFINE Bad == {k \in 0..n : v[k] \notin Nat}
  <2> SUFFICES ASSUME Bad # {} PROVE FALSE
    OBVIOUS
  <2>1. PICK k \in Bad : \A j \in Bad : k <= j
    <3>1. Bad \in SUBSET Nat
      OBVIOUS
    <3> HIDE DEF Bad
    <3> QED BY <3>1, Least
  <2>2. k \in 1..n /\ k - 1 \in 0..n /\ k - 1 \notin Bad
    BY <1>7, <2>1
  <2> QED BY <1>8, <2>1, <2>2
<1> QED BY <1>7, <1>8, <1>9, <1>10

\* Some coins, each with an amount.
Held(coins) == UNION {[C -> Nat] : C \in SUBSET coins}

\* What is held is told by the function and its domain.
LEMMA HeldIs ==
  ASSUME NEW coins, NEW a
  PROVE  a \in Held(coins) <=> DOMAIN a \subseteq coins /\ a \in [DOMAIN a -> Nat]
BY DEF Held

\* Grouping two accounts adds up what they have of a coin.
LEMMA GroupedAdds ==
  ASSUME NEW a, NEW b, a \in [DOMAIN a -> Nat], b \in [DOMAIN b -> Nat], NEW c
  PROVE  Balance(Grouped(a, b), c) = Balance(a, c) + Balance(b, c)
<1>1. DOMAIN Grouped(a, b) = DOMAIN a \cup DOMAIN b
  BY DEF Grouped
<1>2. CASE c \in DOMAIN a \cup DOMAIN b
  BY <1>1, <1>2 DEF Balance, Grouped
<1>3. CASE c \notin DOMAIN a \cup DOMAIN b
  BY <1>1, <1>3 DEF Balance
<1> QED BY <1>2, <1>3

\* And makes an account of both.
LEMMA GroupedHeld ==
  ASSUME NEW coins, NEW a \in Held(coins), NEW b \in Held(coins)
  PROVE  Grouped(a, b) \in Held(coins)
<1>1. /\ DOMAIN a \subseteq coins /\ a \in [DOMAIN a -> Nat]
      /\ DOMAIN b \subseteq coins /\ b \in [DOMAIN b -> Nat]
  BY HeldIs
<1>2. \A c : Balance(a, c) \in Nat /\ Balance(b, c) \in Nat
  BY <1>1, BalanceType
<1>3. DOMAIN Grouped(a, b) = DOMAIN a \cup DOMAIN b
  BY DEF Grouped
<1>4. Grouped(a, b) \in [DOMAIN a \cup DOMAIN b -> Nat]
  BY <1>2 DEF Grouped
<1> QED BY <1>1, <1>3, <1>4, HeldIs

\* Adding up the accounts that are not shown is going through n + 1 of them.
LEMMA OthersOneByOne ==
  ASSUME NEW coins, NEW accounts, NEW n \in Nat, DOMAIN accounts = 1..n,
         \A i \in 1..n : accounts[i] \in Held(coins)
  PROVE  \E v : /\ v[0] = Nothing
                /\ \A k \in 1..n : v[k] = Grouped(v[k - 1], accounts[k])
                /\ Others(accounts) = v[n]
<1> DEFINE none == Nothing
           H == Held(coins)
           F == [i \in 1..n |-> [a \in H |-> Grouped(a, accounts[i])]]
<1>1. PICK h : IsFold(none, F, n, h)
  BY FoldExists
<1>2. F \in [1..n -> [H -> H]]
  BY GroupedHeld
<1>3. none \in H
  BY HeldIs DEF Nothing
<1>4. \A s \in SUBSET (1..n) : h[s] \in H
  <2> HIDE DEF F, H, none
  <2> QED BY <1>1, <1>2, <1>3, FoldType
<1>5. ASSUME NEW s \in SUBSET (1..n) PROVE h[s] = OthersStep(accounts, h, s)
  <2>1. h[s] = FoldStep(none, F, h, s)
    BY <1>1 DEF IsFold
  <2>2. CASE s = {}
    BY <2>1, <2>2 DEF FoldStep, OthersStep, Nothing
  <2>3. CASE s # {}
    <3>1. Max(s) \in 1..n
      BY <2>3, Greatest
    <3>2. h[s \ {Max(s)}] \in H
      BY <1>4
    <3>3. F[Max(s)][h[s \ {Max(s)}]] = Grouped(h[s \ {Max(s)}], accounts[Max(s)])
      <4> HIDE DEF H
      <4> QED BY <3>1, <3>2
    <3> HIDE DEF F
    <3> QED BY <2>1, <2>3, <3>3 DEF FoldStep, OthersStep, Nothing
  <2> QED BY <2>2, <2>3
<1>6. IsOthers(accounts, h)
  BY <1>1, <1>5 DEF IsOthers, IsFold
<1> DEFINE g == OthersBy(accounts)
           v == [k \in 0..n |-> g[1..k]]
<1>7. IsOthers(accounts, g)
  BY <1>6 DEF OthersBy
<1>8. v[0] = none
  <2>1. 1..0 = {} /\ {} \in SUBSET (1..n)
    OBVIOUS
  <2>2. g[{}] = OthersStep(accounts, g, {})
    BY <1>7, <2>1 DEF IsOthers
  <2> QED BY <2>1, <2>2 DEF OthersStep, Nothing
<1>9. ASSUME NEW k \in 1..n PROVE v[k] = Grouped(v[k - 1], accounts[k])
  <2>1. Max(1..k) = k /\ (1..k) \ {k} = 1..k - 1
    BY Greatest
  <2>2. 1..k \in SUBSET (1..n) /\ 1..k # {} /\ k \in 0..n /\ k - 1 \in 0..n
    OBVIOUS
  <2>3. g[1..k] = OthersStep(accounts, g, 1..k)
    BY <1>7, <2>2 DEF IsOthers
  <2>4. v[k] = g[1..k] /\ v[k - 1] = g[1..k - 1]
    BY <2>2
  <2> QED BY <2>1, <2>2, <2>3, <2>4 DEF OthersStep, Nothing
<1>10. Others(accounts) = v[n]
  BY UnfoldOthers
<1> HIDE DEF v
<1> QED BY <1>8, <1>9, <1>10

\* The amounts add up as any function's values do.
LEMMA AmountIs ==
  ASSUME NEW S, IsFiniteSet(S)
  PROVE  AmountOf(S) = SumOf([b \in S |-> b.amount], S)
<1> DEFINE m == [b \in S |-> b.amount]
<1>1. ASSUME NEW g, NEW s \in SUBSET S PROVE AmountStep(g, s) = Step(m, g, s)
  <2>1. s # {} => Chosen(s) \in S
    BY ChosenIn
  <2> QED BY <2>1 DEF AmountStep, Step
<1>2. \A g : IsAmount(S, g) <=> IsSum(m, S, g)
  BY <1>1 DEF IsAmount, IsSum
<1> HIDE DEF m
<1>3. IsSum(m, S, Sums(m, S))
  BY SumsExist
<1>4. IsAmount(S, AmountBy(S))
  BY <1>2, <1>3 DEF AmountBy
<1>5. IsSum(m, S, AmountBy(S))
  BY <1>2, <1>4
<1>6. AmountBy(S)[S] = Sums(m, S)[S]
  BY <1>3, <1>5, SumsAgree
<1> QED BY <1>6, UnfoldAmount, Unfold DEF m

\* The series of one account, and those of a coin of the first k accounts.
Row(i, account, c) == [account |-> i, coin |-> c, amount |-> account[c]]
Rows(i, account) == {Row(i, account, c) : c \in DOMAIN account}
RowsOf(accounts, k, coin) ==
  {Row(i, accounts[i], coin) : i \in {j \in 1..k : coin \in DOMAIN accounts[j]}}

\* One more account has a series of the coin more, or none.
LEMMA OneMoreAccount ==
  ASSUME NEW accounts, NEW coin, NEW k \in Nat, k # 0
  PROVE  LET row == Row(k, accounts[k], coin) IN
         /\ coin \in DOMAIN accounts[k] =>
              /\ RowsOf(accounts, k, coin) = RowsOf(accounts, k - 1, coin) \cup {row}
              /\ row \notin RowsOf(accounts, k - 1, coin)
         /\ coin \notin DOMAIN accounts[k] =>
              RowsOf(accounts, k, coin) = RowsOf(accounts, k - 1, coin)
<1> DEFINE row == Row(k, accounts[k], coin)
           S(n) == {j \in 1..n : coin \in DOMAIN accounts[j]}
<1>1. \A i \in S(k - 1) : Row(i, accounts[i], coin) # row
  BY DEF Row
<1>2. coin \in DOMAIN accounts[k] => S(k) = S(k - 1) \cup {k}
  OBVIOUS
<1>3. coin \notin DOMAIN accounts[k] => S(k) = S(k - 1)
  OBVIOUS
<1>4. /\ RowsOf(accounts, k, coin) = {Row(i, accounts[i], coin) : i \in S(k)}
      /\ RowsOf(accounts, k - 1, coin) = {Row(i, accounts[i], coin) : i \in S(k - 1)}
  BY DEF RowsOf
<1> HIDE DEF S
<1>5. row \notin RowsOf(accounts, k - 1, coin)
  BY <1>1, <1>4
<1>6. coin \in DOMAIN accounts[k] =>
        RowsOf(accounts, k, coin) = RowsOf(accounts, k - 1, coin) \cup {row}
  BY <1>2, <1>4
<1>7. coin \notin DOMAIN accounts[k] =>
        RowsOf(accounts, k, coin) = RowsOf(accounts, k - 1, coin)
  BY <1>3, <1>4
<1> QED BY <1>5, <1>6, <1>7

\* The series of a coin of the first accounts add up to what these have of it.
LEMMA RowsAddUp ==
  ASSUME NEW coin, NEW accounts, NEW K \in Nat,
         \A i \in 1..K : accounts[i] \in [DOMAIN accounts[i] -> Nat],
         NEW v, v[0] = 0, \A k \in 1..K : v[k] = v[k - 1] + Balance(accounts[k], coin),
         NEW m, \A b \in RowsOf(accounts, K, coin) : m[b] = b.amount
  PROVE  /\ IsFiniteSet(RowsOf(accounts, K, coin))
         /\ SumOf(m, RowsOf(accounts, K, coin)) = v[K] /\ v[K] \in Nat
<1> DEFINE R(k) == RowsOf(accounts, k, coin)
           Good(k) == IsFiniteSet(R(k)) /\ SumOf(m, R(k)) = v[k] /\ v[k] \in Nat
           Bad == {k \in 0..K : ~Good(k)}
<1> SUFFICES ASSUME Bad # {} PROVE FALSE
  OBVIOUS
<1>1. PICK k \in Bad : \A j \in Bad : k <= j
  <2>1. Bad \in SUBSET Nat
    OBVIOUS
  <2> HIDE DEF Bad
  <2> QED BY <2>1, Least
<1>2. CASE k = 0
  <2>1. R(0) = {}
    BY DEF RowsOf
  <2>2. SumOf(m, R(0)) = 0 /\ IsFiniteSet(R(0))
    BY <2>1, SumEmpty, FS_EmptySet
  <2> QED BY <1>1, <1>2, <2>2
<1>3. CASE k # 0
  <2> DEFINE row == Row(k, accounts[k], coin)
  <2>1. k \in 1..K /\ k - 1 \in 0..K /\ k \in Nat
    BY <1>1, <1>3
  <2>2. Good(k - 1)
    BY <1>1, <2>1
  <2>3. \A b \in R(k) : m[b] = b.amount /\ m[b] \in Nat
    <3>1. ASSUME NEW i \in 1..k, coin \in DOMAIN accounts[i]
          PROVE  /\ Row(i, accounts[i], coin) \in RowsOf(accounts, K, coin)
                 /\ Row(i, accounts[i], coin).amount \in Nat
      <4>1. i \in 1..K /\ accounts[i] \in [DOMAIN accounts[i] -> Nat]
        BY <2>1, <3>1
      <4> QED BY <3>1, <4>1 DEF RowsOf, Row
    <3> QED BY <3>1 DEF RowsOf
  <2>4. Balance(accounts[k], coin) \in Nat
    BY <2>1, BalanceType
  <2>5. v[k] = v[k - 1] + Balance(accounts[k], coin)
    BY <2>1
  <2>6. CASE coin \in DOMAIN accounts[k]
    <3>1. R(k) = R(k - 1) \cup {row} /\ row \notin R(k - 1)
      BY <1>3, <2>1, <2>6, OneMoreAccount
    <3>2. row \in R(k) /\ m[row] = Balance(accounts[k], coin)
      BY <2>3, <2>6, <3>1 DEF Row, Balance
    <3>3. SumOf(m, R(k)) = m[row] + SumOf(m, R(k - 1)) /\ IsFiniteSet(R(k))
      <4> HIDE DEF R, row
      <4>1. \A x \in R(k - 1) \cup {row} : m[x] \in Nat
        BY <2>3, <3>1
      <4> QED BY <2>2, <3>1, <4>1, SumAdd, FS_AddElement
    <3>4. Good(k)
      BY <2>2, <2>4, <2>5, <3>2, <3>3
    <3> QED BY <1>1, <3>4
  <2>7. CASE coin \notin DOMAIN accounts[k]
    <3>1. R(k) = R(k - 1)
      BY <1>3, <2>1, <2>7, OneMoreAccount
    <3>2. Balance(accounts[k], coin) = 0
      BY <2>7 DEF Balance
    <3>3. Good(k)
      BY <2>2, <2>5, <3>1, <3>2
    <3> QED BY <1>1, <3>3
  <2> QED BY <2>6, <2>7
<1> QED BY <1>2, <1>3

\* The lesser of two numbers.
LEMMA LesserIs ==
  ASSUME NEW x \in Nat, NEW y \in Nat
  PROVE  Min({x, y}) = IF x <= y THEN x ELSE y
BY DEF Min

\* What the accounts have of a coin is what the first ones have and what the others
\* have together.
LEMMA TotalSplits ==
  ASSUME NEW accounts, NEW n \in Nat, DOMAIN accounts = 1..n, NEW coins,
         \A i \in 1..n : accounts[i] \in Held(coins)
  PROVE  LET K     == Min({MaxAccounts, n})
             other == Others(SubSeq(accounts, MaxAccounts + 1, n))
         IN /\ K \in 0..n
            /\ other \in Held(coins)
            /\ \A coin : \E v :
                 /\ v[0] = 0
                 /\ \A k \in 1..K : v[k] = v[k - 1] + Balance(accounts[k], coin)
                 /\ v[K] \in Nat
                 /\ Given(coin, accounts) = v[K] + Balance(other, coin)
<1> DEFINE K == Min({MaxAccounts, n})
           rest == SubSeq(accounts, MaxAccounts + 1, n)
           other == Others(rest)
<1>1. MaxAccounts \in Nat
  BY ConstantsAssumption
<1>2. K = IF MaxAccounts <= n THEN MaxAccounts ELSE n
  BY <1>1, LesserIs
<1> HIDE DEF K
<1>3. K \in 0..n /\ n - K \in Nat /\ 1..n - MaxAccounts = 1..n - K
  BY <1>1, <1>2
<1>4. DOMAIN rest = 1..n - K /\ \A i \in 1..n - K : rest[i] = accounts[K + i]
  <2>1. /\ DOMAIN rest = 1..n - MaxAccounts
        /\ \A i \in 1..n - MaxAccounts : rest[i] = accounts[MaxAccounts + i]
    BY <1>1, PartIs
  <2> HIDE DEF rest
  <2>2. ASSUME NEW i \in 1..n - K PROVE rest[i] = accounts[K + i]
    BY <1>1, <1>2, <1>3, <2>1, <2>2
  <2> QED BY <1>3, <2>1, <2>2
<1> HIDE DEF rest
<1>5. \A i \in 1..n - K : rest[i] \in Held(coins)
  BY <1>3, <1>4
<1>6. PICK w : /\ w[0] = Nothing
               /\ \A k \in 1..n - K : w[k] = Grouped(w[k - 1], rest[k])
               /\ other = w[n - K]
  <2> DEFINE m == n - K
  <2>1. m \in Nat /\ DOMAIN rest = 1..m /\ \A i \in 1..m : rest[i] \in Held(coins)
    BY <1>3, <1>4, <1>5
  <2> HIDE DEF m
  <2>2. \E w : /\ w[0] = Nothing
               /\ \A k \in 1..m : w[k] = Grouped(w[k - 1], rest[k])
               /\ Others(rest) = w[m]
    BY <2>1, OthersOneByOne
  <2> QED BY <2>2 DEF m
<1> HIDE DEF other
<1>7. \A k \in 0..n - K : w[k] \in Held(coins)
  <2> DEFINE Bad == {k \in 0..n - K : w[k] \notin Held(coins)}
  <2> SUFFICES ASSUME Bad # {} PROVE FALSE
    OBVIOUS
  <2>1. PICK k \in Bad : \A j \in Bad : k <= j
    <3>1. Bad \in SUBSET Nat
      OBVIOUS
    <3> HIDE DEF Bad
    <3> QED BY <3>1, Least
  <2>2. CASE k = 0
    BY <1>6, <2>1, <2>2, HeldIs DEF Nothing
  <2>3. CASE k # 0
    <3>1. k \in 1..n - K /\ w[k - 1] \in Held(coins)
      BY <1>3, <2>1, <2>3
    <3>2. w[k] = Grouped(w[k - 1], rest[k]) /\ rest[k] \in Held(coins)
      BY <1>5, <1>6, <3>1
    <3>3. Grouped(w[k - 1], rest[k]) \in Held(coins)
      BY <3>1, <3>2, GroupedHeld
    <3> QED BY <2>1, <3>2, <3>3
  <2> QED BY <2>2, <2>3
<1>8. other \in Held(coins)
  BY <1>3, <1>6, <1>7
<1>9. ASSUME NEW coin
      PROVE  \E v : /\ v[0] = 0
                    /\ \A k \in 1..K : v[k] = v[k - 1] + Balance(accounts[k], coin)
                    /\ v[K] \in Nat
                    /\ Given(coin, accounts) = v[K] + Balance(other, coin)
  <2>1. \A i \in 1..n : Balance(accounts[i], coin) \in Nat
    BY HeldIs, BalanceType
  <2>2. PICK v : /\ v[0] = 0
                 /\ \A k \in 1..n : v[k] = v[k - 1] + Balance(accounts[k], coin)
                 /\ \A k \in 0..n : v[k] \in Nat
                 /\ Given(coin, accounts) = v[n]
    BY <2>1, GivenOneByOne
  <2> DEFINE Bad == {k \in 0..n - K : v[K + k] # v[K] + Balance(w[k], coin)}
  <2>3. Bad = {}
    <3> SUFFICES ASSUME Bad # {} PROVE FALSE
      OBVIOUS
    <3>1. PICK k \in Bad : \A j \in Bad : k <= j
      <4>1. Bad \in SUBSET Nat
        OBVIOUS
      <4> HIDE DEF Bad
      <4> QED BY <4>1, Least
    <3>2. v[K] \in Nat
      BY <1>3, <2>2
    <3>3. CASE k = 0
      <4>1. Balance(w[0], coin) = 0
        BY <1>6 DEF Balance, Nothing
      <4>2. K + 0 = K
        BY <1>3
      <4> QED BY <3>1, <3>2, <3>3, <4>1, <4>2
    <3>4. CASE k # 0
      <4>1. k \in 1..n - K /\ k - 1 \in 0..n - K /\ k - 1 \notin Bad /\ K + k \in 1..n
            /\ (K + k) - 1 = K + (k - 1)
        BY <1>3, <3>1, <3>4
      <4>2. v[K + k] = v[K + (k - 1)] + Balance(accounts[K + k], coin)
        BY <2>2, <4>1
      <4>3. v[K + (k - 1)] = v[K] + Balance(w[k - 1], coin)
        BY <4>1
      <4>4. Balance(w[k], coin) = Balance(w[k - 1], coin) + Balance(rest[k], coin)
        <5>1. w[k - 1] \in Held(coins) /\ rest[k] \in Held(coins)
          BY <1>5, <1>7, <4>1
        <5>2. w[k] = Grouped(w[k - 1], rest[k])
          BY <1>6, <4>1
        <5> DEFINE a == w[k - 1]
                   b == rest[k]
        <5> HIDE DEF a, b
        <5>3. a \in [DOMAIN a -> Nat] /\ b \in [DOMAIN b -> Nat]
          BY <5>1, HeldIs DEF a, b
        <5>4. Balance(Grouped(a, b), coin) = Balance(a, coin) + Balance(b, coin)
          BY ONLY <5>3, GroupedAdds
        <5> QED BY <5>2, <5>4 DEF a, b
      <4>5. rest[k] = accounts[K + k]
        BY <1>4, <4>1
      <4>6. Balance(w[k - 1], coin) \in Nat /\ Balance(rest[k], coin) \in Nat
        BY <1>5, <1>7, <4>1, HeldIs, BalanceType
      <4>7. v[K + k] = v[K] + Balance(w[k], coin)
        BY <3>2, <4>2, <4>3, <4>4, <4>5, <4>6
      <4> QED BY <3>1, <4>7
    <3> QED BY <3>3, <3>4
  <2>4. n - K \in 0..n - K /\ K + (n - K) = n
    BY <1>3
  <2>5. v[n] = v[K] + Balance(other, coin)
    BY <1>6, <2>3, <2>4
  <2>6. v[K] \in Nat /\ \A k \in 1..K : v[k] = v[k - 1] + Balance(accounts[k], coin)
    <3>1. K \in 0..n /\ \A k \in 1..K : k \in 1..n
      BY <1>3
    <3> QED BY <2>2, <3>1
  <2> QED BY <2>2, <2>5, <2>6
<1> QED BY <1>3, <1>8, <1>9 DEF K, rest, other

\* The balances that are written: the series of the first accounts, and those of
\* the others together.
LEMMA BalancesAre ==
  ASSUME NEW accounts, NEW n \in Nat, Len(accounts) = n
  PROVE  LET K     == Min({MaxAccounts, n})
             other == Others(SubSeq(accounts, MaxAccounts + 1, n))
         IN Balances(accounts) = Rows(0, other) \cup UNION {Rows(i, accounts[i]) : i \in 1..K}
<1> DEFINE K     == Min({MaxAccounts, n})
           other == Others(SubSeq(accounts, MaxAccounts + 1, n))
           shown == SubSeq(accounts, 1, K)
           Series(i, account) == {[account |-> i, coin |-> c, amount |-> account[c]] :
                                    c \in DOMAIN account}
<1>1. K \in Nat
  BY ConstantsAssumption, LesserIs
<1>2. DOMAIN shown = 1..K /\ \A i \in 1..K : shown[i] = accounts[i]
  <2> HIDE DEF K
  <2>1. /\ DOMAIN SubSeq(accounts, 0 + 1, K) = 1..K - 0
        /\ \A i \in 1..K - 0 : SubSeq(accounts, 0 + 1, K)[i] = accounts[0 + i]
    BY <1>1, 0 \in Nat, PartIs
  <2>2. 0 + 1 = 1 /\ K - 0 = K /\ \A i \in 1..K : 0 + i = i
    BY <1>1
  <2> QED BY <2>1, <2>2
<1>3. Balances(accounts) =
        Series(0, other) \cup UNION {Series(i, shown[i]) : i \in DOMAIN shown}
  BY DEF Balances, Others
<1>4. \A i, account : Series(i, account) = Rows(i, account)
  BY DEF Rows, Row
<1> HIDE DEF Series, shown, K, other
<1>5. UNION {Series(i, shown[i]) : i \in DOMAIN shown} = UNION {Rows(i, accounts[i]) : i \in 1..K}
  BY <1>2, <1>4
<1> QED BY <1>3, <1>4, <1>5 DEF K, other

\* The accounts of a scenario.
LEMMA AccountsAre ==
  ASSUME TypeOK
  PROVE  LET accounts == Case.accounts IN
         /\ Len(accounts) \in Nat /\ DOMAIN accounts = 1..Len(accounts)
         /\ \A i \in DOMAIN accounts : accounts[i] \in [DOMAIN accounts[i] -> Nat]
<1>1. scenario \in DOMAIN Scenarios
  BY DEF TypeOK
<1> QED BY <1>1, ConstantsAssumption DEF Case

\* Of the series of a coin, one for each account that has it, the amounts add up to
\* what was given, whatever accounts go under __other__.
LEMMA BalancesSum ==
  ASSUME NEW accounts, NEW n \in Nat, DOMAIN accounts = 1..n, Len(accounts) = n,
         \A i \in 1..n : accounts[i] \in [DOMAIN accounts[i] -> Nat], NEW coin
  PROVE  AmountOf({b \in Balances(accounts) : b.coin = coin}) = Given(coin, accounts)
<1> DEFINE K     == Min({MaxAccounts, n})
           other == Others(SubSeq(accounts, MaxAccounts + 1, n))
           coins == UNION {DOMAIN accounts[i] : i \in 1..n}
           S     == {b \in Balances(accounts) : b.coin = coin}
           R     == RowsOf(accounts, K, coin)
           row   == Row(0, other, coin)
           m     == [b \in S |-> b.amount]
<1>1. \A i \in 1..n : accounts[i] \in Held(coins)
  BY HeldIs
<1>2. /\ K \in 0..n /\ other \in Held(coins)
      /\ \E v : /\ v[0] = 0
                /\ \A k \in 1..K : v[k] = v[k - 1] + Balance(accounts[k], coin)
                /\ v[K] \in Nat
                /\ Given(coin, accounts) = v[K] + Balance(other, coin)
  <2> HIDE DEF coins
  <2> QED BY <1>1, TotalSplits
<1>3. Balances(accounts) = Rows(0, other) \cup UNION {Rows(i, accounts[i]) : i \in 1..K}
  BY BalancesAre
<1> HIDE DEF K, other, coins
<1>4. S = R \cup IF coin \in DOMAIN other THEN {row} ELSE {}
  BY <1>3 DEF Rows, Row, RowsOf
<1>5. row \notin R
  <2>1. \A i \in 1..K : i # 0
    BY <1>2
  <2> QED BY <2>1 DEF Row, RowsOf
<1>6. PICK v : /\ v[0] = 0
               /\ \A k \in 1..K : v[k] = v[k - 1] + Balance(accounts[k], coin)
               /\ v[K] \in Nat
               /\ Given(coin, accounts) = v[K] + Balance(other, coin)
  BY <1>2
<1>7. /\ IsFiniteSet(R) /\ SumOf(m, R) = v[K]
      /\ \A b \in R : m[b] \in Nat
  <2>1. K \in Nat /\ \A i \in 1..K : accounts[i] \in [DOMAIN accounts[i] -> Nat]
    BY <1>2
  <2>2. \A b \in R : m[b] = b.amount
    BY <1>4
  <2>3. \A b \in R : b.amount \in Nat
    BY <2>1 DEF RowsOf, Row
  <2> HIDE DEF m
  <2>4. IsFiniteSet(R) /\ SumOf(m, R) = v[K]
    <3>1. K \in Nat /\ \A b \in RowsOf(accounts, K, coin) : m[b] = b.amount
      BY <2>1, <2>2
    <3> QED BY ONLY <1>6, <2>1, <3>1, RowsAddUp
  <2> QED BY <2>2, <2>3, <2>4
<1>8. Balance(other, coin) \in Nat
  BY <1>2, HeldIs, BalanceType
<1>9. IsFiniteSet(S) /\ SumOf(m, S) = Given(coin, accounts)
  <2>1. CASE coin \in DOMAIN other
    <3>1. S = R \cup {row}
      BY <1>4, <2>1
    <3>2. m[row] = Balance(other, coin)
      <4>1. row \in S /\ row.amount = other[coin]
        BY <3>1 DEF Row
      <4> QED BY <2>1, <4>1 DEF Balance
    <3> HIDE DEF S, R, row, m
    <3>3. SumOf(m, S) = m[row] + SumOf(m, R) /\ IsFiniteSet(S)
      <4>1. \A x \in R \cup {row} : m[x] \in Nat
        BY <1>7, <1>8, <3>2
      <4> QED BY <1>5, <1>7, <3>1, <4>1, SumAdd, FS_AddElement
    <3> QED BY <1>6, <1>7, <1>8, <3>2, <3>3
  <2>2. CASE coin \notin DOMAIN other
    <3>1. S = R /\ Balance(other, coin) = 0
      BY <1>4, <2>2 DEF Balance
    <3> HIDE DEF S, R, m
    <3> QED BY <1>6, <1>7, <3>1
  <2> QED BY <2>1, <2>2
<1>10. AmountOf(S) = SumOf(m, S)
  <2> HIDE DEF S
  <2> QED BY <1>9, AmountIs
<1> QED BY <1>9, <1>10

\* The balances that are shown add up, coin by coin, to those that bookkeeper gave,
\* and each series is there once, whatever number of accounts there are.
THEOREM BalancesAreComplete == Spec => []BalancesAddUp
<1>1. IInv => BalancesAddUp
  <2> SUFFICES ASSUME IInv, Done, Ok("bookkeeper") PROVE BalancesAddUp
    BY DEF BalancesAddUp
  <2> DEFINE accounts == Case.accounts
             n == Len(accounts)
  <2>1. /\ n \in Nat /\ DOMAIN accounts = 1..n
        /\ \A i \in 1..n : accounts[i] \in [DOMAIN accounts[i] -> Nat]
    BY AccountsAre DEF IInv, Core
  <2>2. output.balances = Balances(accounts)
    BY DEF IInv, Done, Finished, FinishedAs, BalancesNow
  <2>3. \A c : AmountOf({b \in output.balances : b.coin = c}) = Given(c, accounts)
    BY <2>1, <2>2, BalancesSum
  <2>4. ASSUME NEW b \in output.balances, NEW d \in output.balances,
               b.account = d.account, b.coin = d.coin
        PROVE  b = d
    <3> DEFINE K     == Min({MaxAccounts, n})
               other == Others(SubSeq(accounts, MaxAccounts + 1, n))
    <3>1. output.balances = Rows(0, other) \cup UNION {Rows(i, accounts[i]) : i \in 1..K}
      BY <2>1, <2>2, BalancesAre
    <3> HIDE DEF K, other
    <3> QED BY <2>4, <3>1 DEF Rows, Row
  <2> QED BY <2>3, <2>4 DEF BalancesAddUp
<1> QED BY <1>1, InductiveInvariant, PTL

================================================================================
