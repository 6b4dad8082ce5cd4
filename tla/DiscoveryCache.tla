----------------------------- MODULE DiscoveryCache ----------------------------
(***************************************************************************)
(* The registry of plugin metrics RPCs in cln-exporter                     *)
(* (src/plugin_metrics.rs): a list of the node's `*-metrics` methods, read *)
(* with the `help` RPC, cached for DISCOVERY_TTL and invalidated by the    *)
(* plugin_started and plugin_stopped notifications.                        *)
(*                                                                         *)
(* Scrapes are concurrent tasks of one thread.  A scrape holds the cache's *)
(* lock while it looks and again while it stores, but not across the call, *)
(* so other scrapes and notifications run in between.  Time is kept as     *)
(* ages, in ticks, which saturate where nothing depends on them any more.  *)
(* The names that every state machine has carry the prefix DC here, so     *)
(* that a module can extend this one beside EventCounters.                 *)
(***************************************************************************)
EXTENDS Naturals, FiniteSets

CONSTANTS
  Scrape,          \* the concurrent scrapes
  Method,          \* the metrics RPCs a plugin may register
  TTL,             \* DISCOVERY_TTL, in ticks
  Timeout,         \* the RPC timeout, in ticks
  MaxCollectors,   \* MAX_COLLECTORS
  MaxNotices       \* bound: notifications sent and not handled yet

ASSUME DCAssumption ==
  /\ TTL \in Nat \ {0}
  /\ Timeout \in Nat \ {0}
  /\ MaxCollectors \in Nat
  /\ MaxNotices \in Nat

VARIABLES
  registered,  \* the metrics RPCs of the node now
  notices,     \* plugin notifications in flight
  cache,       \* the Cache behind the Registry's lock
  call,        \* for every scrape, its discovery
  served       \* history: the methods a scrape was last given

dcvars == <<registered, notices, cache, call, served>>

\* A list of methods, how long ago the node gave it, and, as history, whether a
\* plugin notification was handled while it was on its way to the cache.
List == [methods : SUBSET Method, age : 0..TTL + Timeout, raced : BOOLEAN]

Read(methods) == [methods |-> methods, age |-> 0, raced |-> FALSE]

\* refreshed_at.elapsed(); TTL stands for anything older, and for None.
Elapsed == 0..TTL

NoCall == [phase |-> "idle", elapsed |-> 0, list |-> Read({})]

Older(list) ==
  [list EXCEPT !.age = IF @ < TTL + Timeout THEN @ + 1 ELSE @]

\* A broken build that fills the cache once and never looks at the clock.
FreshAlways == cache.elapsed <= TTL

Fresh == cache.elapsed < TTL

(***************************************************************************)
(* The node.                                                               *)
(***************************************************************************)

\* A plugin starts or stops: its methods come or go, and the node notifies.
PluginChange ==
  /\ notices < MaxNotices
  /\ \E methods \in SUBSET Method \ {registered} : registered' = methods
  /\ notices' = notices + 1
  /\ UNCHANGED <<cache, call, served>>

\* The node answers the `help` call of scrape s.
Help(s) ==
  /\ call[s].phase = "calling"
  /\ call' = [call EXCEPT ![s].phase = "answered",
                          ![s].list = Read(registered)]
  /\ UNCHANGED <<registered, notices, cache, served>>

(***************************************************************************)
(* cln-exporter.                                                           *)
(***************************************************************************)

\* The history of the answers that a notification finds in flight.
Race ==
  call' = [s \in Scrape |-> IF call[s].phase = "answered"
                            THEN [call[s] EXCEPT !.list.raced = TRUE]
                            ELSE call[s]]

\* A broken build that handles the notification and does not invalidate.
InvalidateNothing ==
  /\ notices > 0
  /\ notices' = notices - 1
  /\ Race
  /\ UNCHANGED <<registered, cache, served>>

\* on_notification of plugin_started or plugin_stopped: refreshed_at = None.
Invalidate ==
  /\ notices > 0
  /\ notices' = notices - 1
  /\ cache' = [cache EXCEPT !.elapsed = TTL]
  /\ Race
  /\ UNCHANGED <<registered, served>>

\* methods() finds a fresh list.
Hit(s) ==
  /\ call[s].phase = "idle"
  /\ Fresh
  /\ served' = cache.list.methods
  /\ UNCHANGED <<registered, notices, cache, call>>

\* methods() finds none, releases the lock and calls `help`.
Miss(s) ==
  /\ call[s].phase = "idle"
  /\ ~Fresh
  /\ call' = [call EXCEPT ![s] = [NoCall EXCEPT !.phase = "calling"]]
  /\ UNCHANGED <<registered, notices, cache, served>>

\* discover_methods accepts the answer; it is stored, fresh from now on.
Store(s) ==
  /\ call[s].phase = "answered"
  /\ Cardinality(call[s].list.methods) <= MaxCollectors
  /\ cache' = [list |-> call[s].list, elapsed |-> 0]
  /\ served' = call[s].list.methods
  /\ call' = [call EXCEPT ![s] = NoCall]
  /\ UNCHANGED <<registered, notices>>

\* The call fails or times out: the error ends the discovery of this scrape.
Fail(s) ==
  /\ call[s].phase # "idle"
  /\ call' = [call EXCEPT ![s] = NoCall]
  /\ UNCHANGED <<registered, notices, cache, served>>

\* discover_methods refuses a list of more than MAX_COLLECTORS methods.
Refuse(s) ==
  /\ call[s].phase = "answered"
  /\ Cardinality(call[s].list.methods) > MaxCollectors
  /\ call' = [call EXCEPT ![s] = NoCall]
  /\ UNCHANGED <<registered, notices, cache, served>>

Elapse ==
  /\ cache' = [list |-> Older(cache.list),
               elapsed |-> IF Fresh THEN cache.elapsed + 1 ELSE TTL]
  /\ call' = [s \in Scrape |->
                IF call[s].phase = "idle" THEN call[s]
                ELSE [call[s] EXCEPT
                        !.elapsed = @ + 1,
                        !.list = IF call[s].phase = "answered" THEN Older(@)
                                 ELSE @]]
  /\ UNCHANGED <<registered, notices, served>>

\* Time passes.  No call outlives its timeout.
DCTick ==
  /\ \A s \in Scrape : call[s].phase # "idle" => call[s].elapsed < Timeout
  /\ Elapse

DCInit ==
  /\ registered \in SUBSET Method
  /\ notices = 0
  /\ cache = [list |-> Read({}), elapsed |-> TTL]
  /\ call = [s \in Scrape |-> NoCall]
  /\ served = {}

DCNext ==
  \/ PluginChange
  \/ Invalidate
  \/ DCTick
  \/ \E s \in Scrape :
       \/ Hit(s) \/ Miss(s) \/ Help(s) \/ Store(s) \/ Refuse(s) \/ Fail(s)

\* Time passes, Prometheus keeps scraping, the tasks run, and a node that is
\* asked for ever does not let every single call fail.
DCFairness ==
  /\ SF_dcvars(DCTick)
  /\ \A s \in Scrape :
       /\ WF_dcvars(Hit(s) \/ Miss(s))
       /\ SF_dcvars(Help(s))
       /\ SF_dcvars(Store(s))
       /\ WF_dcvars(Refuse(s))

DCSpec == DCInit /\ [][DCNext]_dcvars

DCFairSpec == DCSpec /\ DCFairness

(***************************************************************************)
(* Properties.                                                             *)
(***************************************************************************)

\* The types of the state.
DCTypeOK ==
  /\ registered \in SUBSET Method
  /\ notices \in 0..MaxNotices
  /\ cache \in [list : List, elapsed : Elapsed]
  /\ call \in [Scrape -> [phase : {"idle", "calling", "answered"},
                          elapsed : 0..Timeout, list : List]]
  /\ served \in SUBSET Method

\* The lists a scrape may be given now: the cached one and the answers.
Offered ==
  {cache.list : x \in IF Fresh THEN {1} ELSE {}}
    \cup {call[s].list : s \in {x \in Scrape : call[x].phase = "answered"}}

\* However scrapes, failures and notifications interleave, no scrape is given a
\* list that the node gave a whole TTL and a call's timeout ago, nor waits longer
\* than that timeout for one (DCTypeOK).
BoundedStaleness == DCTypeOK /\ \A list \in Offered : list.age < TTL + Timeout

\* "Discovery is cached for 60 seconds and invalidated by plugin_started and
\* plugin_stopped notifications" (README): with every notification handled, the
\* list served from the cache is the list of the registered methods.
InvalidationHolds ==
  Fresh /\ notices = 0 => cache.list.methods = registered

\* The one way to serve a list that the handled notifications made wrong is to
\* store an answer that was in flight when such a notification was handled.
ExactUnlessRaced ==
  Fresh /\ notices = 0 /\ ~cache.list.raced => cache.list.methods = registered

\* When plugins stop changing, every scrape is in the end given exactly the
\* registered methods, also when the last notification came at a bad moment.
EventuallyCurrent ==
  \A M \in SUBSET Method :
    Cardinality(M) <= MaxCollectors =>
      (<>[](registered = M) => <>[](served = M))

================================================================================
