----------------------------- MODULE MCHistoryStore -----------------------------
(***************************************************************************)
(* A small instance of HistoryStore: behaviours about forwards and events, *)
(* and behaviours about probes of two routes among the other records.      *)
(***************************************************************************)
EXTENDS HistoryStore

MCResults ==
  {[status |-> "destination_reached", amount |-> 1, hops |-> 1],
   [status |-> "route_failed", amount |-> 1, hops |-> 2],
   [status |-> "route_failed", amount |-> 2, hops |-> 2]}

Forwards == [kinds |-> {"forward"}, records |-> 3, crashes |-> 1, until |-> 6]
Events   == [kinds |-> {"event"}, records |-> 3, crashes |-> 1, until |-> 6]
Probes   == [kinds |-> {"probe", "forward"}, records |-> 2, crashes |-> 0, until |-> 6]

Both     == [kinds |-> {"event", "probe"}, records |-> 2, crashes |-> 0, until |-> 6]

MCScenarios == {Forwards, Events, Probes, Both}

================================================================================
