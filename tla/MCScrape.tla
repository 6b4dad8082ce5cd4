--------------------------------- MODULE MCScrape ---------------------------------
(***************************************************************************)
(* Small instances of Scrape: deadlines while blocks arrive, the plugins'  *)
(* names, and the accounts of bookkeeper.                                  *)
(***************************************************************************)
EXTENDS Scrape

FamilyOf(name, counter, samples) == [name |-> name, counter |-> counter, samples |-> samples]

Wire(version, namespace, families) ==
  [version |-> version, namespace |-> namespace, families |-> families]

Metrics(rpc, stem, answers) == [rpc |-> rpc, stem |-> stem, answers |-> answers]

Quiet == [slow |-> {}, plugins |-> <<>>, htlcs |-> {}, height |-> 10, blocks |-> 0,
          accounts |-> <<>>]

Watched == [Quiet EXCEPT !.slow = {"node", "channels", "feerates", "listnodes"},
                         !.htlcs = {9, 11, 12, 14}, !.blocks = 2]

\* node-metrics, with a name of its own and one of the exporter's: in part not
\* valid, or valid.
NodeMetrics ==
  Metrics("node-metrics", <<"node">>,
    {Wire(1, <<"node">>, <<FamilyOf(<<"load">>, FALSE, 1), FamilyOf(<<"info">>, FALSE, 1)>>),
     Wire(1, <<"node">>, <<FamilyOf(<<"load">>, FALSE, 2)>>),
     Wire(1, <<"node">>, <<FamilyOf(<<"load">>, FALSE, 1), FamilyOf(<<"load">>, FALSE, 1)>>),
     Wire(1, <<"wallet">>, <<FamilyOf(<<"onchain">>, FALSE, 1)>>)})

\* tracker-bwatch-metrics and tracker-metrics, which may use the same name.
BwatchMetrics ==
  Metrics("tracker-bwatch-metrics", <<"tracker", "bwatch">>,
    {Wire(1, <<"tracker", "bwatch">>, <<FamilyOf(<<"height">>, FALSE, 1)>>),
     Wire(1, <<"tracker", "bwatch">>, <<FamilyOf(<<"blocks">>, TRUE, 1)>>),
     Wire(2, <<"tracker", "bwatch">>, <<FamilyOf(<<"height">>, FALSE, 1)>>)})

TrackerMetrics ==
  Metrics("tracker-metrics", <<"tracker">>,
    {Wire(1, <<"tracker">>, <<FamilyOf(<<"healthy">>, FALSE, 1),
                               FamilyOf(<<"bwatch", "height">>, FALSE, 1)>>),
     Wire(1, <<"tracker">>, <<FamilyOf(<<"reorgs", "total">>, TRUE, 3)>>),
     Wire(1, <<"tracker">>, <<FamilyOf(<<"reorgs", "total">>, TRUE, 2)>>)})

Plugged == [Quiet EXCEPT !.slow = {"node", "tracker", "listnodes"},
                         !.plugins = <<NodeMetrics, BwatchMetrics, TrackerMetrics>>]

\* Three accounts that each have something of two coins, of one of them, or nothing.
Holdings == <<[btc |-> 1], [btc |-> 2], [lbtc |-> 1], [btc |-> 1, lbtc |-> 2], <<>>>>

Booked(accounts) == [Quiet EXCEPT !.slow = {"bookkeeper"}, !.accounts = accounts]

Digit(n, place) == ((n \div place) % Len(Holdings)) + 1

Books ==
  [n \in 1..Len(Holdings)^3 |->
     Booked(<<Holdings[Digit(n, 1)], Holdings[Digit(n, 5)], Holdings[Digit(n, 25)]>>)]

MCScenarios == <<Watched, Plugged>> \o Books

===================================================================================
