----------------------------- MODULE MCEventCounters -----------------------------
(***************************************************************************)
(* Small instances of EventCounters: maps of two keys for up to three      *)
(* fields or channels, three peers for room for two, and two invoices for  *)
(* room for one.  The wall clock is set back while peers come and go.      *)
(***************************************************************************)
EXTENDS EventCounters

TwoBuckets == <<1, 2>>

\* What is counted in the bounded maps does not depend on the time.
Maps == [topics |-> DOMAIN Tallied \cup {"forward_event", "block_added"},
         time |-> 0, events |-> 4, stepBack |-> 0]

Connections == [topics |-> {"connect", "disconnect"}, time |-> 3, events |-> 6,
                stepBack |-> 2]

Payments == [topics |-> {"invoice_creation", "invoice_payment",
                         "sendpay_success", "sendpay_failure"},
             time |-> 3, events |-> 5, stepBack |-> 1]

AllScenarios == {Maps, Connections, Payments}

================================================================================
