----------------------------- MODULE SampleHistory -----------------------------
(***************************************************************************)
(* What the channel history promises a reader: for every channel and every *)
(* moment at which it was observed within the retention window, the value  *)
(* observed then.  Nothing later changes an answer, and only age loses it. *)
(***************************************************************************)
EXTENDS Naturals

CONSTANTS
  Channel,
  Value,
  Absent,     \* the channel was not listed
  Time,       \* the seconds of the behaviour
  Retention

VARIABLE history    \* for every channel, a function from observed times to values

Init == history = [c \in Channel |-> [t \in {} |-> Absent]]

\* The moments of channel c that are still promised after an observation o at now.
Kept(c, o, now) ==
  {t \in DOMAIN history[c] \cup (IF o[c] = Absent THEN {} ELSE {now}) :
     t + Retention >= now}

Observe(now, o) ==
  history' = [c \in Channel |-> [t \in Kept(c, o, now) |->
                IF t = now /\ o[c] # Absent THEN o[c] ELSE history[c][t]]]

Next == \E now \in Time, o \in [Channel -> Value \cup {Absent}] : Observe(now, o)

Spec == Init /\ [][Next]_history

================================================================================
