--------------------------- MODULE IdentityDirectory ---------------------------
(***************************************************************************)
(* What cln-history promises of channel identities, without tables, kinds  *)
(* or transactions: a directory from aliases to identities that only grows.*)
(* An alias once bound is never bound again, and an identity is always an  *)
(* alias of itself, so that looking a result up again changes nothing.     *)
(***************************************************************************)

CONSTANT Alias

VARIABLE dir

Init == dir = [a \in {} |-> a]

\* Bind new aliases, any number in one step, to known or to new identities.  `old`
\* and `new` name the directory before and after, which a refinement computes.
Bind ==
  \E old \in {dir}, new \in {dir'} :
    /\ new \in [DOMAIN new -> Alias]
    /\ \A a \in DOMAIN old : a \in DOMAIN new /\ new[a] = old[a]
    /\ \A a \in DOMAIN new : new[a] \in DOMAIN new /\ new[new[a]] = new[a]

Spec == Init /\ [][Bind]_dir

================================================================================
