--------------------------------- MODULE Listing ---------------------------------
(***************************************************************************)
(* Sets in an order, as the queries of cln-history return them.            *)
(***************************************************************************)
EXTENDS Naturals, FiniteSets

\* ORDER BY, and the key order of a BTreeMap: the n-th of the elements of S is the
\* one that n - 1 others are before.
Listing(S, IsBefore(_, _)) ==
  [n \in 1..Cardinality(S) |->
     CHOOSE x \in S : Cardinality({y \in S : IsBefore(y, x)}) = n - 1]

==================================================================================
