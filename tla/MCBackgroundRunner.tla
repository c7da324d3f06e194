------------------------- MODULE MCBackgroundRunner -------------------------
(* Finite instances of BackgroundRunner for TLC. *)
EXTENDS BackgroundRunner, TLC

CONSTANTS d1, d2, d3, r1, r2, k1

\* Every call is about the same event.
OneEvent == [c \in Deliveries \union Resolvers |-> k1]

Symmetric == Permutations(Deliveries) \union Permutations(Resolvers)
=============================================================================
