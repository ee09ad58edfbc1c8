---------------------------- MODULE MCSubscriptions ----------------------------
(* Subscriptions on small instances; TLC evaluates its assumption here.    *)
EXTENDS Subscriptions, TLC

\* Neither subscriptions nor workers are told apart.
Symmetry == Permutations(Sub) \cup Permutations(Worker)

=============================================================================
