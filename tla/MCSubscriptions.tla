-------------------------- MODULE MCSubscriptions --------------------------
EXTENDS Subscriptions, TLC

\* requests are interchangeable
Symmetry == Permutations(Request)
=============================================================================
