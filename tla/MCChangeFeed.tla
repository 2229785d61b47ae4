---------------------------- MODULE MCChangeFeed ----------------------------
(* ChangeFeed on small instances.                                          *)
EXTENDS ChangeFeed, TLC

Symmetric == Permutations(Writers) \cup Permutations(Entities) \cup Permutations(Terminals)
=============================================================================
