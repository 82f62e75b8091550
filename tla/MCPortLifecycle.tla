--------------------------- MODULE MCPortLifecycle ---------------------------
(* TLC instances of PortLifecycle: the constants the configurations share. *)
EXTENDS PortLifecycle, TLC

Symmetry == Permutations(Threads) \union Permutations(Ports)
============================================================================
