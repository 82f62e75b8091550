----------------------------- MODULE MCPortLocks -----------------------------
(* TLC instances of PortLocks.                                             *)
EXTENDS PortLocks, TLC

LocksSymmetry == Permutations(Threads) \union Permutations(Ports)
=============================================================================
