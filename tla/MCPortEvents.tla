---------------------------- MODULE MCPortEvents ----------------------------
(* TLC instances of PortEvents.                                            *)
EXTENDS PortEvents

EventsSymmetry == Permutations(Threads) \union Permutations(Observers)
============================================================================
