---------------------------- MODULE MCPortSignal ----------------------------
(* TLC instances of PortSignal.                                            *)
EXTENDS PortSignal, TLC

SignalSymmetry == Permutations(Threads)
============================================================================
