---------------------------- MODULE MCRequestGate ----------------------------
(* RequestGate: the requests, the key IDs and the spans of time are given by *)
(* the configuration.                                                        *)
EXTENDS RequestGate, TLC

\* Goroutines and key IDs are alike.
Symmetry == Permutations(Slot) \cup Permutations(Kid) \cup Permutations(Message)
===============================================================================
