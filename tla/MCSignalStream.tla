---------------------------- MODULE MCSignalStream ----------------------------
(* Signalling to one user on small instances.                               *)
EXTENDS SignalStream, TLC

Symmetry == Permutations(Senders) \cup Permutations(Streams)
=============================================================================
