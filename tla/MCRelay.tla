------------------------------ MODULE MCRelay ------------------------------
(* Instances of Relay for TLC. *)
EXTENDS Relay, TLC

\* Relays and records are interchangeable; used by the safety run only.
Symmetry == Permutations(Relays) \cup Permutations(Records)
=============================================================================
