-------------------------- MODULE MCResponseArena --------------------------
(* A small arena whose packets are interchangeable.                        *)
EXTENDS ResponseArena, TLC

Symmetry == Permutations(Packets)
=============================================================================
