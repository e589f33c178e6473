----------------------------- MODULE MCColdTier -----------------------------
(* Instances of ColdTier for TLC. *)
EXTENDS ColdTier, TLC

Symmetry == Permutations(Streams)
=============================================================================
