------------------------- MODULE SourceIngestionMC -------------------------
(* Small instances of SourceIngestion. *)
EXTENDS SourceIngestion, TLC

CONSTANTS k1, k2, k3, k4, h1, h2, w1, w2

Symmetry == Permutations(Keys) \cup Permutations(Hashes) \cup Permutations(Workers)
=============================================================================
