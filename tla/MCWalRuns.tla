----------------------------- MODULE MCWalRuns -----------------------------
(* Instances of WalRuns for TLC. *)
EXTENDS WalRuns, TLC
CONSTANTS b1, b2

\* The first run probes, the second ends or is superseded, the third is poisoned.
OneEach == <<{"probe"}, {"close", "supersede"}, {"poison"}>>
Symmetry == Permutations(Boots)
=============================================================================
