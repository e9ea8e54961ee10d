---------------------------- MODULE MCCoherence ----------------------------
(* Coherence.tla on three cores and two addresses. *)
EXTENDS Coherence, TLC

CONSTANTS c1, c2, c3, a1, a2

MCCores == {c1, c2, c3}
MCAddrs == {a1, a2}

(* Cores and addresses are only compared for equality. *)
MCSymmetry == Permutations(MCCores) \union Permutations(MCAddrs)

=============================================================================
