-------------------------- MODULE MCChainCacheLRU ---------------------------
(* Instances of ChainCacheLRU for TLC. *)
EXTENDS ChainCacheLRU, TLC

CONSTANTS u1, u2, u3, ch1, ch2

ThreeUsers == {u1, u2, u3}
TwoChains == {ch1, ch2}
Symmetry == Permutations(ThreeUsers) \cup Permutations(TwoChains)
=============================================================================
