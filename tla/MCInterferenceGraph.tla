------------------------- MODULE MCInterferenceGraph -------------------------
(* Small instances of InterferenceGraph: a pool of one callee-saved, one     *)
(* argument register and t5, or a prefix of it.                              *)
EXTENDS InterferenceGraph, TLC

CONSTANTS s1, a0, a1

PoolTwo == <<s1, a0>>
PoolThree == <<s1, a0, T5>>

NodeSymmetry == Permutations(Node)
=============================================================================
