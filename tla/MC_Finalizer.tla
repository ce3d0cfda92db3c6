---------------------------- MODULE MC_Finalizer ----------------------------
EXTENDS Finalizer, TLC

CONSTANTS f1, f2

MC_Item == {f1, f2}

MC_Symmetry == Permutations(MC_Item)
=============================================================================
