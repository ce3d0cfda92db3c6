---------------------------- MODULE MC_Resolver ----------------------------
(* Three real packages and one virtual name, which has a provider in some *)
(* initial states and names nothing in others.                            *)
EXTENDS Resolver, TLC

CONSTANTS p1, p2, p3, v

MC_Pkg == {p1, p2, p3}
MC_Virtual == {v}
MC_Symmetry == Permutations(MC_Pkg)
=============================================================================
