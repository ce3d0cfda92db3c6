----------------------------- MODULE MC_Install -----------------------------
(* Three packages and one path, which two or three archives may ship.     *)
EXTENDS Install, TLC

CONSTANTS p1, p2, p3, x1

MC_Pkg == {p1, p2, p3}
MC_Path == {x1}
MC_Symmetry == Permutations(MC_Pkg)
=============================================================================
