------------------------------ MODULE MC_Rootfs ------------------------------
(* Two packages, and one library name that either may ship under lib/,    *)
(* under usr/lib/, or under both.                                          *)
EXTENDS Rootfs, TLC

CONSTANTS p1, p2, a

MC_Pkg == {p1, p2}
MC_LibName == {a}
MC_Path == {"lib", "usr"} \X MC_LibName
=============================================================================
