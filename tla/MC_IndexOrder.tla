---------------------------- MODULE MC_IndexOrder ----------------------------
(* One package name and one provided name; two version ranks, each with   *)
(* two spellings that compare equal.                                       *)
EXTENDS IndexOrder

CONSTANTS a, v, s1, s2

MC_Name == {a}
MC_Alias == {v}
MC_Spelling == {s1, s2}
=============================================================================
