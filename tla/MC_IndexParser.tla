--------------------------- MODULE MC_IndexParser ---------------------------
(* Two indexes (one suite's main and universe, or two suites), up to two  *)
(* records each, over two package names, one provided name and two      *)
(* version ranks.                                                         *)
EXTENDS IndexParser, TLC

CONSTANTS a, b, v, s1

MC_Name == {a, b}
MC_Alias == {v}
MC_Spelling == {s1}
=============================================================================
