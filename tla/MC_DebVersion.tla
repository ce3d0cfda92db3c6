---------------------------- MODULE MC_DebVersion ----------------------------
EXTENDS DebVersion

(* "1", "a", ".", "-" and ":": a digit run, a letter run, the separator    *)
(* the versions of the archive use, and the two characters the parse      *)
(* gives a meaning to.                                                     *)
MC_Alphabet == {49, 97, 46, 45, 58}
=============================================================================
