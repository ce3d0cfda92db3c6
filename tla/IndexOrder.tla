----------------------------- MODULE IndexOrder -----------------------------
(***************************************************************************)
(* parse_package_index (eng/common/cross/install-debs.py, lines 160-194)   *)
(* applied to one list of records in two orders.  The order of the merged *)
(* text is the order of the --suite arguments and of main before universe *)
(* (download_package_index_parallel keeps gather's order), so a result     *)
(* that depends on it depends on how the script was called.  TLC only: the *)
(* parse of a whole list is a RECURSIVE operator.                          *)
(***************************************************************************)
EXTENDS IndexRecords, TLC

CONSTANT MaxRecs  \* bound on the length of the list


(* The tables parse_package_index returns for the records s, starting from *)
(* the tables pk and al, or "raised" when a comparison raises.             *)
RECURSIVE ParseAll(_, _, _)
ParseAll(pk, al, s) ==
    IF s = <<>> THEN <<pk, al>>
    ELSE IF Outcome(pk[Head(s).pkg], Head(s)) = "raise" THEN "raised"
    ELSE ParseAll(PackagesAfter(pk, Head(s)),
                  AliasesAfter(al, pk, Head(s)),
                  Tail(s))

(* Lines 162-163: the tables start empty.                                   *)
Parse(s) == ParseAll([n \in Name |-> NoRec], [a \in Alias |-> <<>>], s)

VARIABLES recs, perm

vars == <<recs, perm>>

Init ==
    /\ recs \in UNION { [1..k -> Record] : k \in 0..MaxRecs }
    /\ perm \in Permutations(DOMAIN recs)

Spec == Init /\ [][UNCHANGED vars]_vars

Reordered == [i \in DOMAIN recs |-> recs[perm[i]]]

(* Spec section 8: parsing records of one package in either order keeps   *)
(* the same winning record (and section 4.4: the parser is                 *)
(* order-insensitive beyond the version-max rule): both tables that        *)
(* parse_package_index returns, packages and aliases, are the same.        *)
WinnerOrderInsensitive ==
    LET p1 == Parse(recs)
        p2 == Parse(Reordered) IN
    p1 # "raised" /\ p2 # "raised" => p1 = p2
=============================================================================
