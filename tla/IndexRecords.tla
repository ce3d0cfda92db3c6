---------------------------- MODULE IndexRecords ----------------------------
(***************************************************************************)
(* The records of a Packages index and the step parse_package_index        *)
(* (eng/common/cross/install-debs.py, lines 166-192) takes on one of them, *)
(* as operators on values: module IndexParser applies them record by       *)
(* record, module IndexOrder to whole sequences in different orders.       *)
(*                                                                         *)
(* A record is kept as the fields the parser reads: Package, Version and   *)
(* the names of Provides (Filename and Depends travel with the record and  *)
(* are not looked at).  A version is a pair <<rank, spelling>>:            *)
(* compare_debian_versions is a total preorder (module DebVersion checks   *)
(* it), so a version is known to the parser only by its rank, and two      *)
(* spellings of one rank are versions that compare equal although they     *)
(* differ ("1.0" and "1.00").  NoVersion is a record without a Version     *)
(* field, or with one that parse_debian_version rejects: comparing it      *)
(* raises and ends the run.                                                *)
(***************************************************************************)
EXTENDS Naturals, Sequences

CONSTANTS
    Name,       \* package names
    Alias,      \* names that only appear in Provides
    MaxRank,    \* number of distinct version ranks
    Spelling,   \* spellings of one rank
    NoVersion,  \* a missing or unparsable Version
    NoRec       \* "not in packages"

ASSUME RecordsAssumption ==
    /\ Name \cap Alias = {}
    /\ MaxRank \in Nat
    /\ Spelling # {}

Version == (1..MaxRank) \X Spelling

Record == [pkg : Name, ver : Version \cup {NoVersion}, provides : SUBSET Alias]

ASSUME NoRecAssumption == NoRec \notin Record /\ NoVersion \notin Version

RangeOf(s) == { s[i] : i \in DOMAIN s }

(* Mutant: the arguments of compare_debian_versions swapped.               *)
GreaterSwapped(v, kept) == kept[1] > v[1]

(* Line 176: the comparison compare_debian_versions(version, kept) > 0.    *)
Greater(v, kept) == v[1] > kept[1]

(* Line 176: what the parser does with record r when kept is the record    *)
(* it holds for r's name: keep r (a new name is kept without comparing),   *)
(* raise (comparing a missing or malformed version), or skip r.            *)
Outcome(kept, r) ==
    IF kept = NoRec THEN "keep"
    ELSE IF NoVersion \in {r.ver, kept.ver} THEN "raise"
    ELSE IF Greater(r.ver, kept.ver) THEN "keep"
    ELSE "skip"

(* Mutant: the package dict appended instead of package_name.             *)
WithProvidersRecord(al, r) ==
    [a \in Alias |->
        IF a \in r.provides /\ r.pkg \notin RangeOf(al[a])
        THEN Append(al[a], r)
        ELSE al[a]]

(* Lines 184-192: when r is kept, each name it provides gets r's package   *)
(* appended to its provider list unless it is already listed.              *)
WithProviders(al, r) ==
    [a \in Alias |->
        IF a \in r.provides /\ r.pkg \notin RangeOf(al[a])
        THEN Append(al[a], r.pkg)
        ELSE al[a]]

(* Lines 176-192 as one step on the pair (packages, aliases): the tables   *)
(* after record r, when r does not raise.  Lines 178-182 store r's Version, *)
(* Filename and Depends; the model stores r itself, which names the record *)
(* those fields came from.  Its provides field is not stored by the code:  *)
(* no step reads it from the table (aliases are updated from r), only the  *)
(* properties do, to ask which record was kept.                            *)
PackagesAfter(pk, r) ==
    IF Outcome(pk[r.pkg], r) = "keep" THEN [pk EXCEPT ![r.pkg] = r] ELSE pk

AliasesAfter(al, pk, r) ==
    IF Outcome(pk[r.pkg], r) = "keep" THEN WithProviders(al, r) ELSE al
=============================================================================
