---------------------------- MODULE IndexParser ----------------------------
(***************************************************************************)
(* The index phase of eng/common/cross/install-debs.py: the concurrent     *)
(* fetch of one Packages.gz per (suite, component) in                      *)
(* download_package_index_parallel and fetch_and_decompress (lines 58-93), *)
(* and parse_package_index (lines 160-194) over the merged text.           *)
(*                                                                         *)
(* An index is the sequence of records it holds (module IndexRecords).    *)
(***************************************************************************)
EXTENDS IndexRecords

CONSTANTS
    NIdx,       \* number of (suite, component) indexes
    MaxRecs     \* bound on the records of one index

ASSUME ParserAssumption == NIdx \in Nat /\ MaxRecs \in Nat

(* Sequences of at most n elements of S.                                   *)
SeqsUpTo(S, n) == UNION { [1..k -> S] : k \in 0..n }

VARIABLES
    index,     \* i -> the records of index i (fixed: what the mirror serves)
    fetched,   \* i -> "pending", "ok" or "failed"
    merged,    \* the merged_content, as its sequence of records
    mi,        \* next result of the merge loop
    pos,       \* next record of the parse loop
    packages,  \* Name -> the kept record, or NoRec
    aliases,   \* Alias -> provider names, in insertion order
    phase      \* "fetch", "merge", "parse", "done" or "failed"

vars == <<index, fetched, merged, mi, pos, packages, aliases, phase>>

TypeOK ==
    /\ index \in [1..NIdx -> Seq(Record)]
    /\ fetched \in [1..NIdx -> {"pending", "ok", "failed"}]
    /\ merged \in Seq(Record)
    /\ mi \in 1..NIdx + 1
    /\ pos \in Nat \ {0}
    /\ packages \in [Name -> Record \cup {NoRec}]
    /\ aliases \in [Alias -> Seq(Name)]
    /\ phase \in {"fetch", "merge", "parse", "done", "failed"}

Init ==
    /\ index \in [1..NIdx -> SeqsUpTo(Record, MaxRecs)]
    /\ fetched = [i \in 1..NIdx |-> "pending"]
    /\ merged = <<>>
    /\ mi = 1
    /\ pos = 1
    /\ packages = [n \in Name |-> NoRec]
    /\ aliases = [a \in Alias |-> <<>>]
    /\ phase = "fetch"

(* Lines 64-69 and 80-93: the task of index i completes.  A 200 answer     *)
(* that decompresses gives its text; a non-200 answer, a transport error   *)
(* or a bad gzip body gives None.  The tasks complete in any order.        *)
FetchIndex(i) ==
    /\ phase = "fetch"
    /\ fetched[i] = "pending"
    /\ \E outcome \in {"ok", "failed"} : fetched' = [fetched EXCEPT ![i] = outcome]
    /\ UNCHANGED <<index, merged, mi, pos, packages, aliases, phase>>

(* Line 69: gather returns once every task has completed.                  *)
Gathered ==
    /\ phase = "fetch"
    /\ \A i \in 1..NIdx : fetched[i] # "pending"
    /\ phase' = "merge"
    /\ UNCHANGED <<index, fetched, merged, mi, pos, packages, aliases>>

(* Lines 71-76: the results are visited in the order the tasks were       *)
(* created (gather keeps it), and each text is appended.                   *)
MergeResult ==
    /\ phase = "merge"
    /\ mi <= NIdx
    /\ merged' = IF fetched[mi] = "ok" THEN merged \o index[mi] ELSE merged
    /\ mi' = mi + 1
    /\ UNCHANGED <<index, fetched, pos, packages, aliases, phase>>

(* Line 78, then line 329: the merged text goes to the parser.             *)
MergeDone ==
    /\ phase = "merge"
    /\ mi = NIdx + 1
    /\ phase' = "parse"
    /\ UNCHANGED <<index, fetched, merged, mi, pos, packages, aliases>>

(* Lines 166-192: one record of the merged text.  A new name is kept       *)
(* without comparing; otherwise the versions are compared, which raises    *)
(* if either is missing or malformed, and r is kept only if it is greater; *)
(* keeping r also records it as a provider of the names it provides.       *)
ParseRecord ==
    /\ phase = "parse"
    /\ pos <= Len(merged)
    /\ LET r == merged[pos] IN
       \/ /\ Outcome(packages[r.pkg], r) # "raise"
          /\ packages' = PackagesAfter(packages, r)
          /\ aliases' = AliasesAfter(aliases, packages, r)
          /\ pos' = pos + 1
          /\ UNCHANGED phase
       \/ /\ Outcome(packages[r.pkg], r) = "raise"
          /\ phase' = "failed"
          /\ UNCHANGED <<packages, aliases, pos>>
    /\ UNCHANGED <<index, fetched, merged, mi>>

(* Line 194: every record has been read.                                   *)
ParseDone ==
    /\ phase = "parse"
    /\ pos = Len(merged) + 1
    /\ phase' = "done"
    /\ UNCHANGED <<index, fetched, merged, mi, pos, packages, aliases>>

Next ==
    \/ \E i \in 1..NIdx : FetchIndex(i)
    \/ Gathered \/ MergeResult \/ MergeDone
    \/ ParseRecord \/ ParseDone

Spec == Init /\ [][Next]_vars

-----------------------------------------------------------------------------
(* The records parsed so far.                                              *)
Parsed == { merged[j] : j \in 1..pos - 1 }

(* The kept record of each name has the greatest version among the records *)
(* of that name parsed so far, whichever index and position they came      *)
(* from (spec section 3, PackageRecord invariant).                         *)
KeptIsMax ==
    \A r \in Parsed :
        /\ packages[r.pkg] # NoRec
        /\ r.ver # NoVersion =>
              /\ packages[r.pkg].ver # NoVersion
              /\ r.ver[1] <= packages[r.pkg].ver[1]

(* Spec section 4.2 and the design note of section 9: an alias entry is    *)
(* made by the record that is kept for its package, so once the index is   *)
(* parsed every provider listed for a name is a package whose kept record  *)
(* provides that name.                                                     *)
AliasesFromKept ==
    phase = "done" =>
      \A a \in Alias : \A n \in RangeOf(aliases[a]) :
          a \in packages[n].provides
=============================================================================
