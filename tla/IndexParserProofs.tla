------------------------- MODULE IndexParserProofs -------------------------
(***************************************************************************)
(* Proofs about the index phase of install-debs.py (module IndexParser),  *)
(* for every number of indexes, every bound and every set of names.        *)
(***************************************************************************)
EXTENDS IndexParser, TLAPS

(* A record a step keeps is a record, and the alias table stays a table   *)
(* of package-name sequences.                                              *)
LEMMA StepTypes ==
    ASSUME NEW pk \in [Name -> Record \cup {NoRec}],
           NEW al \in [Alias -> Seq(Name)],
           NEW r \in Record
    PROVE  /\ PackagesAfter(pk, r) \in [Name -> Record \cup {NoRec}]
           /\ AliasesAfter(al, pk, r) \in [Alias -> Seq(Name)]
BY DEF PackagesAfter, AliasesAfter, WithProviders, Record

LEMMA InitTypeOK == Init => TypeOK
BY ParserAssumption DEF Init, TypeOK, SeqsUpTo

LEMMA NextTypeOK == TypeOK /\ [Next]_vars => TypeOK'
<1> SUFFICES ASSUME TypeOK, [Next]_vars PROVE TypeOK'
  OBVIOUS
<1>1. CASE \E i \in 1..NIdx : FetchIndex(i)
  BY <1>1 DEF FetchIndex, TypeOK
<1>2. CASE Gathered
  BY <1>2 DEF Gathered, TypeOK
<1>3. CASE MergeResult
  BY <1>3, ParserAssumption DEF MergeResult, TypeOK
<1>4. CASE MergeDone
  BY <1>4 DEF MergeDone, TypeOK
<1>5. CASE ParseRecord
  <2>1. merged[pos] \in Record
    BY <1>5 DEF ParseRecord, TypeOK
  <2>2. /\ phase = "parse" /\ pos <= Len(merged)
        /\ UNCHANGED <<index, fetched, merged, mi>>
    BY <1>5 DEF ParseRecord
  <2>3. CASE /\ packages' = PackagesAfter(packages, merged[pos])
             /\ aliases' = AliasesAfter(aliases, packages, merged[pos])
             /\ pos' = pos + 1 /\ UNCHANGED phase
    <3>1. /\ packages' \in [Name -> Record \cup {NoRec}]
          /\ aliases' \in [Alias -> Seq(Name)]
      BY <2>1, <2>3, StepTypes DEF TypeOK
    <3>2. QED
      BY <2>2, <2>3, <3>1 DEF TypeOK
  <2>4. CASE phase' = "failed" /\ UNCHANGED <<packages, aliases, pos>>
    BY <2>2, <2>4 DEF TypeOK
  <2>5. QED
    BY <1>5, <2>3, <2>4 DEF ParseRecord
<1>6. CASE ParseDone
  BY <1>6 DEF ParseDone, TypeOK
<1>7. CASE UNCHANGED vars
  BY <1>7 DEF vars, TypeOK
<1>8. QED
  BY <1>1, <1>2, <1>3, <1>4, <1>5, <1>6, <1>7 DEF Next

(* The index phase keeps every variable in its type.                       *)
THEOREM TypeCorrect == Spec => []TypeOK
BY InitTypeOK, NextTypeOK, PTL DEF Spec

-----------------------------------------------------------------------------
(* KeptIsMax is not inductive: a merge step changes the merged text, and   *)
(* a parse step reads the record at pos.  IInv adds that nothing has been  *)
(* parsed before the parse phase, and that pos stays within the text.      *)
IInv ==
    /\ TypeOK
    /\ phase \in {"fetch", "merge"} => pos = 1
    /\ pos <= Len(merged) + 1
    /\ KeptIsMax

(* One more record parsed adds it to Parsed.                               *)
LEMMA ParsedStep ==
    ASSUME NEW s \in Seq(Record), NEW p \in 1..Len(s)
    PROVE  { s[j] : j \in 1..(p + 1) - 1 } = { s[j] : j \in 1..p - 1 } \cup {s[p]}
OBVIOUS

(* What has been parsed are records of the merged text.                   *)
LEMMA ParsedRecords == IInv => Parsed \subseteq Record
BY DEF IInv, TypeOK, Parsed

LEMMA InitIInv == Init => IInv
BY InitTypeOK DEF Init, IInv, KeptIsMax, Parsed

LEMMA NextIInv == IInv /\ [Next]_vars => IInv'
<1> SUFFICES ASSUME IInv, [Next]_vars PROVE IInv'
  OBVIOUS
<1>0. TypeOK'
  BY NextTypeOK DEF IInv
<1>1. CASE \E i \in 1..NIdx : FetchIndex(i)
  BY <1>1, <1>0 DEF FetchIndex, IInv, KeptIsMax, Parsed
<1>2. CASE Gathered
  BY <1>2, <1>0 DEF Gathered, IInv, KeptIsMax, Parsed
<1>3. CASE MergeResult
  <2>1. pos = 1 /\ pos' = 1 /\ phase' = "merge"
    BY <1>3 DEF MergeResult, IInv
  <2>2. Parsed' = {}
    BY <2>1 DEF Parsed
  <2>3. merged' \in Seq(Record)
    BY <1>0 DEF TypeOK
  <2>4. QED
    BY <1>0, <2>1, <2>2, <2>3 DEF IInv, KeptIsMax
<1>4. CASE MergeDone
  BY <1>4, <1>0 DEF MergeDone, IInv, KeptIsMax, Parsed
<1>5. CASE ParseDone
  BY <1>5, <1>0 DEF ParseDone, IInv, KeptIsMax, Parsed
<1>6. CASE UNCHANGED vars
  BY <1>6, <1>0 DEF vars, IInv, KeptIsMax, Parsed
<1>7. CASE ParseRecord
  <2> DEFINE r == merged[pos]
             kept == packages[r.pkg]
  <2>1. /\ phase = "parse" /\ pos \in 1..Len(merged)
        /\ r \in Record /\ kept \in Record \cup {NoRec}
        /\ UNCHANGED merged
    <3>1. phase = "parse" /\ pos <= Len(merged) /\ UNCHANGED merged
      BY <1>7 DEF ParseRecord
    <3>2. pos \in 1..Len(merged) /\ r \in Record
      BY <3>1 DEF IInv, TypeOK
    <3>3. kept \in Record \cup {NoRec}
      BY <3>2 DEF IInv, TypeOK, Record
    <3>4. QED
      BY <3>1, <3>2, <3>3
  <2>2. CASE Outcome(kept, r) = "raise"
    BY <1>7, <2>1, <2>2, <1>0 DEF ParseRecord, IInv, KeptIsMax, Parsed
  <2>3. CASE Outcome(kept, r) # "raise"
    <3>a. /\ packages' = PackagesAfter(packages, r)
          /\ pos' = pos + 1 /\ phase' = "parse"
      BY <1>7, <2>1, <2>3 DEF ParseRecord
    <3>b. Parsed' = Parsed \cup {r}
      BY <2>1, <3>a, ParsedStep DEF Parsed, IInv, TypeOK
    <3>c. pos' <= Len(merged') + 1
      BY <2>1, <3>a
    <3>d. CASE Outcome(kept, r) = "keep"
      <4>1. packages' = [packages EXCEPT ![r.pkg] = r]
        BY <3>a, <3>d DEF PackagesAfter
      <4>2. kept = NoRec \/ (kept.ver # NoVersion /\ r.ver # NoVersion
                                /\ r.ver[1] > kept.ver[1])
        BY <3>d, <2>1 DEF Outcome, Greater
      <4>3. kept = NoRec => \A q \in Parsed : q.pkg # r.pkg
        BY <2>1 DEF IInv, KeptIsMax
      <4>4. ASSUME NEW q \in Parsed, q.pkg = r.pkg, q.ver # NoVersion
            PROVE  q.ver[1] <= r.ver[1]
        <5>1. kept # NoRec
          BY <4>3, <4>4
        <5>2. q.ver[1] <= kept.ver[1] /\ kept.ver # NoVersion
          BY <4>4 DEF IInv, KeptIsMax
        <5>3. q.ver \in Version /\ kept.ver \in Version /\ r.ver \in Version
          BY <5>1, <5>2, <4>2, <4>4, <2>1, ParsedRecords DEF Record
        <5>4. QED
          BY <5>1, <5>2, <5>3, <4>2 DEF Version
      <4>5. KeptIsMax'
        <5>1. SUFFICES ASSUME NEW q \in Parsed'
                       PROVE  /\ packages'[q.pkg] # NoRec
                              /\ q.ver # NoVersion =>
                                    /\ packages'[q.pkg].ver # NoVersion
                                    /\ q.ver[1] <= packages'[q.pkg].ver[1]
          BY DEF KeptIsMax
        <5>2. q \in Record /\ r.pkg \in Name /\ r \in Record
          BY <3>b, <2>1, ParsedRecords DEF Record
        <5>3. CASE q.pkg = r.pkg
          <6>1. packages'[q.pkg] = r
            BY <5>2, <5>3, <4>1 DEF IInv, TypeOK
          <6>2. CASE q = r
            <7>1. r.ver # NoVersion => r.ver[1] \in Nat
              BY <5>2 DEF Record, Version
            <7>2. QED
              BY <6>1, <6>2, <7>1, <5>2, NoRecAssumption
          <6>3. CASE q # r
            <7>1. q \in Parsed /\ kept # NoRec
              BY <5>3, <3>b, <6>3, <4>3
            <7>2. q.ver # NoVersion => q.ver[1] <= r.ver[1]
              BY <7>1, <5>3, <4>4
            <7>3. QED
              BY <6>1, <7>1, <7>2, <4>2, <5>2, NoRecAssumption
          <6>4. QED
            BY <6>2, <6>3
        <5>4. CASE q.pkg # r.pkg
          <6>1. q \in Parsed
            BY <3>b, <5>4
          <6>2. packages'[q.pkg] = packages[q.pkg]
            BY <5>2, <5>4, <4>1 DEF IInv, TypeOK, Record
          <6>3. QED
            BY <6>1, <6>2 DEF IInv, KeptIsMax
        <5>5. QED
          BY <5>3, <5>4
      <4>6. QED
        BY <4>5, <3>a, <3>c, <1>0 DEF IInv
    <3>e. CASE Outcome(kept, r) = "skip"
      <4>1. packages' = packages
        BY <3>a, <3>e DEF PackagesAfter
      <4>2. kept # NoRec /\ kept.ver # NoVersion /\ r.ver # NoVersion
            /\ ~(r.ver[1] > kept.ver[1])
        BY <3>e DEF Outcome, Greater
      <4>3. r.ver \in Version /\ kept.ver \in Version
        BY <4>2, <2>1 DEF Record
      <4>4. r.ver[1] <= kept.ver[1]
        BY <4>2, <4>3 DEF Version
      <4>5. KeptIsMax'
        BY <3>b, <4>1, <4>2, <4>4 DEF IInv, KeptIsMax
      <4>6. QED
        BY <4>5, <3>a, <3>c, <1>0 DEF IInv
    <3>f. QED
      BY <3>d, <3>e, <2>3 DEF Outcome
  <2>4. QED
    BY <2>2, <2>3
<1>8. QED
  BY <1>1, <1>2, <1>3, <1>4, <1>5, <1>6, <1>7 DEF Next

(* Whichever indexes fail and whatever order the records come in, the     *)
(* record parse_package_index keeps for a name has the greatest version    *)
(* among the records of that name it has read (lines 166-182).            *)
THEOREM KeptMaximal == Spec => []KeptIsMax
<1>1. IInv => KeptIsMax
  BY DEF IInv
<1>2. QED
  BY InitIInv, NextIInv, <1>1, PTL DEF Spec
=============================================================================
