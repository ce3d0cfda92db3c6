--------------------------- MODULE ResolverProofs ---------------------------
(***************************************************************************)
(* Proofs about the resolver of install-debs.py (module Resolver), for    *)
(* every set of package names and every bound.                             *)
(***************************************************************************)
EXTENDS Resolver, TLAPS

(* The sequence helpers of Init produce sequences.                         *)
LEMMA DistinctSeqsAreSeqs ==
    ASSUME NEW S, NEW n \in Nat
    PROVE  DistinctSeqs(S, n) \subseteq Seq(S)
BY DEF DistinctSeqs

LEMMA NonEmptySeqsAreSeqs ==
    ASSUME NEW S, NEW n \in Nat
    PROVE  NonEmptySeqs(S, n) \subseteq Seq(S) \ {<<>>}
BY DEF NonEmptySeqs

(* The elements of a nonempty sequence are its head and those of its tail. *)
LEMMA RangeOfTail ==
    ASSUME NEW S, NEW s \in Seq(S), s # <<>>
    PROVE  RangeOf(s) = {Head(s)} \cup RangeOf(Tail(s))
<1>1. Len(s) \in Nat \ {0}
  OBVIOUS
<1>2. \A i \in 1..Len(s) - 1 : Tail(s)[i] = s[i + 1]
  BY <1>1
<1>3. DOMAIN Tail(s) = 1..Len(s) - 1
  BY <1>1
<1>4. \A i \in DOMAIN s : i = 1 \/ i - 1 \in DOMAIN Tail(s)
  BY <1>1, <1>3
<1>5. QED
  BY <1>1, <1>2, <1>3, <1>4 DEF RangeOf

(* The elements of a sequence over S are in S.                            *)
LEMMA RangeOfSeq ==
    ASSUME NEW S, NEW s \in Seq(S)
    PROVE  RangeOf(s) \subseteq S
BY DEF RangeOf

(* Appending x adds x to the elements of a sequence.                      *)
LEMMA RangeOfAppend ==
    ASSUME NEW S, NEW s \in Seq(S), NEW x
    PROVE  RangeOf(Append(s, x)) = RangeOf(s) \cup {x}
BY DEF RangeOf

(* A resolved name is a real package or None.                              *)
LEMMA ResolveNameType ==
    ASSUME TypeOK, NEW n \in Names
    PROVE  ResolveName(n) \in Pkg \cup {None}
BY DEF TypeOK, ResolveName, Names

(* The initial states are well typed.                                    *)
LEMMA InitTypeOK == Init => TypeOK
<1> SUFFICES ASSUME Init PROVE TypeOK
  OBVIOUS
<1>1. depends \in [Pkg -> Seq(Names)]
  BY DistinctSeqsAreSeqs, ConstAssumption DEF Init
<1>2. aliases \in [Virtual -> Seq(Pkg)]
  BY DistinctSeqsAreSeqs, ConstAssumption DEF Init
<1>3. requested \in Seq(Names) /\ to_process \in Seq(Names)
  BY NonEmptySeqsAreSeqs, ConstAssumption DEF Init
<1>4. QED
  BY <1>1, <1>2, <1>3 DEF Init, TypeOK

(* Every step keeps every variable in its type.                            *)
LEMMA NextTypeOK == TypeOK /\ [Next]_vars => TypeOK'
<1> SUFFICES ASSUME TypeOK, [Next]_vars PROVE TypeOK'
  OBVIOUS
<1>1. CASE Pop
  <2> DEFINE rp == ResolveName(Head(to_process))
  <2>1. to_process # <<>> /\ Head(to_process) \in Names
    BY <1>1 DEF Pop, inputs, TypeOK, Names
  <2>2. rp \in Pkg \cup {None}
    BY <2>1, ResolveNameType
  <2>3. Tail(to_process) \in Seq(Names)
    BY <2>1 DEF TypeOK
  <2>4. CASE rp = None
    <3>1. rp \notin RangeOf(resolved)
      BY <2>4, ConstAssumption DEF TypeOK, RangeOf, Names
    <3>2. pc' = "notfound" /\ UNCHANGED <<to_process, resolved, current, di, depends, aliases, requested>>
      BY <1>1, <2>4, <3>1 DEF Pop, inputs
    <3>3. QED
      BY <3>2 DEF TypeOK
  <2>5. CASE rp \in RangeOf(resolved)
    <3>1. rp # None
      BY <2>5, ConstAssumption DEF TypeOK, RangeOf, Names
    <3>2. to_process' = Tail(to_process) /\ UNCHANGED <<resolved, current, di, pc, depends, aliases, requested>>
      BY <1>1, <2>5, <3>1 DEF Pop, inputs
    <3>3. QED
      BY <3>2, <2>3 DEF TypeOK
  <2>6. CASE rp # None /\ rp \notin RangeOf(resolved)
    <3>1. rp \in Pkg
      BY <2>2, <2>6
    <3>2. /\ to_process' = Tail(to_process) /\ resolved' = Append(resolved, rp)
          /\ current' = rp /\ di' = 1 /\ pc' = "deps"
          /\ UNCHANGED <<depends, aliases, requested>>
      BY <1>1, <2>6 DEF Pop, inputs
    <3>3. QED
      BY <3>1, <3>2, <2>3 DEF TypeOK
  <2>7. QED
    BY <2>4, <2>5, <2>6
<1>2. CASE VisitDep
  BY <1>2 DEF VisitDep, inputs, TypeOK, Names
<1>3. CASE DepsDone
  BY <1>3 DEF DepsDone, inputs, TypeOK, Names
<1>4. CASE Finish
  BY <1>4 DEF Finish, inputs, TypeOK, Names
<1>5. CASE UNCHANGED vars
  BY <1>5 DEF vars, TypeOK
<1>6. QED
  BY <1>1, <1>2, <1>3, <1>4, <1>5 DEF Next

(* Type correctness: every reachable state is well typed.                 *)
THEOREM TypeCorrect == Spec => []TypeOK
BY InitTypeOK, NextTypeOK, PTL DEF Spec

-----------------------------------------------------------------------------
(***************************************************************************)
(* ClosedOnReturn is not inductive: while the walk runs, a dependency of  *)
(* a resolved package may still be waiting in to_process, or may be one   *)
(* the inner loop has not reached yet.  Frontier says that these are the  *)
(* only two places it can be, and that is what the queue test of line     *)
(* 155 relies on when it skips a queued name.                              *)
(***************************************************************************)
Frontier ==
    \A p \in RangeOf(resolved) : \A i \in DOMAIN depends[p] :
        depends[p][i] \in Pkg =>
            \/ depends[p][i] \in RangeOf(resolved)
            \/ depends[p][i] \in RangeOf(to_process)
            \/ pc = "deps" /\ p = current /\ i >= di

IInv ==
    /\ TypeOK
    /\ NoDuplicates
    /\ pc = "deps" => current \in RangeOf(resolved)
    /\ pc = "done" => to_process = <<>>
    /\ Frontier

LEMMA InitIInv == Init => IInv
<1> SUFFICES ASSUME Init PROVE IInv
  OBVIOUS
<1>1. TypeOK
  BY InitTypeOK
<1>2. QED
  BY <1>1 DEF Init, IInv, NoDuplicates, Frontier, RangeOf

LEMMA NextIInv == IInv /\ [Next]_vars => IInv'
<1> SUFFICES ASSUME IInv, [Next]_vars PROVE IInv'
  OBVIOUS
<1>0. TypeOK /\ TypeOK'
  BY NextTypeOK DEF IInv
<1>1. CASE Pop
  <2> DEFINE h == Head(to_process)
             rp == ResolveName(h)
  <2>1. to_process # <<>> /\ h \in Names /\ pc = "loop"
    BY <1>1 DEF Pop, inputs, IInv, TypeOK
  <2>2. rp \in Pkg \cup {None}
    BY <2>1, ResolveNameType DEF IInv
  <2>3. RangeOf(to_process) = {h} \cup RangeOf(Tail(to_process))
    BY <2>1, RangeOfTail DEF IInv, TypeOK
  <2>4. h \in Pkg => rp = h
    BY DEF ResolveName
  <2>5. CASE rp = None
    <3>1. rp \notin RangeOf(resolved)
      BY <2>5, ConstAssumption DEF IInv, TypeOK, RangeOf, Names
    <3>2. pc' = "notfound" /\ UNCHANGED <<to_process, resolved, current, di, depends>>
      BY <1>1, <2>5, <3>1 DEF Pop, inputs
    <3>3. QED
      BY <3>2, <2>1, <1>0 DEF IInv, NoDuplicates, Frontier
  <2>6. CASE rp \in RangeOf(resolved)
    <3>0. rp # None
      BY <2>6, ConstAssumption DEF IInv, TypeOK, RangeOf, Names
    <3>1. UNCHANGED <<resolved, current, di, pc, depends>> /\ to_process' = Tail(to_process)
      BY <1>1, <2>6, <3>0 DEF Pop, inputs
    <3>2. Frontier'
      BY <3>1, <2>1, <2>3, <2>4, <2>6 DEF IInv, Frontier
    <3>3. QED
      BY <3>1, <3>2, <2>1, <1>0 DEF IInv, NoDuplicates
  <2>7. CASE rp # None /\ rp \notin RangeOf(resolved)
    <3>1. /\ to_process' = Tail(to_process)
          /\ resolved' = Append(resolved, rp)
          /\ current' = rp /\ di' = 1 /\ pc' = "deps"
          /\ depends' = depends
      BY <1>1, <2>7 DEF Pop, inputs
    <3>2. RangeOf(resolved') = RangeOf(resolved) \cup {rp}
      BY <3>1, RangeOfAppend DEF IInv, TypeOK
    <3>3. NoDuplicates'
      BY <3>1, <2>2, <2>7 DEF IInv, TypeOK, NoDuplicates, RangeOf
    <3>4. Frontier'
      <4> SUFFICES ASSUME NEW p \in RangeOf(resolved'), NEW i \in DOMAIN depends[p],
                          depends[p][i] \in Pkg,
                          depends[p][i] \notin RangeOf(resolved'),
                          depends[p][i] \notin RangeOf(to_process'),
                          ~(p = current' /\ i >= di')
                   PROVE  FALSE
        BY <3>1 DEF Frontier
      <4>1. p \in RangeOf(resolved) /\ p # rp
        <5>1. p \in Pkg
          <6>1. RangeOf(resolved) \subseteq Pkg
            BY RangeOfSeq DEF IInv, TypeOK
          <6>2. QED
            BY <6>1, <3>2, <2>2, <2>7
        <5>2. i \in Nat /\ i >= 1
          BY <5>1 DEF IInv, TypeOK
        <5>3. QED
          BY <3>1, <3>2, <5>2
      <4>2. depends[p][i] \notin RangeOf(resolved) /\ depends[p][i] # h
                /\ depends[p][i] \notin RangeOf(Tail(to_process))
        BY <3>1, <3>2, <2>4
      <4>3. QED
        BY <4>1, <4>2, <2>1, <2>3 DEF IInv, Frontier
    <3>5. QED
      BY <3>1, <3>2, <3>3, <3>4, <1>0 DEF IInv
  <2>8. QED
    BY <2>2, <2>5, <2>6, <2>7
<1>2. CASE VisitDep
  <2> DEFINE dep == depends[current][di]
  <2>1. pc = "deps" /\ current \in RangeOf(resolved) /\ current \in Pkg
          /\ di \in 1..Len(depends[current])
    <3>1. pc = "deps" /\ di <= Len(depends[current])
      BY <1>2 DEF VisitDep
    <3>2. current \in RangeOf(resolved)
      BY <3>1 DEF IInv
    <3>3. current \in Pkg
      BY <3>2 DEF IInv, TypeOK, RangeOf
    <3>4. QED
      BY <3>1, <3>2, <3>3 DEF IInv, TypeOK
  <2>2. /\ UNCHANGED <<resolved, current, pc, depends>> /\ di' = di + 1
        /\ to_process' = IF /\ dep \notin RangeOf(resolved)
                            /\ dep \notin RangeOf(to_process)
                            /\ dep \in Pkg
                         THEN Append(to_process, dep)
                         ELSE to_process
    BY <1>2 DEF VisitDep, inputs
  <2>5. /\ RangeOf(to_process) \subseteq RangeOf(to_process')
        /\ dep \in Pkg /\ dep \notin RangeOf(resolved) => dep \in RangeOf(to_process')
    <3>1. RangeOf(Append(to_process, dep)) = RangeOf(to_process) \cup {dep}
      BY RangeOfAppend DEF IInv, TypeOK
    <3>2. QED
      BY <2>2, <3>1
  <2>3. Frontier'
    <3> SUFFICES ASSUME NEW p \in RangeOf(resolved), NEW i \in DOMAIN depends[p],
                        depends[p][i] \in Pkg,
                        depends[p][i] \notin RangeOf(resolved),
                        depends[p][i] \notin RangeOf(to_process'),
                        ~(p = current /\ i >= di + 1)
                 PROVE  FALSE
      BY <2>1, <2>2 DEF Frontier
    <3>1. i \in Nat
      BY DEF IInv, TypeOK, RangeOf
    <3>2. CASE p = current /\ i = di
      BY <3>2, <2>5
    <3>3. CASE ~(p = current /\ i = di)
      <4>1. ~(p = current /\ i >= di)
        BY <3>3, <3>1, <2>1
      <4>2. QED
        BY <4>1, <2>5, <2>1 DEF IInv, Frontier
    <3>4. QED
      BY <3>2, <3>3
  <2>4. QED
    BY <2>1, <2>2, <2>3, <1>0 DEF IInv, NoDuplicates
<1>3. CASE DepsDone
  <2>1. /\ UNCHANGED <<resolved, current, di, to_process, depends>>
        /\ pc' = "loop" /\ di > Len(depends[current])
    BY <1>3 DEF DepsDone, inputs
  <2>2. Frontier'
    <3> SUFFICES ASSUME NEW p \in RangeOf(resolved), NEW i \in DOMAIN depends[p],
                        depends[p][i] \in Pkg,
                        depends[p][i] \notin RangeOf(resolved),
                        depends[p][i] \notin RangeOf(to_process)
                 PROVE  FALSE
      BY <2>1 DEF Frontier
    <3>1. p = current /\ i >= di
      BY DEF IInv, Frontier
    <3>2. p \in Pkg /\ i \in 1..Len(depends[p])
      BY DEF IInv, TypeOK, RangeOf
    <3>3. QED
      BY <3>1, <3>2, <2>1, <1>0 DEF IInv, TypeOK
  <2>3. QED
    BY <2>1, <2>2, <1>0 DEF IInv, NoDuplicates
<1>4. CASE Finish
  <2>1. UNCHANGED <<resolved, current, di, to_process, depends>> /\ pc' = "done"
          /\ pc = "loop" /\ to_process = <<>>
    BY <1>4 DEF Finish, inputs
  <2>2. QED
    BY <2>1, <1>0 DEF IInv, NoDuplicates, Frontier
<1>5. CASE UNCHANGED vars
  BY <1>5, <1>0 DEF vars, IInv, NoDuplicates, Frontier
<1>6. QED
  BY <1>1, <1>2, <1>3, <1>4, <1>5 DEF Next

(* The resolved list has no duplicates and, when resolve_dependencies     *)
(* returns, is closed under the Depends edges the code follows.            *)
THEOREM ResolverSafety == Spec => [](NoDuplicates /\ ClosedOnReturn)
<1>1. IInv => NoDuplicates /\ ClosedOnReturn
  <2> SUFFICES ASSUME IInv, pc = "done", NEW p \in RangeOf(resolved),
                      NEW d \in Deps(p)
               PROVE  d \in RangeOf(resolved)
    BY DEF IInv, ClosedOnReturn
  <2>1. PICK i \in DOMAIN depends[p] : depends[p][i] = d
    BY DEF Deps, RangeOf
  <2>2. d \in Pkg /\ to_process = <<>>
    BY DEF Deps, IInv
  <2>3. QED
    BY <2>1, <2>2 DEF IInv, Frontier, RangeOf
<1>2. QED
  BY <1>1, InitIInv, NextIInv, PTL DEF Spec

(* The list resolve_dependencies builds never names a package twice, for  *)
(* every index, every request list and every bound: the membership test  *)
(* before each append (install-debs.py, line 148) is never bypassed.      *)
THEOREM NoDuplicatesHolds == Spec => []NoDuplicates
BY ResolverSafety, PTL

=============================================================================
