------------------------- MODULE ResolverRefinement -------------------------
(***************************************************************************)
(* Proof that the walk of resolve_dependencies (module Resolver)           *)
(* implements its one-step promise (module ResolverAbstract) under the    *)
(* refinement mapping Abs of module Resolver, for every set of names.     *)
(***************************************************************************)
EXTENDS ResolverProofs

(* A set of packages that holds the roots and is closed under Depends.    *)
ClosedSuperset(T) ==
    T \subseteq Pkg /\ Abs!Roots \subseteq T /\ Abs!DependsClosed(T)

(* Every queued name is a package or one of the requested names: the      *)
(* inner loop queues packages only (line 155).                             *)
Queued == \A n \in RangeOf(to_process) : n \in Pkg \/ n \in RangeOf(requested)

(* A requested name has either been resolved or is still queued.          *)
RequestedSeen ==
    \A i \in DOMAIN requested :
        ResolveName(requested[i]) \in RangeOf(resolved) \/ requested[i] \in RangeOf(to_process)

(* Nothing outside the closure is ever resolved or queued.                *)
Least ==
    \A T \in SUBSET Pkg : ClosedSuperset(T) =>
        /\ RangeOf(resolved) \subseteq T
        /\ RangeOf(to_process) \cap Pkg \subseteq T

RInv == IInv /\ Queued /\ RequestedSeen /\ Least

LEMMA StandsForResolveName == \A n : Abs!StandsFor(n) = ResolveName(n)
  BY DEF ResolveName, Abs!StandsFor

LEMMA RootsAreResolved ==
    ASSUME NEW i \in DOMAIN requested
    PROVE  ResolveName(requested[i]) \in Abs!Roots
  BY StandsForResolveName DEF Abs!Roots

LEMMA InitRInv == Init => RInv
<1> SUFFICES ASSUME Init PROVE RInv
  OBVIOUS
<1>1. IInv
  BY InitIInv
<1>2. to_process = requested /\ resolved = <<>>
  BY DEF Init
<1>3. RequestedSeen
  BY <1>2 DEF RequestedSeen, RangeOf
<1>4. Least
  <2> SUFFICES ASSUME NEW T \in SUBSET Pkg, ClosedSuperset(T), NEW n \in RangeOf(requested) \cap Pkg
               PROVE  n \in T
    BY <1>2 DEF Least, RangeOf
  <2>1. PICK i \in DOMAIN requested : requested[i] = n
    BY DEF RangeOf
  <2>2. ResolveName(n) = n
    BY DEF ResolveName
  <2>3. QED
    BY <2>1, <2>2, RootsAreResolved DEF ClosedSuperset
<1>5. QED
  BY <1>1, <1>2, <1>3, <1>4 DEF RInv, Queued

(* A step that leaves the inputs, the queue and the list alone keeps the  *)
(* three added conjuncts.                                                  *)
LEMMA FrameRInv ==
    ASSUME RInv, IInv', UNCHANGED <<depends, aliases, requested, to_process, resolved>>
    PROVE  RInv'
<1>1. Queued' /\ RequestedSeen'
  BY DEF RInv, Queued, RequestedSeen, ResolveName
<1>2. \A T : ClosedSuperset(T)' = ClosedSuperset(T)
  BY DEF ClosedSuperset, Abs!Roots, Abs!DependsClosed, Abs!Elems, Abs!StandsFor
<1>3. Least'
  BY <1>2 DEF RInv, Least
<1>4. QED
  BY <1>1, <1>3 DEF RInv

LEMMA NextRInv == RInv /\ [Next]_vars => RInv'
<1> SUFFICES ASSUME RInv, [Next]_vars PROVE RInv'
  OBVIOUS
<1>0. IInv' /\ TypeOK /\ TypeOK'
  BY NextIInv, NextTypeOK DEF RInv, IInv
<1>1. CASE Pop
  <2> DEFINE h == Head(to_process)
             rp == ResolveName(h)
  <2>1. to_process # <<>> /\ h \in Names /\ pc = "loop"
          /\ UNCHANGED <<depends, aliases, requested>>
    BY <1>1, <1>0 DEF Pop, inputs, TypeOK
  <2>2. RangeOf(to_process) = {h} \cup RangeOf(Tail(to_process))
    BY <2>1, <1>0, RangeOfTail DEF TypeOK
  <2>3. h \in Pkg => rp = h
    BY DEF ResolveName
  <2>4. h \notin Pkg => h \in RangeOf(requested)
    BY <2>2 DEF RInv, Queued
  <2>5. \A T : ClosedSuperset(T)' = ClosedSuperset(T)
    BY <2>1 DEF ClosedSuperset, Abs!Roots, Abs!DependsClosed, Abs!Elems, Abs!StandsFor
  <2>6. CASE rp = None
    <3>0. rp \notin RangeOf(resolved)
      BY <2>6, <1>0, ConstAssumption DEF TypeOK, RangeOf, Names
    <3>1. UNCHANGED <<to_process, resolved>>
      BY <1>1, <2>6, <3>0 DEF Pop
    <3>2. QED
      BY <3>1, <2>1, <1>0, FrameRInv
  <2>7. CASE rp # None
    <3>1. to_process' = Tail(to_process)
      BY <1>1, <2>7 DEF Pop
    <3>2. RangeOf(resolved') = RangeOf(resolved) \cup {rp}
      <4>1. CASE rp \in RangeOf(resolved)
        BY <1>1, <2>7, <4>1 DEF Pop
      <4>2. CASE rp \notin RangeOf(resolved)
        <5>1. resolved' = Append(resolved, rp)
          BY <1>1, <2>7, <4>2 DEF Pop
        <5>2. QED
          BY <5>1, <1>0, RangeOfAppend DEF TypeOK
      <4>3. QED
        BY <4>1, <4>2
    <3>3. Queued'
      BY <3>1, <2>1, <2>2 DEF RInv, Queued
    <3>4. RequestedSeen'
      BY <3>1, <3>2, <2>1, <2>2 DEF RInv, RequestedSeen, ResolveName
    <3>5. Least'
      <4> SUFFICES ASSUME NEW T \in SUBSET Pkg, ClosedSuperset(T)
                   PROVE  /\ RangeOf(resolved') \subseteq T
                          /\ RangeOf(to_process') \cap Pkg \subseteq T
        BY <2>5 DEF Least
      <4>1. rp \in T
        <5>1. CASE h \in Pkg
          BY <5>1, <2>2, <2>3 DEF RInv, Least
        <5>2. CASE h \notin Pkg
          <6>1. PICK i \in DOMAIN requested : requested[i] = h
            BY <5>2, <2>4 DEF RangeOf
          <6>2. QED
            BY <6>1, RootsAreResolved DEF ClosedSuperset
        <5>3. QED
          BY <5>1, <5>2
      <4>2. QED
        BY <4>1, <3>1, <3>2, <2>2 DEF RInv, Least
    <3>6. QED
      BY <3>3, <3>4, <3>5, <1>0 DEF RInv
  <2>8. QED
    BY <2>6, <2>7
<1>2. CASE VisitDep
  <2> DEFINE dep == depends[current][di]
  <2>1. current \in RangeOf(resolved) /\ current \in Pkg /\ di \in 1..Len(depends[current])
    BY <1>2 DEF VisitDep, RInv, IInv, TypeOK, RangeOf
  <2>2. UNCHANGED <<depends, aliases, requested, resolved>>
    BY <1>2 DEF VisitDep, inputs
  <2>3. \/ RangeOf(to_process') = RangeOf(to_process)
        \/ RangeOf(to_process') = RangeOf(to_process) \cup {dep} /\ dep \in Pkg
    <3>1. RangeOf(Append(to_process, dep)) = RangeOf(to_process) \cup {dep}
      BY <1>0, RangeOfAppend DEF TypeOK
    <3>2. QED
      BY <1>2, <3>1 DEF VisitDep
  <2>4. \A T : ClosedSuperset(T)' = ClosedSuperset(T)
    BY <2>2 DEF ClosedSuperset, Abs!Roots, Abs!DependsClosed, Abs!Elems, Abs!StandsFor
  <2>5. Queued' /\ RequestedSeen'
    BY <2>2, <2>3 DEF RInv, Queued, RequestedSeen, ResolveName
  <2>6. Least'
    <3> SUFFICES ASSUME NEW T \in SUBSET Pkg, ClosedSuperset(T)
                 PROVE  /\ RangeOf(resolved') \subseteq T
                        /\ RangeOf(to_process') \cap Pkg \subseteq T
      BY <2>4 DEF Least
    <3>1. current \in T
      BY <2>1 DEF RInv, Least
    <3>2. dep \in Pkg => dep \in T
      BY <3>1, <2>1 DEF ClosedSuperset, Abs!DependsClosed, Abs!Elems
    <3>3. QED
      BY <3>2, <2>2, <2>3 DEF RInv, Least
  <2>7. QED
    BY <2>5, <2>6, <1>0 DEF RInv
<1>3. CASE DepsDone
  BY <1>3, <1>0, FrameRInv DEF DepsDone, inputs
<1>4. CASE Finish
  BY <1>4, <1>0, FrameRInv DEF Finish, inputs
<1>5. CASE UNCHANGED vars
  BY <1>5, <1>0, FrameRInv DEF vars
<1>6. QED
  BY <1>1, <1>2, <1>3, <1>4, <1>5 DEF Next

(* The initial states of the walk map to initial states of the promise.   *)
LEMMA InitRefines == Init => Abs!Init
<1> SUFFICES ASSUME Init PROVE Abs!Init
  OBVIOUS
<1>1. TypeOK
  BY InitTypeOK
<1>2. pc = "loop"
  BY DEF Init
<1>3. QED
  BY <1>1, <1>2 DEF Abs!Init, TypeOK, Names

(* With to_process empty, resolved holds the roots and is closed under    *)
(* the Depends entries that are packages.                                 *)
LEMMA ResolvedClosed ==
    ASSUME RInv, to_process = <<>>, pc = "loop"
    PROVE  ClosedSuperset(RangeOf(resolved))
<1>1. RangeOf(resolved) \subseteq Pkg
  BY RangeOfSeq DEF RInv, IInv, TypeOK
<1>2. Abs!Roots \subseteq RangeOf(resolved)
  <2> SUFFICES ASSUME NEW i \in DOMAIN requested
               PROVE  ResolveName(requested[i]) \in RangeOf(resolved)
    BY StandsForResolveName DEF Abs!Roots
  <2>1. RangeOf(to_process) = {}
    BY DEF RangeOf
  <2>2. QED
    BY <2>1 DEF RInv, RequestedSeen
<1>3. Abs!DependsClosed(RangeOf(resolved))
  <2> SUFFICES ASSUME NEW p \in RangeOf(resolved), NEW i \in DOMAIN depends[p],
                      depends[p][i] \in Pkg
               PROVE  depends[p][i] \in RangeOf(resolved)
    BY DEF Abs!DependsClosed, Abs!Elems
  <2>1. RangeOf(to_process) = {}
    BY DEF RangeOf
  <2>2. QED
    BY <2>1 DEF RInv, IInv, Frontier
<1>4. QED
  BY <1>1, <1>2, <1>3 DEF ClosedSuperset

(* Every step of the walk is a step of the promise or leaves the mapped   *)
(* state alone.                                                            *)
LEMMA NextRefines ==
    ASSUME RInv, [Next]_vars
    PROVE  [Abs!Next]_Abs!absVars
<1>0. TypeOK
  BY DEF RInv, IInv
<1>1. CASE Pop
  <2> DEFINE h == Head(to_process)
             rp == ResolveName(h)
  <2>1. to_process # <<>> /\ h \in Names /\ pc = "loop"
          /\ UNCHANGED <<depends, aliases, requested>>
    BY <1>1, <1>0 DEF Pop, inputs, TypeOK
  <2>2. CASE rp = None
    <3>1. h \notin Pkg
      BY <2>1, <2>2, ConstAssumption DEF ResolveName
    <3>2. h \in RangeOf(requested)
      BY <2>1, <3>1 DEF RInv, Queued, RangeOf
    <3>3. None \in Abs!Roots
      BY <3>2, <2>2, RootsAreResolved DEF RangeOf
    <3>4. rp \notin RangeOf(resolved)
      BY <2>2, <1>0, ConstAssumption DEF TypeOK, RangeOf, Names
    <3>5. pc' = "notfound" /\ UNCHANGED resolved
      BY <1>1, <2>2, <3>4 DEF Pop
    <3>6. QED
      BY <2>1, <3>3, <3>5 DEF Abs!Next, Abs!NotFound
  <2>3. CASE rp # None
    <3>1. pc' \in {"loop", "deps"}
      BY <1>1, <2>3 DEF Pop
    <3>2. QED
      BY <2>1, <3>1 DEF Abs!absVars
  <2>4. QED
    BY <2>2, <2>3
<1>2. CASE VisitDep
  BY <1>2 DEF VisitDep, inputs, Abs!absVars
<1>3. CASE DepsDone
  BY <1>3 DEF DepsDone, inputs, Abs!absVars
<1>4. CASE Finish
  <2>1. /\ pc = "loop" /\ to_process = <<>> /\ pc' = "done"
        /\ UNCHANGED <<depends, aliases, requested, resolved>>
    BY <1>4 DEF Finish, inputs
  <2>2. ClosedSuperset(RangeOf(resolved))
    BY <2>1, ResolvedClosed
  <2>3. None \notin Abs!Roots
    <3>1. None \notin Pkg
      BY ConstAssumption DEF Names
    <3>2. QED
      BY <2>2, <3>1 DEF ClosedSuperset
  <2>4. RangeOf(resolved) = Abs!Closure
    <3>1. RangeOf(resolved) \subseteq Abs!Closure
      <4> SUFFICES ASSUME NEW p \in RangeOf(resolved),
                          NEW T \in SUBSET Pkg, Abs!Roots \subseteq T, Abs!DependsClosed(T)
                   PROVE  p \in T
        BY <2>2 DEF Abs!Closure, ClosedSuperset
      <4>1. QED
        BY DEF RInv, Least, ClosedSuperset
    <3>2. Abs!Closure \subseteq RangeOf(resolved)
      BY <2>2 DEF Abs!Closure, ClosedSuperset
    <3>3. QED
      BY <3>1, <3>2
  <2>5. QED
    BY <2>1, <2>3, <2>4 DEF Abs!Next, Abs!Return, Abs!absInputs
<1>5. CASE UNCHANGED vars
  BY <1>5 DEF vars, Abs!absVars
<1>6. QED
  BY <1>1, <1>2, <1>3, <1>4, <1>5 DEF Next

(* resolve_dependencies keeps its one-step promise: every behaviour of    *)
(* the while loop of lines 140-158 either stops with PackageNotFound      *)
(* exactly when a requested name stands for nothing, or returns exactly   *)
(* the least Depends-closed set of packages holding the requested ones.   *)
THEOREM Refinement == Spec => ImplementsAbstract
<1>1. Spec => []RInv
  BY InitRInv, NextRInv, PTL DEF Spec
<1>2. QED
  BY <1>1, InitRefines, NextRefines, PTL DEF Spec, ImplementsAbstract, Abs!SafetySpec
=============================================================================
