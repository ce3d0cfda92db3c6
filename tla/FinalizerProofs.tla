--------------------------- MODULE FinalizerProofs ---------------------------
(***************************************************************************)
(* Proofs about finalize_setup (module Finalizer), for every set of files *)
(* and every bound on the runs, kills and reruns included.                *)
(***************************************************************************)
EXTENDS Finalizer, TLAPS

(* The inductive invariant.  Files leave /lib only through rmtree, which  *)
(* starts after every listed file was copied; a killed copy loop lists    *)
(* /lib again on the next run.  So a file that is gone from /lib, and     *)
(* while rmtree runs every file still in it, has its copy in usr/lib.     *)
IInv ==
    /\ TypeOK
    /\ libItems \subseteq libItems0
    /\ todo \subseteq libItems
    /\ pc # "copy" => todo = {}
    /\ \A i \in libItems0 \ libItems : usr[i] = "lib"
    /\ pc = "copy" => lib = "dir" /\ \A i \in libItems \ todo : usr[i] = "lib"
    /\ pc = "rmtree" => lib = "dir" /\ \A i \in libItems : usr[i] = "lib"
    /\ lib # "dir" => libItems = {}
    /\ pc \in {"symlink", "done"} => lib # "dir"
    /\ pc = "done" => lib = "link" /\ target = LinkTarget(rootKind)

LEMMA InitIInv == Init => IInv
<1> SUFFICES ASSUME Init PROVE IInv
  OBVIOUS
<1>1. usr \in [Item -> {"none", "usr", "lib"}]
  <2>1. CASE usrExists
    BY <2>1 DEF Init
  <2>2. CASE ~usrExists
    BY <2>2 DEF Init
  <2>3. QED
    BY <2>1, <2>2
<1>2. libItems0 \subseteq Item /\ libItems = libItems0
  BY DEF Init
<1>3. lib # "dir" => libItems = {}
  BY DEF Init
<1>4. /\ rootKind \in RootKinds /\ lib \in {"absent", "dir", "link"}
      /\ target = "usr" /\ usrExists \in BOOLEAN /\ todo = {}
      /\ pc = "start" /\ runs = 1
  BY DEF Init
<1>5. TypeOK
  <2>1. runs \in 1..MaxRuns
    BY <1>4, FinalizerAssumption
  <2>2. libItems \subseteq Item /\ todo \subseteq Item
    BY <1>2, <1>4
  <2>3. QED
    BY <1>1, <1>2, <1>4, <2>1, <2>2 DEF TypeOK
<1>6. QED
  BY <1>2, <1>3, <1>4, <1>5 DEF IInv

LEMMA NextIInv == IInv /\ [Next]_vars => IInv'
<1> SUFFICES ASSUME IInv, [Next]_vars PROVE IInv'
  OBVIOUS
<1> USE FinalizerAssumption DEF IInv, TypeOK
<1>1. CASE Start
  BY <1>1 DEF Start, LibExists
<1>2. CASE CopyDone
  BY <1>2 DEF CopyDone
<1>3. CASE RemoveDir
  BY <1>3 DEF RemoveDir
<1>4. CASE Symlink
  BY <1>4 DEF Symlink, LinkTarget
<1>5. CASE Rerun
  BY <1>5 DEF Rerun
<1>6. ASSUME NEW i \in Item, CopyItem(i) PROVE IInv'
  BY <1>6 DEF CopyItem
<1>7. ASSUME NEW i \in Item, RemoveItem(i) PROVE IInv'
  <2>1. pc = "rmtree" /\ lib = "dir" /\ i \in libItems /\ usr[i] = "lib"
    BY <1>7 DEF RemoveItem
  <2>2. libItems' = libItems \ {i} /\ UNCHANGED <<rootKind, libItems0, lib, target, usrExists, usr, todo, pc, runs>>
    BY <1>7 DEF RemoveItem
  <2>3. \A j \in libItems0 \ libItems' : usr'[j] = "lib"
    BY <2>1, <2>2
  <2>4. TypeOK'
    BY <2>2
  <2>5. libItems' \subseteq libItems0 /\ todo' \subseteq libItems'
    <3>1. todo = {}
      BY <2>1 DEF IInv
    <3>2. QED
      BY <2>2, <3>1
  <2>6. QED
    BY <2>1, <2>2, <2>3, <2>4, <2>5
<1>8. CASE UNCHANGED vars
  BY <1>8 DEF vars
<1>9. QED
  BY <1>1, <1>2, <1>3, <1>4, <1>5, <1>6, <1>7, <1>8 DEF Next

(* Every variable keeps its type through kills and reruns; in particular  *)
(* a run never starts beyond the bound on the runs.                       *)
THEOREM TypeCorrect == Spec => []TypeOK
<1>1. IInv => TypeOK
  BY DEF IInv
<1>2. QED
  BY InitIInv, NextIInv, <1>1, PTL DEF Spec

(* Spec section 4.7 and the finalizer scenario of section 8: whenever a   *)
(* run of finalize_setup returns, every file /lib held after extraction   *)
(* is in usr/lib with /lib's content, however often earlier runs were     *)
(* killed between the copies (lines 284-290) and rmtree (line 292).       *)
THEOREM NoFileLost == Spec => []NoLibFileLost
<1>1. IInv => NoLibFileLost
  BY DEF IInv, NoLibFileLost
<1>2. QED
  BY InitIInv, NextIInv, <1>1, PTL DEF Spec

(* rmtree (line 292) never unlinks a file of /lib whose copy is not in     *)
(* usr/lib: a step that removes a file from /lib is an unlink during      *)
(* rmtree, and rmtree starts only after the copy loop (lines 284-290) has *)
(* copied every file still listed, in this run or a killed earlier one.   *)
THEOREM RemovesCopiedOnly == Spec => RemovesOnlyCopied
<1>1. IInv /\ [Next]_vars => [\A i \in libItems \ libItems' : usr'[i] = "lib"]_vars
  <2> SUFFICES ASSUME IInv, [Next]_vars, NEW i \in libItems \ libItems'
               PROVE  usr'[i] = "lib"
    OBVIOUS
  <2>1. PICK j \in Item : RemoveItem(j)
    BY DEF Next, Start, CopyDone, RemoveDir, Symlink, Rerun, CopyItem, vars
  <2>2. i = j /\ pc = "rmtree" /\ usr' = usr
    BY <2>1 DEF RemoveItem
  <2>3. QED
    BY <2>2 DEF IInv
<1>2. QED
  BY <1>1, InitIInv, NextIInv, PTL DEF Spec, RemovesOnlyCopied

=============================================================================
