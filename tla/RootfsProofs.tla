---------------------------- MODULE RootfsProofs ----------------------------
(***************************************************************************)
(* Proofs about the composition of install_packages and finalize_setup    *)
(* (module Rootfs), for every set of packages, paths and library names.   *)
(***************************************************************************)
EXTENDS Rootfs, TLAPS

FinPc == {"idle", "start", "copy", "rmtree", "symlink", "done", "failed"}

(* The finalize variables keep their types.                                *)
FinTypeOK ==
    /\ libItems0 \subseteq LibName
    /\ libItems \subseteq LibName
    /\ todo \subseteq LibName
    /\ usr \in [LibName -> {"none", "usr", "lib"}]
    /\ pc \in FinPc

(* The inductive invariant.  Every step of install_packages waits for      *)
(* phase "download" or "extract", so once finalize_setup has started the  *)
(* tree is the one install_packages returned and /lib, usr/lib describe   *)
(* it: /lib listed the names shipped under lib/, an entry of usr/lib came  *)
(* from an archive (tag "usr") or from /lib (tag "lib"), and a name       *)
(* shipped under usr/lib/ is never without a file.  The remaining          *)
(* conjuncts are the Finalizer's own invariant (FinalizerProofs!IInv):    *)
(* rmtree starts after every listed file was copied.                      *)
IInv ==
    /\ FinTypeOK
    /\ pc # "idle" =>
         /\ phase = "done"
         /\ libItems0 = {n \in LibName : Shipped("lib", n)}
         /\ \A n \in LibName : usr[n] = "lib" => Shipped("lib", n)
         /\ \A n \in LibName : usr[n] = "usr" => Shipped("usr", n)
         /\ \A n \in LibName : Shipped("usr", n) => usr[n] # "none"
    /\ libItems \subseteq libItems0
    /\ todo \subseteq libItems
    /\ pc # "copy" => todo = {}
    /\ \A n \in libItems0 \ libItems : usr[n] = "lib"
    /\ pc = "copy" => lib = "dir" /\ \A n \in libItems \ todo : usr[n] = "lib"
    /\ pc = "rmtree" => lib = "dir" /\ \A n \in libItems : usr[n] = "lib"
    /\ lib # "dir" => libItems = {}
    /\ pc \in {"symlink", "done"} => lib # "dir"

(* Every step of install_packages waits for the download or extraction    *)
(* phase, so none is taken once install_packages has returned.            *)
LEMMA InstallWaitsForPhase == Next => phase \in {"download", "extract"}
BY DEF Next, Task, Get, Read, Sleep, Gathered, ExtractNext, ExtractDone

LEMMA InitIInv == RootfsInit => IInv
BY DEF RootfsInit, IInv, FinTypeOK, FinPc

LEMMA NextIInv == IInv /\ [RootfsNext]_allVars => IInv'
<1> SUFFICES ASSUME IInv, [RootfsNext]_allVars PROVE IInv'
  OBVIOUS
<1>1. CASE InstallStep
  <2>1. pc = "idle"
    BY <1>1, InstallWaitsForPhase DEF InstallStep, IInv
  <2>2. UNCHANGED finVars
    BY <1>1 DEF InstallStep
  <2>3. QED
    BY <2>1, <2>2 DEF IInv, FinTypeOK, finVars
<1>2. CASE BeginFinalize
  <2>1. /\ phase = "done" /\ pc = "idle" /\ todo = {}
        /\ UNCHANGED <<vars, todo>>
    BY <1>2 DEF BeginFinalize, IInv
  <2>2. \A d \in {"lib", "usr"}, n \in LibName : Shipped(d, n)' = Shipped(d, n)
    BY <2>1 DEF vars, Shipped
  <2>3. FinTypeOK'
    BY <1>2, <2>1 DEF BeginFinalize, IInv, FinTypeOK, FinPc
  <2>4. /\ libItems0' = {n \in LibName : Shipped("lib", n)'}
        /\ \A n \in LibName : usr'[n] = "lib" => Shipped("lib", n)'
        /\ \A n \in LibName : usr'[n] = "usr" => Shipped("usr", n)'
        /\ \A n \in LibName : Shipped("usr", n)' => usr'[n] # "none"
    BY <1>2, <2>2 DEF BeginFinalize
  <2>5. /\ phase' = "done" /\ pc' = "start" /\ todo' = {}
        /\ libItems' = libItems0'
        /\ lib' # "dir" => libItems' = {}
    BY <1>2, <2>1 DEF BeginFinalize, vars
  <2>6. QED
    BY <2>3, <2>4, <2>5 DEF IInv
<1>3. CASE FinalizeStep
  <2>1. pc # "idle" /\ UNCHANGED vars
    BY <1>3 DEF FinalizeStep
  <2>2. \A d \in {"lib", "usr"}, n \in LibName : Shipped(d, n)' = Shipped(d, n)
    BY <2>1 DEF vars, Shipped
  <2>3. phase' = "done"
    BY <2>1 DEF vars, IInv
  <2> USE <2>1, <2>2, <2>3 DEF IInv, FinTypeOK, FinPc
  <2>4. CASE F!Start
    BY <2>4 DEF F!Start, F!LibExists
  <2>5. CASE F!CopyDone
    BY <2>5 DEF F!CopyDone
  <2>6. CASE F!RemoveDir
    BY <2>6 DEF F!RemoveDir
  <2>7. CASE F!Symlink
    BY <2>7 DEF F!Symlink
  <2>8. ASSUME NEW n \in LibName, F!CopyItem(n) PROVE IInv'
    BY <2>8 DEF F!CopyItem
  <2>9. ASSUME NEW n \in LibName, F!RemoveItem(n) PROVE IInv'
    BY <2>9 DEF F!RemoveItem
  <2>10. QED
    BY <1>3, <2>4, <2>5, <2>6, <2>7, <2>8, <2>9 DEF FinalizeStep
<1>4. CASE UNCHANGED allVars
  BY <1>4 DEF allVars, vars, finVars, IInv, FinTypeOK, Shipped
<1>5. QED
  BY <1>1, <1>2, <1>3, <1>4 DEF RootfsNext

(* Spec sections 4.6 and 4.7: for every set of packages, archives and     *)
(* library names, once finalize_setup returns over the tree              *)
(* install_packages left, every library an extracted archive shipped      *)
(* under lib/ or usr/lib/ is in /usr/lib with the content of one of the   *)
(* archives that shipped it: the copy loop of lines 284-290 runs before   *)
(* the rmtree of line 292, and nothing writes the tree after line 331.    *)
THEOREM LibFilesSurvive == RootfsSpec => []LibFilesKept
<1>1. IInv => LibFilesKept
  <2> SUFFICES ASSUME IInv, pc = "done", NEW n \in LibName,
                      Shipped("lib", n) \/ Shipped("usr", n)
               PROVE  LibOwner(n) \in {tree[<<"lib", n>>], tree[<<"usr", n>>]} \ {NoPkg}
    BY DEF LibFilesKept
  <2>1. libItems = {}
    BY DEF IInv
  <2>2. CASE Shipped("lib", n)
    <3>1. usr[n] = "lib"
      BY <2>1, <2>2 DEF IInv
    <3>2. QED
      BY <2>2, <3>1 DEF LibOwner, Shipped
  <2>3. CASE ~Shipped("lib", n) /\ Shipped("usr", n)
    <3>1. usr[n] = "usr"
      BY <2>3 DEF IInv, FinTypeOK
    <3>2. QED
      BY <2>3, <3>1 DEF LibOwner, Shipped
  <2>4. QED
    BY <2>2, <2>3
<1>2. QED
  BY <1>1, InitIInv, NextIInv, PTL DEF RootfsSpec

=============================================================================
