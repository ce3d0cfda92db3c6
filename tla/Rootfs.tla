------------------------------- MODULE Rootfs -------------------------------
(***************************************************************************)
(* The end of the main block of eng/common/cross/install-debs.py (lines    *)
(* 331-334): install_packages (module Install) fills the rootfs, the       *)
(* scratch directory is removed, and finalize_setup (module Finalizer)     *)
(* folds /lib into /usr/lib.  The two components meet in the tree: the     *)
(* paths lib/n and usr/lib/n that the archives ship are what finalize_setup *)
(* finds under /lib and /usr/lib.  A path of the tree is a pair of a      *)
(* directory ("lib" or "usr", for usr/lib) and a library name.             *)
(*                                                                         *)
(* A kill of finalize_setup followed by a rerun restarts the whole script; *)
(* that case is the Finalizer's own (its Rerun action) and is left out     *)
(* here, so the composition takes every Finalizer step but Rerun.          *)
(***************************************************************************)
EXTENDS Install

CONSTANT LibName   \* the names the archives may ship under lib/ and usr/lib/

ASSUME RootfsAssumption == {"lib", "usr"} \X LibName \subseteq Path

VARIABLES rootKind, libItems0, lib, target, libItems, usrExists, usr, todo, pc, runs

finVars == <<rootKind, libItems0, lib, target, libItems, usrExists, usr, todo, pc, runs>>
allVars == <<vars, finVars>>

(* finalize_setup over an absolute --rootfsdir, run once.                  *)
F == INSTANCE Finalizer WITH Item <- LibName, RootKinds <- {"abs"}, MaxRuns <- 1

(* The archives that ship lib/n or usr/lib/n and got extracted.            *)
Shipped(d, n) == tree[<<d, n>>] # NoPkg

(* Before finalize_setup starts, its variables hold no tree yet.           *)
RootfsInit ==
    /\ Init
    /\ rootKind = "abs"
    /\ libItems0 = {}
    /\ lib = "absent"
    /\ target = "usr"
    /\ libItems = {}
    /\ usrExists = FALSE
    /\ usr = [n \in LibName |-> "none"]
    /\ todo = {}
    /\ pc = "idle"
    /\ runs = 1

(* A step of install_packages.                                             *)
InstallStep == Next /\ UNCHANGED finVars

(* Lines 331-334: install_packages has returned and finalize_setup starts  *)
(* on the tree it left.  /lib is a directory iff some archive shipped a    *)
(* file under it; a file of usr/lib/ came with an archive.                 *)
BeginFinalize ==
    /\ phase = "done"
    /\ pc = "idle"
    /\ libItems0' = {n \in LibName : Shipped("lib", n)}
    /\ libItems' = libItems0'
    /\ lib' = IF libItems0' # {} THEN "dir" ELSE "absent"
    /\ usrExists' = \E n \in LibName : Shipped("usr", n)
    /\ usr' = [n \in LibName |-> IF Shipped("usr", n) THEN "usr" ELSE "none"]
    /\ pc' = "start"
    /\ UNCHANGED <<vars, rootKind, target, todo, runs>>

(* A step of finalize_setup.                                               *)
FinalizeStep ==
    /\ pc # "idle"
    /\ \/ F!Start \/ F!CopyDone \/ F!RemoveDir \/ F!Symlink
       \/ \E n \in LibName : F!CopyItem(n) \/ F!RemoveItem(n)
    /\ UNCHANGED vars

RootfsNext == InstallStep \/ BeginFinalize \/ FinalizeStep

(* The download tasks and the extraction loop as in Install; the main      *)
(* block is sequential code after them.                                    *)
RootfsSpec ==
    /\ RootfsInit /\ [][RootfsNext]_allVars
    /\ \A p \in Pkg : WF_allVars(Task(p) /\ UNCHANGED finVars)
    /\ WF_allVars((Gathered \/ ExtractNext \/ ExtractDone) /\ UNCHANGED finVars)
    /\ WF_allVars(BeginFinalize \/ FinalizeStep)

-----------------------------------------------------------------------------
(* The package whose file ends at usr/lib/n: the one that wrote lib/n when *)
(* finalize_setup copied it, the one that wrote usr/lib/n otherwise.       *)
LibOwner(n) ==
    CASE usr[n] = "lib" -> tree[<<"lib", n>>]
      [] usr[n] = "usr" -> tree[<<"usr", n>>]
      [] OTHER -> NoPkg

(* Spec sections 4.6 and 4.7 together: once the script has finished, every *)
(* library an extracted archive shipped under lib/ or usr/lib/ is in      *)
(* /usr/lib, with the content of one of the archives that shipped it.     *)
LibFilesKept ==
    pc = "done" =>
        \A n \in LibName :
            (Shipped("lib", n) \/ Shipped("usr", n)) =>
                LibOwner(n) \in {tree[<<"lib", n>>], tree[<<"usr", n>>]} \ {NoPkg}

(* The script ends: every download gives up or completes, and the run     *)
(* either stops on a broken archive or finalizes the rootfs.               *)
Finished == <>(phase = "aborted" \/ pc = "done")

(* Spec section 4.3 carried through section 4.7: since /lib and /usr/lib   *)
(* are one directory in the finished rootfs, the library there should be   *)
(* the earliest-resolved package's among those that ship it under either   *)
(* name, so that requested packages win over their dependencies.           *)
RequestedWinsOnLib ==
    pc = "done" =>
        \A n \in LibName :
            LET W == { i \in DOMAIN resolved :
                         /\ resolved[i] \in withFile /\ disk[resolved[i]] = "full"
                         /\ ships[resolved[i]] \cap {<<"lib", n>>, <<"usr", n>>} # {} }
            IN  W # {} => LibOwner(n) = resolved[CHOOSE i \in W : \A l \in W : i <= l]
=============================================================================
