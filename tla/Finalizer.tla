------------------------------- MODULE Finalizer -------------------------------
(***************************************************************************)
(* finalize_setup of eng/common/cross/install-debs.py (lines 273-294),    *)
(* run over the tree that the extraction left, possibly killed at any     *)
(* point and run again over the same tree.                                 *)
(*                                                                         *)
(* /lib is absent, a directory of files, or a symbolic link.  A link's    *)
(* text resolves either to the rootfs's usr/lib ("usr") or to a path that *)
(* does not exist ("elsewhere").  Line 294 writes the text                *)
(* os.path.join(rootfsdir, 'usr', 'lib'): with an absolute --rootfsdir it *)
(* resolves to usr/lib, with a relative one it is read relative to the    *)
(* directory of the link and names rootfs/rootfs/usr/lib.  A file of      *)
(* /usr/lib is tagged with where its content came from.                   *)
(***************************************************************************)
EXTENDS Naturals, FiniteSets

CONSTANTS
    Item,       \* names of the files /lib may hold
    RootKinds,  \* the kinds of --rootfsdir to consider: "abs", "rel"
    MaxRuns     \* bound on the runs of finalize_setup over one tree

ASSUME FinalizerAssumption ==
    /\ RootKinds \subseteq {"abs", "rel"}
    /\ MaxRuns \in Nat \ {0}

VARIABLES
    rootKind,   \* whether --rootfsdir is absolute (input)
    libItems0,  \* the files /lib held after extraction (input)
    lib,        \* "absent", "dir" or "link"
    target,     \* where the text of the /lib link resolves: "usr" or "elsewhere"
    libItems,   \* the files of the /lib directory
    usrExists,  \* whether usr/lib exists
    usr,        \* Item -> "none", or the origin of usr/lib/item: "usr" or "lib"
    todo,       \* the entries of os.listdir(lib_dir) not yet copied
    pc,         \* "start", "copy", "rmtree", "symlink", "done" or "failed"
    runs        \* runs of finalize_setup started so far

vars == <<rootKind, libItems0, lib, target, libItems, usrExists, usr, todo, pc, runs>>

TypeOK ==
    /\ rootKind \in RootKinds
    /\ libItems0 \subseteq Item
    /\ lib \in {"absent", "dir", "link"}
    /\ target \in {"usr", "elsewhere"}
    /\ libItems \subseteq Item
    /\ usrExists \in BOOLEAN
    /\ usr \in [Item -> {"none", "usr", "lib"}]
    /\ todo \subseteq Item
    /\ pc \in {"start", "copy", "rmtree", "symlink", "done", "failed"}
    /\ runs \in 1..MaxRuns

(* The trees the extraction can leave: /lib as a directory of files, a    *)
(* link shipped by a package (its text, usr/lib, is relative and resolves *)
(* to usr/lib, which may or may not exist), or nothing.                   *)
Init ==
    /\ rootKind \in RootKinds
    /\ lib \in {"absent", "dir", "link"}
    /\ libItems0 \in IF lib = "dir" THEN SUBSET Item ELSE {{}}
    /\ libItems = libItems0
    /\ target = "usr"
    /\ usrExists \in BOOLEAN
    /\ usr \in [Item -> IF usrExists THEN {"none", "usr"} ELSE {"none"}]
    /\ todo = {}
    /\ pc = "start"
    /\ runs = 1

(* os.path.exists follows the link: a dangling link does not exist.       *)
LibExists == lib = "dir" \/ (lib = "link" /\ target = "usr" /\ usrExists)

(* Lines 277-283: a link is removed; a directory makes usr/lib exist and  *)
(* is listed; an absent /lib or a dangling link goes to line 294.          *)
Start ==
    /\ pc = "start"
    /\ \/ /\ LibExists /\ lib = "link"
          /\ lib' = "absent"
          /\ pc' = "symlink"
          /\ UNCHANGED <<usrExists, todo>>
       \/ /\ LibExists /\ lib = "dir"
          /\ usrExists' = TRUE
          /\ todo' = libItems
          /\ pc' = "copy"
          /\ UNCHANGED lib
       \/ /\ ~LibExists
          /\ pc' = "symlink"
          /\ UNCHANGED <<lib, usrExists, todo>>
    /\ UNCHANGED <<rootKind, libItems0, target, libItems, usr, runs>>

(* Lines 284-290: one entry of the listing is copied; copy2 overwrites a  *)
(* file of the same name in usr/lib.  listdir has no fixed order.          *)
CopyItem(i) ==
    /\ pc = "copy"
    /\ i \in todo
    /\ usr' = [usr EXCEPT ![i] = "lib"]
    /\ todo' = todo \ {i}
    /\ UNCHANGED <<rootKind, libItems0, lib, target, libItems, usrExists, pc, runs>>

(* Mutant: the tree is removed before the copy loop has finished.          *)
CopyDoneEarly ==
    /\ pc = "copy"
    /\ pc' = "rmtree"
    /\ UNCHANGED <<rootKind, libItems0, lib, target, libItems, usrExists, usr, todo, runs>>

(* Line 283: the copy loop has run out.                                    *)
CopyDone ==
    /\ pc = "copy"
    /\ todo = {}
    /\ pc' = "rmtree"
    /\ UNCHANGED <<rootKind, libItems0, lib, target, libItems, usrExists, usr, todo, runs>>

(* Line 292: rmtree unlinks the files one by one, then the directory.     *)
RemoveItem(i) ==
    /\ pc = "rmtree"
    /\ i \in libItems
    /\ libItems' = libItems \ {i}
    /\ UNCHANGED <<rootKind, libItems0, lib, target, usrExists, usr, todo, pc, runs>>

RemoveDir ==
    /\ pc = "rmtree"
    /\ libItems = {}
    /\ lib' = "absent"
    /\ pc' = "symlink"
    /\ UNCHANGED <<rootKind, libItems0, target, libItems, usrExists, usr, todo, runs>>

(* Where the text written by line 294 resolves.                            *)
LinkTarget(kind) == IF kind = "abs" THEN "usr" ELSE "elsewhere"

(* Line 294: os.symlink creates the link, or raises FileExistsError when  *)
(* the name is taken (a dangling link that line 277 did not see).          *)
Symlink ==
    /\ pc = "symlink"
    /\ \/ /\ lib = "absent"
          /\ lib' = "link"
          /\ target' = LinkTarget(rootKind)
          /\ pc' = "done"
       \/ /\ lib # "absent"
          /\ pc' = "failed"
          /\ UNCHANGED <<lib, target>>
    /\ UNCHANGED <<rootKind, libItems0, libItems, usrExists, usr, todo, runs>>

(* The process is killed at any point of a run, or a run has completed,   *)
(* and finalize_setup (line 334) is called again over the same tree.  A    *)
(* rerun of the whole script would extract the archives again first; that *)
(* is not modelled (module Rootfs runs finalize_setup once).               *)
Rerun ==
    /\ pc \notin {"start", "failed"}
    /\ runs < MaxRuns
    /\ pc' = "start"
    /\ todo' = {}
    /\ runs' = runs + 1
    /\ UNCHANGED <<rootKind, libItems0, lib, target, libItems, usrExists, usr>>

Next ==
    \/ Start \/ CopyDone \/ RemoveDir \/ Symlink \/ Rerun
    \/ \E i \in Item : CopyItem(i) \/ RemoveItem(i)

Spec == Init /\ [][Next]_vars

-----------------------------------------------------------------------------
(* Spec section 4.7: once finalize_setup returns, /lib is a link that     *)
(* resolves to the rootfs's usr/lib, whatever /lib was and however often  *)
(* earlier runs were killed.                                               *)
LibLinksToUsrLib ==
    pc = "done" => lib = "link" /\ target = "usr"

(* Spec section 4.7 and the finalizer scenario of section 8: every file   *)
(* /lib held is in usr/lib with /lib's content once a run returns, even   *)
(* when an earlier run was killed in the middle of the copy or of the     *)
(* rmtree.                                                                 *)
NoLibFileLost ==
    pc = "done" => \A i \in libItems0 : usr[i] = "lib"

(* Line 292 after lines 284-290, as a property of each step: rmtree never *)
(* unlinks a file of /lib whose copy is not in usr/lib, in any run,        *)
(* whichever earlier run was killed and wherever.                         *)
RemovesOnlyCopied ==
    [][\A i \in libItems \ libItems' : usr'[i] = "lib"]_vars
=============================================================================
