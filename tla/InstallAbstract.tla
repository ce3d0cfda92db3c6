--------------------------- MODULE InstallAbstract ---------------------------
(***************************************************************************)
(* What install_packages of eng/common/cross/install-debs.py (lines        *)
(* 196-228) promises, without tasks, retries or the order of extraction.  *)
(* Files arrive in the scratch directory one by one; then, in one step,   *)
(* the run either completes, leaving on each path the file of the         *)
(* earliest-resolved package whose archive arrived whole and ships it, or *)
(* aborts on the last resolved package whose file cannot be extracted,    *)
(* leaving exactly what the packages resolved after it would have left.   *)
(***************************************************************************)
EXTENDS Naturals, Sequences

CONSTANTS Pkg, Path, NoPkg

VARIABLES
    resolved,   \* the resolved list (input)
    withFile,   \* packages whose record has a Filename (input)
    ships,      \* Pkg -> the paths its data.tar holds (input)
    broken,     \* packages whose archive has no usable data.tar (input)
    arrived,    \* Pkg -> "absent", "empty" or "full": its file in tmp_dir
    tree,       \* Path -> the package whose file is there, or NoPkg
    status      \* "running", "done" or "aborted"

absVars == <<resolved, withFile, ships, broken, arrived, tree, status>>

(* Position i names a file that the extraction cannot read: an empty one, *)
(* or a whole archive without a usable data.tar.                          *)
Unreadable(i) ==
    /\ resolved[i] \in withFile
    /\ \/ arrived[resolved[i]] = "empty"
       \/ arrived[resolved[i]] = "full" /\ resolved[i] \in broken

UnreadableAt == { i \in 1..Len(resolved) : Unreadable(i) }

(* The first package in resolved order, after position j, whose archive   *)
(* arrived whole and ships x; NoPkg when there is none.                   *)
EarliestAfter(x, j) ==
    LET W == { i \in j + 1..Len(resolved) :
                 /\ resolved[i] \in withFile /\ arrived[resolved[i]] = "full"
                 /\ x \in ships[resolved[i]] }
    IN IF W = {} THEN NoPkg ELSE resolved[CHOOSE i \in W : \A l \in W : i <= l]

Init ==
    /\ resolved \in Seq(Pkg)
    /\ withFile \subseteq Pkg
    /\ ships \in [Pkg -> SUBSET Path]
    /\ broken \subseteq Pkg
    /\ arrived = [p \in Pkg |-> "absent"]
    /\ tree = [x \in Path |-> NoPkg]
    /\ status = "running"

(* The download of a package with a Filename writes its file, empty or    *)
(* whole; a file that arrived whole is never written again.               *)
Fetch(p) ==
    /\ status = "running"
    /\ p \in withFile
    /\ arrived[p] # "full"
    /\ \E v \in {"empty", "full"} : arrived' = [arrived EXCEPT ![p] = v]
    /\ UNCHANGED <<resolved, withFile, ships, broken, tree, status>>

Complete ==
    /\ status = "running"
    /\ UnreadableAt = {}
    /\ tree' = [x \in Path |-> EarliestAfter(x, 0)]
    /\ status' = "done"
    /\ UNCHANGED <<resolved, withFile, ships, broken, arrived>>

Abort ==
    /\ status = "running"
    /\ UnreadableAt # {}
    /\ LET j == CHOOSE j \in UnreadableAt : \A l \in UnreadableAt : l <= j
       IN  tree' = [x \in Path |-> EarliestAfter(x, j)]
    /\ status' = "aborted"
    /\ UNCHANGED <<resolved, withFile, ships, broken, arrived>>

Next == (\E p \in Pkg : Fetch(p)) \/ Complete \/ Abort

Spec == Init /\ [][Next]_absVars
=============================================================================
