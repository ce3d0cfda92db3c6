------------------------------- MODULE Install -------------------------------
(***************************************************************************)
(* The install phase of eng/common/cross/install-debs.py: install_packages *)
(* (lines 196-228) with download_deb_files_parallel and download_file      *)
(* (lines 19-56), then the extraction loop over extract_deb_file.          *)
(*                                                                         *)
(* The resolved list, the Filename of each package, the extra providers    *)
(* that lines 207-210 add to the download set, and the paths each archive *)
(* ships are chosen in Init and never change.  Each download is a task of  *)
(* the asyncio event loop; the tasks interleave at their awaits            *)
(* (session.get, response.read, asyncio.sleep).  A task's file in the      *)
(* scratch directory is "absent", "empty" (opened with "wb" but the body  *)
(* never arrived) or "full".  The basenames of the Filenames are taken to  *)
(* be distinct, so each task owns its file.  An archive that arrived whole *)
(* is well formed unless it is one of the broken ones (no data.tar member, *)
(* or an unsupported codec), whose extraction raises.  An empty file makes *)
(* "ar t" exit non-zero, and check=True raises as well.                    *)
(***************************************************************************)
EXTENDS Naturals, Sequences, FiniteSets

CONSTANTS
    Pkg,         \* package names
    Path,        \* paths an archive may ship
    NoPkg,       \* "no package has written this path"
    MaxRetries,  \* max_retries of download_file (3 in the code)
    MaxRes       \* bound on the length of the resolved list

ASSUME InstallAssumption ==
    /\ NoPkg \notin Pkg
    /\ MaxRetries \in Nat \ {0}
    /\ MaxRes \in Nat

(* Sequences of at most n elements of S without repetition, not empty.     *)
ResolvedSeqs(S, n) ==
    UNION { {f \in [1..k -> S] : \A i, j \in 1..k : i # j => f[i] # f[j]}
            : k \in 1..n }

RangeOf(s) == { s[i] : i \in DOMAIN s }

VARIABLES
    resolved,   \* the resolved list (input)
    withFile,   \* packages whose record has a Filename (input)
    extra,      \* providers added by lines 207-210 (input)
    ships,      \* Pkg -> the paths its data.tar holds (input)
    broken,     \* packages whose archive has no usable data.tar (input)
    tpc,        \* Pkg -> control point of its download task
    attempt,    \* Pkg -> the attempt counter of download_file
    disk,       \* Pkg -> "absent", "empty" or "full": its file in tmp_dir
    k,          \* index of the next package of reversed(resolved)
    tree,       \* Path -> the package whose archive last wrote it
    phase       \* "download", "extract", "done" or "aborted"

inputs == <<resolved, withFile, extra, ships, broken>>
vars == <<resolved, withFile, extra, ships, broken, tpc, attempt, disk, k, tree, phase>>

TaskPc == {"none", "get", "read", "sleep", "done", "gaveup"}

TypeOK ==
    /\ resolved \in Seq(Pkg)
    /\ withFile \subseteq Pkg
    /\ extra \subseteq Pkg
    /\ ships \in [Pkg -> SUBSET Path]
    /\ broken \subseteq Pkg
    /\ tpc \in [Pkg -> TaskPc]
    /\ attempt \in [Pkg -> 0..MaxRetries]
    /\ disk \in [Pkg -> {"absent", "empty", "full"}]
    /\ k \in 0..Len(resolved)
    /\ tree \in [Path -> Pkg \cup {NoPkg}]
    /\ phase \in {"download", "extract", "done", "aborted"}

(* Mutant: the test of line 51 dropped; a task is created for a package  *)
(* with no Filename as well.                                               *)
DownloadSetNoFilename == RangeOf(resolved) \cup extra

(* Lines 202-210 and 49-54: a task is created for every resolved package  *)
(* and every extra provider that has a Filename.                           *)
DownloadSet == (RangeOf(resolved) \cup extra) \cap withFile

Init ==
    /\ resolved \in ResolvedSeqs(Pkg, MaxRes)
    /\ withFile \in SUBSET Pkg
    /\ extra \in SUBSET Pkg
    /\ ships \in [Pkg -> SUBSET Path]
    /\ broken \in SUBSET Pkg
    /\ tpc = [p \in Pkg |-> IF p \in DownloadSet THEN "get" ELSE "none"]
    /\ attempt = [p \in Pkg |-> 0]
    /\ disk = [p \in Pkg |-> "absent"]
    /\ k = 0
    /\ tree = [x \in Path |-> NoPkg]
    /\ phase = "download"

(* Lines 24-33: the request of task p is answered or fails.  On 200 the    *)
(* file is opened, which creates or truncates it, and the task awaits the  *)
(* body; any other status breaks out of the loop without a retry; a        *)
(* timeout or transport error counts the attempt and goes to the sleep.   *)
Get(p) ==
    /\ phase = "download"
    /\ tpc[p] = "get"
    /\ \/ /\ disk' = [disk EXCEPT ![p] = "empty"]
          /\ tpc' = [tpc EXCEPT ![p] = "read"]
          /\ UNCHANGED attempt
       \/ /\ tpc' = [tpc EXCEPT ![p] = "gaveup"]
          /\ UNCHANGED <<attempt, disk>>
       \/ /\ attempt' = [attempt EXCEPT ![p] = @ + 1]
          /\ tpc' = [tpc EXCEPT ![p] = "sleep"]
          /\ UNCHANGED disk
    /\ UNCHANGED <<inputs, k, tree, phase>>

(* Mutant: a timeout while reading the body does not count the attempt.   *)
ReadNoCount(p) ==
    /\ phase = "download"
    /\ tpc[p] = "read"
    /\ \/ /\ disk' = [disk EXCEPT ![p] = "full"]
          /\ tpc' = [tpc EXCEPT ![p] = "done"]
       \/ /\ tpc' = [tpc EXCEPT ![p] = "sleep"]
          /\ UNCHANGED disk
    /\ UNCHANGED <<inputs, attempt, k, tree, phase>>

(* Lines 27-30 and 34-38: the body arrives and is written, and the task    *)
(* returns; or the 60 s timeout of the request expires while the body is   *)
(* awaited, the with block closes the file with nothing written, and the   *)
(* attempt is counted.                                                     *)
Read(p) ==
    /\ phase = "download"
    /\ tpc[p] = "read"
    /\ \/ /\ disk' = [disk EXCEPT ![p] = "full"]
          /\ tpc' = [tpc EXCEPT ![p] = "done"]
          /\ UNCHANGED attempt
       \/ /\ attempt' = [attempt EXCEPT ![p] = @ + 1]
          /\ tpc' = [tpc EXCEPT ![p] = "sleep"]
          /\ UNCHANGED disk
    /\ UNCHANGED <<inputs, k, tree, phase>>

(* Mutant: the loop test of line 22 dropped (while True).                 *)
SleepNoBound(p) ==
    /\ phase = "download"
    /\ tpc[p] = "sleep"
    /\ tpc' = [tpc EXCEPT ![p] = "get"]
    /\ UNCHANGED <<inputs, attempt, disk, k, tree, phase>>

(* Lines 38 and 22: the retry delay ends and the loop test decides between *)
(* another attempt and giving up (line 40).                                *)
Sleep(p) ==
    /\ phase = "download"
    /\ tpc[p] = "sleep"
    /\ tpc' = [tpc EXCEPT ![p] = IF attempt[p] < MaxRetries THEN "get" ELSE "gaveup"]
    /\ UNCHANGED <<inputs, attempt, disk, k, tree, phase>>

Task(p) == Get(p) \/ Read(p) \/ Sleep(p)

(* Line 56: gather returns once every task has returned; the loop of      *)
(* lines 223-226 starts from the end of the resolved list.                *)
Gathered ==
    /\ phase = "download"
    /\ \A p \in Pkg : tpc[p] \in {"none", "done", "gaveup"}
    /\ k' = Len(resolved)
    /\ phase' = "extract"
    /\ UNCHANGED <<inputs, tpc, attempt, disk, tree>>

(* Mutant: tar extraction that keeps the files already in the tree.       *)
WriteTreeKeep(t, p) ==
    [x \in Path |-> IF x \in ships[p] /\ t[x] = NoPkg THEN p ELSE t[x]]

(* Lines 270-271: extractall overwrites every path the archive ships.     *)
WriteTree(t, p) ==
    [x \in Path |-> IF x \in ships[p] THEN p ELSE t[x]]

(* Mutant: a broken archive is unpacked before its member and codec are    *)
(* checked, and the error is raised after the files are written.          *)
ExtractNextWriteBroken ==
    /\ phase = "extract"
    /\ k >= 1
    /\ LET p == resolved[k] IN
       \/ /\ p \notin withFile \/ disk[p] = "absent"
          /\ k' = k - 1
          /\ UNCHANGED <<tree, phase>>
       \/ /\ p \in withFile
          /\ disk[p] = "empty"
          /\ phase' = "aborted"
          /\ UNCHANGED <<k, tree>>
       \/ /\ p \in withFile
          /\ disk[p] = "full" /\ p \in broken
          /\ tree' = WriteTree(tree, p)
          /\ phase' = "aborted"
          /\ UNCHANGED k
       \/ /\ p \in withFile
          /\ disk[p] = "full"
          /\ p \notin broken
          /\ tree' = WriteTree(tree, p)
          /\ k' = k - 1
          /\ UNCHANGED phase
    /\ UNCHANGED <<inputs, tpc, attempt, disk>>

(* Lines 223-226 with extract_deb_file (230-271): the next package of the  *)
(* reversed list.  No Filename or no file: skipped.  An empty file ("ar t" *)
(* fails, line 236) or a broken archive (lines 244-245 and 267-268)        *)
(* raises and ends the run.  Otherwise its data.tar is unpacked over the   *)
(* tree.                                                                   *)
ExtractNext ==
    /\ phase = "extract"
    /\ k >= 1
    /\ LET p == resolved[k] IN
       \/ /\ p \notin withFile \/ disk[p] = "absent"
          /\ k' = k - 1
          /\ UNCHANGED <<tree, phase>>
       \/ /\ p \in withFile
          /\ disk[p] = "empty" \/ (disk[p] = "full" /\ p \in broken)
          /\ phase' = "aborted"
          /\ UNCHANGED <<k, tree>>
       \/ /\ p \in withFile
          /\ disk[p] = "full"
          /\ p \notin broken
          /\ tree' = WriteTree(tree, p)
          /\ k' = k - 1
          /\ UNCHANGED phase
    /\ UNCHANGED <<inputs, tpc, attempt, disk>>

(* Line 228: the loop has run out.                                         *)
ExtractDone ==
    /\ phase = "extract"
    /\ k = 0
    /\ phase' = "done"
    /\ UNCHANGED <<inputs, tpc, attempt, disk, k, tree>>

Next ==
    \/ \E p \in Pkg : Task(p)
    \/ Gathered \/ ExtractNext \/ ExtractDone

(* The event loop runs every ready task, and each await ends: the request  *)
(* and the body by the 60 s timeout, the sleep after 2 s.  The extraction  *)
(* loop is sequential code.                                                *)
Fairness ==
    /\ \A p \in Pkg : WF_vars(Task(p))
    /\ WF_vars(Gathered \/ ExtractNext \/ ExtractDone)

Spec == Init /\ [][Next]_vars /\ Fairness

-----------------------------------------------------------------------------
(* The package the reversed loop has left on path x once it has extracted *)
(* every position after j: the first in resolved order among those whose  *)
(* archive arrived whole and ships x.                                      *)
WinnerAfter(x, j) ==
    LET W == { i \in j + 1..Len(resolved) :
                 resolved[i] \in withFile /\ disk[resolved[i]] = "full"
                 /\ x \in ships[resolved[i]] }
    IN IF W = {} THEN NoPkg ELSE resolved[CHOOSE i \in W : \A l \in W : i <= l]

(* The package that wins path x once the whole list is extracted.          *)
Winner(x) == WinnerAfter(x, 0)

(* Spec section 4.3: after the reversed extraction loop, every path of the *)
(* tree holds the file of the earliest-resolved package that ships it, so  *)
(* requested packages win over their dependencies; downloads that failed   *)
(* leave no trace in the tree.                                             *)
EarliestResolvedWins ==
    phase = "done" => \A x \in Path : tree[x] = Winner(x)

(* Spec sections 4.5 and 5: network failures are retried and at worst     *)
(* make the file be skipped; they never abort the run (scenario 3: three   *)
(* failed attempts, and the extraction completes without error).  Only a  *)
(* structurally broken archive that arrived whole may abort it.           *)
NetworkFailureNeverAborts ==
    phase = "aborted" => disk[resolved[k]] = "full"

(* Spec section 7: a broken archive (no data.tar member, line 245, or an   *)
(* unsupported codec, line 268) aborts the run in the middle of the       *)
(* reversed loop.  The rootfs is then left holding exactly what the        *)
(* packages after the failing one wrote, each path with the earliest of    *)
(* them; nothing of the failing package or of those before it, the ones   *)
(* the user asked for, and finalize_setup never runs.                     *)
AbortLeavesSuffix ==
    phase = "aborted" => \A x \in Path : tree[x] = WinnerAfter(x, k)

-----------------------------------------------------------------------------
(* The refinement mapping onto InstallAbstract: the run is "running" until *)
(* the extraction loop returns or raises, and until then the abstract     *)
(* rootfs is the empty one (the loop's partial trees are internal).       *)
AbsStatus ==
    CASE phase = "done" -> "done"
      [] phase = "aborted" -> "aborted"
      [] OTHER -> "running"

AbsTree == IF phase \in {"done", "aborted"} THEN tree ELSE [x \in Path |-> NoPkg]

IA == INSTANCE InstallAbstract WITH arrived <- disk, tree <- AbsTree, status <- AbsStatus

(* Spec sections 4.3, 4.5 and 7 as one promise of install_packages: files *)
(* arrive one by one and a whole one is never rewritten; the run           *)
(* completes iff no resolved package with a Filename left an empty file or *)
(* a broken archive, with the earliest-resolved winner on every path, and  *)
(* otherwise aborts on the last such package, leaving what the later ones  *)
(* wrote.                                                                  *)
ImplementsInstallAbstract == IA!Spec
=============================================================================
