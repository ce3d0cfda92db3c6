---------------------------- MODULE InstallProofs ----------------------------
(***************************************************************************)
(* Proofs about the install phase of install-debs.py (module Install), for *)
(* every set of packages and paths and every retry bound.                  *)
(***************************************************************************)
EXTENDS Install, TLAPS

(* Position i of resolved holds an archive that arrived whole and ships x. *)
Ships(i, x) ==
    /\ resolved[i] \in withFile
    /\ disk[resolved[i]] = "full"
    /\ x \in ships[resolved[i]]

(* The package at the least position of W, or NoPkg.                      *)
LeastOf(W) ==
    IF W = {} THEN NoPkg ELSE resolved[CHOOSE i \in W : \A l \in W : i <= l]

(* The winner of x among positions j and later, the ones the reversed loop *)
(* has already extracted when it stands at j - 1.                          *)
WinnerFrom(x, j) == LeastOf({ i \in j..Len(resolved) : Ships(i, x) })

(* The inductive invariant.  A task never stands at a request or a read    *)
(* with its attempts used up; the tree is empty until extraction starts;   *)
(* during extraction it holds the winners of the suffix already extracted, *)
(* none of which was a broken archive.                                     *)
IInv ==
    /\ TypeOK
    /\ \A p \in Pkg : tpc[p] \in {"get", "read"} => attempt[p] < MaxRetries
    /\ phase = "download" => tree = [x \in Path |-> NoPkg]
    /\ phase \in {"extract", "done", "aborted"} =>
          \A j \in {k + 1} : \A x \in Path : tree[x] = WinnerFrom(x, j)
    /\ phase \in {"extract", "done", "aborted"} =>
          \A i \in k + 1..Len(resolved) :
             resolved[i] \in withFile /\ disk[resolved[i]] = "full"
                => resolved[i] \notin broken
    /\ phase = "done" => k = 0

(* The minimum of a set with a least element i is i.                       *)
LEMMA ChooseLeast ==
    ASSUME NEW W \in SUBSET Nat, NEW i \in W, \A l \in W : i <= l
    PROVE  (CHOOSE c \in W : \A l \in W : c <= l) = i
<1> DEFINE c == CHOOSE c \in W : \A l \in W : c <= l
<1>1. c \in W /\ \A l \in W : c <= l
  OBVIOUS
<1>2. c <= i /\ i <= c /\ c \in Nat
  BY <1>1
<1>3. \A a, b \in Nat : a <= b /\ b <= a => a = b
  OBVIOUS
<1>4. QED
  BY <1>2, <1>3, Zenon

LEMMA InitIInv == Init => IInv
<1> SUFFICES ASSUME Init PROVE IInv
  OBVIOUS
<1>1. resolved \in Seq(Pkg)
  BY DEF Init, ResolvedSeqs
<1>2. TypeOK
  BY <1>1, InstallAssumption DEF Init, TypeOK, TaskPc
<1>3. QED
  BY <1>2, InstallAssumption DEF Init, IInv

(* A step of the download phase leaves the tree, the extraction index and *)
(* the inputs alone.                                                       *)
LEMMA TaskFrame ==
    ASSUME NEW p \in Pkg, Task(p)
    PROVE  /\ phase = "download" /\ phase' = "download"
           /\ UNCHANGED <<inputs, k, tree>>
BY DEF Task, Get, Read, Sleep

LEMMA TaskIInv ==
    ASSUME IInv, NEW p \in Pkg, Task(p)
    PROVE  IInv'
<1>1. /\ phase = "download" /\ phase' = "download"
      /\ UNCHANGED <<inputs, k, tree>>
  BY TaskFrame
<1> DEFINE TaskOK ==
       /\ tpc \in [Pkg -> TaskPc]
       /\ attempt \in [Pkg -> 0..MaxRetries]
       /\ disk \in [Pkg -> {"absent", "empty", "full"}]
       /\ \A q \in Pkg : tpc[q] \in {"get", "read"} => attempt[q] < MaxRetries
<1>0. TaskOK /\ MaxRetries \in Nat
  BY InstallAssumption DEF IInv, TypeOK
<1>2. TaskOK'
  <2>a. CASE Get(p)
    BY <1>0, <2>a DEF TaskOK, Get, TaskPc
  <2>b. CASE Read(p)
    BY <1>0, <2>b DEF TaskOK, Read, TaskPc
  <2>c. CASE Sleep(p)
    BY <1>0, <2>c DEF TaskOK, Sleep, TaskPc
  <2>d. QED
    BY <2>a, <2>b, <2>c DEF Task
<1>3. QED
  BY <1>1, <1>2 DEF IInv, TypeOK, inputs, TaskOK

(* The winners depend only on the inputs and on the files on disk.         *)
LEMMA WinnerFrame ==
    ASSUME UNCHANGED <<resolved, withFile, disk, ships>>
    PROVE  \A x, j : WinnerFrom(x, j)' = WinnerFrom(x, j)
BY DEF WinnerFrom, Ships, LeastOf

LEMMA GatheredIInv ==
    ASSUME IInv, Gathered
    PROVE  IInv'
<1>1. /\ phase = "download" /\ phase' = "extract"
      /\ k' = Len(resolved) /\ tree' = [x \in Path |-> NoPkg]
      /\ UNCHANGED <<resolved, withFile, extra, ships, broken, tpc, attempt, disk>>
  BY DEF Gathered, IInv, inputs
<1>2. \A x \in Path : WinnerFrom(x, Len(resolved) + 1) = NoPkg
  BY DEF WinnerFrom, LeastOf
<1>3. \A x, j : WinnerFrom(x, j)' = WinnerFrom(x, j)
  BY <1>1, WinnerFrame
<1>4. QED
  BY <1>1, <1>2, <1>3, InstallAssumption DEF IInv, TypeOK

LEMMA ExtractDoneIInv ==
    ASSUME IInv, ExtractDone
    PROVE  IInv'
<1>1. /\ phase = "extract" /\ phase' = "done" /\ k = 0
      /\ UNCHANGED <<resolved, withFile, extra, ships, broken, tpc, attempt, disk, k, tree>>
  BY DEF ExtractDone, inputs
<1>2. \A x, j : WinnerFrom(x, j)' = WinnerFrom(x, j)
  BY <1>1, WinnerFrame
<1>3. QED
  BY <1>1, <1>2 DEF IInv, TypeOK

(* One position more: the winner of x from j is j's package when j ships x *)
(* and its archive arrived whole, and the winner from j + 1 otherwise.    *)
LEMMA WinnerStep ==
    ASSUME TypeOK, NEW j \in 1..Len(resolved), NEW x
    PROVE  /\ ~Ships(j, x) => WinnerFrom(x, j) = WinnerFrom(x, j + 1)
           /\ Ships(j, x) => WinnerFrom(x, j) = resolved[j]
<1> DEFINE W1 == { i \in j..Len(resolved) : Ships(i, x) }
           W2 == { i \in (j + 1)..Len(resolved) : Ships(i, x) }
<1>1. ~Ships(j, x) => W1 = W2
  BY DEF TypeOK, W1, W2
<1>a. WinnerFrom(x, j) = LeastOf(W1) /\ WinnerFrom(x, j + 1) = LeastOf(W2)
  BY DEF WinnerFrom, W1, W2
<1>2. ~Ships(j, x) => WinnerFrom(x, j) = WinnerFrom(x, j + 1)
  BY <1>1, <1>a
<1>3. ASSUME Ships(j, x) PROVE WinnerFrom(x, j) = resolved[j]
  <2>1. j \in W1 /\ W1 \subseteq Nat /\ \A l \in W1 : j <= l
    BY <1>3 DEF TypeOK, W1
  <2>2. (CHOOSE c \in W1 : \A l \in W1 : c <= l) = j
    BY <2>1, ChooseLeast
  <2>3. QED
    BY <2>1, <2>2, <1>a DEF LeastOf
<1>4. QED
  BY <1>2, <1>3

LEMMA ExtractNextIInv ==
    ASSUME IInv, ExtractNext
    PROVE  IInv'
<1> DEFINE p == resolved[k]
<1>1. /\ phase = "extract" /\ k \in 1..Len(resolved) /\ p \in Pkg
      /\ UNCHANGED <<resolved, withFile, extra, ships, broken, tpc, attempt, disk>>
  BY DEF ExtractNext, IInv, TypeOK, inputs
<1>2. CASE p \notin withFile \/ disk[p] = "absent"
  <2>1. k' = k - 1 /\ UNCHANGED <<tree, phase>>
    BY <1>1, <1>2 DEF ExtractNext
  <2>2. \A x \in Path : ~Ships(k, x)
    BY <1>2 DEF Ships
  <2>3. \A x \in Path : tree[x] = WinnerFrom(x, k + 1)
    BY <1>1 DEF IInv
  <2>4. \A x \in Path : WinnerFrom(x, k) = WinnerFrom(x, k + 1)
    BY <1>1, <2>2, WinnerStep DEF IInv
  <2>5. \A x, j : WinnerFrom(x, j)' = WinnerFrom(x, j)
    BY <1>1, WinnerFrame
  <2>6. k' + 1 = k
    BY <1>1, <2>1
  <2>7. \A j \in {k' + 1} : \A x \in Path : tree'[x] = WinnerFrom(x, j)'
    BY <2>1, <2>3, <2>4, <2>5, <2>6
  <2>8. QED
    BY <1>1, <1>2, <2>1, <2>6, <2>7 DEF IInv, TypeOK
<1>3. CASE p \in withFile /\ (disk[p] = "empty" \/ (disk[p] = "full" /\ p \in broken))
  <2>1. phase' = "aborted" /\ UNCHANGED <<k, tree>>
    BY <1>1, <1>3 DEF ExtractNext
  <2>2. \A x, j : WinnerFrom(x, j)' = WinnerFrom(x, j)
    BY <1>1, WinnerFrame
  <2>3. QED
    BY <1>1, <2>1, <2>2 DEF IInv, TypeOK
<1>4. CASE p \in withFile /\ disk[p] = "full" /\ p \notin broken
  <2>1. k' = k - 1 /\ tree' = WriteTree(tree, p) /\ phase' = "extract"
    BY <1>1, <1>4 DEF ExtractNext
  <2>2. ASSUME NEW x \in Path PROVE tree'[x] = WinnerFrom(x, k)
    <3>0. tree[x] = WinnerFrom(x, k + 1)
      BY <1>1 DEF IInv
    <3>1. CASE x \in ships[p]
      <4>1. Ships(k, x)
        BY <1>4, <3>1 DEF Ships
      <4>2. WinnerFrom(x, k) = p
        BY <1>1, <4>1, WinnerStep DEF IInv
      <4>3. QED
        BY <2>1, <3>1, <4>2 DEF WriteTree
    <3>2. CASE x \notin ships[p]
      <4>1. ~Ships(k, x)
        BY <3>2 DEF Ships
      <4>2. WinnerFrom(x, k) = WinnerFrom(x, k + 1)
        BY <1>1, <4>1, WinnerStep DEF IInv
      <4>3. QED
        BY <2>1, <3>0, <3>2, <4>2 DEF WriteTree
    <3>3. QED
      BY <3>1, <3>2
  <2>3. \A x, j : WinnerFrom(x, j)' = WinnerFrom(x, j)
    BY <1>1, WinnerFrame
  <2>4. k' + 1 = k
    BY <1>1, <2>1
  <2>5. \A j \in {k' + 1} : \A x \in Path : tree'[x] = WinnerFrom(x, j)'
    BY <2>2, <2>3, <2>4
  <2>6. tree' \in [Path -> Pkg \cup {NoPkg}]
    BY <1>1, <2>1 DEF WriteTree, IInv, TypeOK
  <2>7. \A i \in k'+1..Len(resolved') :
           resolved'[i] \in withFile' /\ disk'[resolved'[i]] = "full"
              => resolved'[i] \notin broken'
    BY <1>1, <1>4, <2>4 DEF IInv
  <2>8. QED
    BY <1>1, <2>1, <2>4, <2>5, <2>6, <2>7 DEF IInv, TypeOK
<1>5. QED
  BY <1>2, <1>3, <1>4 DEF ExtractNext

(* Every step keeps the inductive invariant.                               *)
LEMMA NextIInv == IInv /\ [Next]_vars => IInv'
<1> SUFFICES ASSUME IInv, [Next]_vars PROVE IInv'
  OBVIOUS
<1>1. CASE \E p \in Pkg : Task(p)
  BY <1>1, TaskIInv
<1>2. CASE Gathered
  BY <1>2, GatheredIInv
<1>3. CASE ExtractNext
  BY <1>3, ExtractNextIInv
<1>4. CASE ExtractDone
  BY <1>4, ExtractDoneIInv
<1>5. CASE UNCHANGED vars
  <2>1. \A x, j : WinnerFrom(x, j)' = WinnerFrom(x, j)
    BY <1>5, WinnerFrame DEF vars
  <2>2. QED
    BY <1>5, <2>1 DEF vars, IInv, TypeOK
<1>6. QED
  BY <1>1, <1>2, <1>3, <1>4, <1>5 DEF Next

(* Download attempts stay within max_retries and the extraction index      *)
(* within the resolved list, in every interleaving of the tasks.           *)
THEOREM TypeCorrect == Spec => []TypeOK
<1>1. IInv => TypeOK
  BY DEF IInv
<1>2. QED
  BY InitIInv, NextIInv, <1>1, PTL DEF Spec

(* Whatever each download does and in whatever order the tasks run, a run  *)
(* that completes the reversed extraction loop leaves every path with the  *)
(* file of the earliest-resolved package whose archive arrived whole and   *)
(* ships it (spec section 4.3; lines 222-225 and 270).                     *)
THEOREM EarliestWins == Spec => []EarliestResolvedWins
<1>1. IInv => EarliestResolvedWins
  <2> SUFFICES ASSUME IInv, phase = "done", NEW x \in Path
               PROVE  tree[x] = Winner(x)
    BY DEF EarliestResolvedWins
  <2>1. k = 0 /\ tree[x] = WinnerFrom(x, 1)
    BY DEF IInv, TypeOK
  <2>2. WinnerFrom(x, 1) = Winner(x)
    BY DEF WinnerFrom, LeastOf, Ships, Winner, WinnerAfter
  <2>3. QED
    BY <2>1, <2>2
<1>2. QED
  BY InitIInv, NextIInv, <1>1, PTL DEF Spec

(* When a broken archive aborts the reversed loop, every path of the       *)
(* rootfs holds the file of the earliest of the packages already extracted *)
(* that ships it, and nothing of the failing package or those before it   *)
(* (lines 223-226, 245 and 268).                                           *)
THEOREM AbortSuffix == Spec => []AbortLeavesSuffix
<1>1. IInv => AbortLeavesSuffix
  <2> SUFFICES ASSUME IInv, phase = "aborted", NEW x \in Path
               PROVE  tree[x] = WinnerAfter(x, k)
    BY DEF AbortLeavesSuffix
  <2>1. tree[x] = WinnerFrom(x, k + 1)
    BY DEF IInv
  <2>2. WinnerFrom(x, k + 1) = WinnerAfter(x, k)
    BY DEF WinnerFrom, LeastOf, Ships, WinnerAfter
  <2>3. QED
    BY <2>1, <2>2
<1>2. QED
  BY InitIInv, NextIInv, <1>1, PTL DEF Spec

(* A task whose archive arrived whole has returned (line 30).              *)
FullIsDone == \A p \in Pkg : disk[p] = "full" => tpc[p] = "done"

LEMMA FullIsDoneInductive ==
    TypeOK /\ FullIsDone /\ [Next]_vars => FullIsDone'
<1> SUFFICES ASSUME TypeOK, FullIsDone, [Next]_vars PROVE FullIsDone'
  OBVIOUS
<1>1. ASSUME NEW q \in Pkg, Get(q) PROVE FullIsDone'
  BY <1>1 DEF Get, FullIsDone, TypeOK
<1>2. ASSUME NEW q \in Pkg, Read(q) PROVE FullIsDone'
  BY <1>2 DEF Read, FullIsDone, TypeOK
<1>3. ASSUME NEW q \in Pkg, Sleep(q) PROVE FullIsDone'
  BY <1>3 DEF Sleep, FullIsDone, TypeOK
<1>4. CASE Gathered \/ ExtractNext \/ ExtractDone \/ UNCHANGED vars
  BY <1>4 DEF Gathered, ExtractNext, ExtractDone, vars, FullIsDone
<1>5. QED
  BY <1>1, <1>2, <1>3, <1>4 DEF Next, Task

-----------------------------------------------------------------------------
(* The refinement of InstallAbstract.                                      *)

(* Lines 49-54: only a package with a Filename has a download task.        *)
TaskHasFile == \A p \in Pkg : tpc[p] # "none" => p \in withFile

(* Every position the reversed loop has passed holds a readable file or    *)
(* none: an unreadable one would have stopped it there.                    *)
SuffixReadable ==
    phase \in {"extract", "done", "aborted"} =>
        \A i \in k + 1..Len(resolved) : ~IA!Unreadable(i)

RInv == IInv /\ FullIsDone /\ TaskHasFile /\ SuffixReadable

(* The maximum of a set with a greatest element i is i.                    *)
LEMMA ChooseGreatest ==
    ASSUME NEW W \in SUBSET Nat, NEW i \in W, \A l \in W : l <= i
    PROVE  (CHOOSE c \in W : \A l \in W : l <= c) = i
<1> DEFINE c == CHOOSE c \in W : \A l \in W : l <= c
<1>1. c \in W /\ \A l \in W : l <= c
  OBVIOUS
<1>2. c <= i /\ i <= c /\ c \in Nat
  BY <1>1
<1>3. \A a, b \in Nat : a <= b /\ b <= a => a = b
  OBVIOUS
<1>4. QED
  BY <1>2, <1>3, Zenon

(* A download step writes at most the file of its own task, and only      *)
(* while the task is at a request or a read.                               *)
LEMMA TaskDisk ==
    ASSUME NEW p \in Pkg, Task(p)
    PROVE  \/ disk' = disk
           \/ /\ tpc[p] \in {"get", "read"}
              /\ \E v \in {"empty", "full"} : disk' = [disk EXCEPT ![p] = v]
BY DEF Task, Get, Read, Sleep

LEMMA InitRInv == Init => RInv
<1> SUFFICES ASSUME Init PROVE RInv
  OBVIOUS
<1>1. IInv
  BY InitIInv
<1>2. FullIsDone /\ SuffixReadable
  BY DEF Init, FullIsDone, SuffixReadable
<1>3. TaskHasFile
  BY DEF Init, TaskHasFile, DownloadSet
<1>4. QED
  BY <1>1, <1>2, <1>3 DEF RInv

LEMMA NextRInv == RInv /\ [Next]_vars => RInv'
<1> SUFFICES ASSUME RInv, [Next]_vars PROVE RInv'
  BY Zenon
<1>1. IInv' /\ FullIsDone'
  BY NextIInv, FullIsDoneInductive DEF RInv, IInv
<1>0. TypeOK /\ TaskHasFile /\ SuffixReadable
  BY DEF RInv, IInv
<1>2. TaskHasFile'
  <2>1. ASSUME NEW p \in Pkg, Task(p) PROVE TaskHasFile'
    <3>1. tpc[p] # "none" /\ UNCHANGED withFile
      BY <2>1 DEF Task, Get, Read, Sleep, inputs
    <3>2. \A q \in Pkg : q # p => tpc'[q] = tpc[q]
      BY <2>1, <1>0 DEF Task, Get, Read, Sleep, TypeOK
    <3>3. QED
      BY <1>0, <3>1, <3>2 DEF TaskHasFile
  <2>2. CASE Gathered \/ ExtractNext \/ ExtractDone \/ UNCHANGED vars
    BY <1>0, <2>2 DEF Gathered, ExtractNext, ExtractDone, vars, inputs, TaskHasFile
  <2>3. QED
    BY <2>1, <2>2 DEF Next
<1>3. SuffixReadable'
  <2>1. ASSUME NEW p \in Pkg, Task(p) PROVE SuffixReadable'
    BY <2>1, TaskFrame DEF SuffixReadable
  <2>2. CASE Gathered
    <3>1. k' = Len(resolved)' /\ phase' = "extract"
      BY <2>2 DEF Gathered, inputs
    <3>2. QED
      BY <3>1 DEF SuffixReadable
  <2>3. CASE ExtractNext
    <3>1. /\ phase = "extract" /\ k >= 1 /\ UNCHANGED <<inputs, disk>>
          /\ phase' \in {"extract", "aborted"}
      BY <2>3 DEF ExtractNext
    <3>2. \A i \in k + 1..Len(resolved) : ~IA!Unreadable(i)'
      BY <1>0, <3>1 DEF SuffixReadable, IA!Unreadable, inputs
    <3>3. CASE k' = k - 1
      <4>1. \/ resolved[k] \notin withFile \/ disk[resolved[k]] = "absent"
            \/ disk[resolved[k]] = "full" /\ resolved[k] \notin broken
        BY <2>3, <3>1, <3>3, <1>0 DEF ExtractNext, TypeOK
      <4>2. \A i \in {k} : ~IA!Unreadable(i)'
        BY <3>1, <4>1 DEF IA!Unreadable, inputs
      <4>3. SUFFICES ASSUME NEW i \in k' + 1..Len(resolved)'
                     PROVE  ~IA!Unreadable(i)'
        BY DEF SuffixReadable
      <4>4. i = k \/ i \in k + 1..Len(resolved)
        BY <1>0, <3>1, <3>3 DEF inputs, TypeOK
      <4>5. QED
        BY <3>2, <4>2, <4>4
    <3>4. CASE k' = k
      BY <3>1, <3>2, <3>4 DEF SuffixReadable, inputs
    <3>5. QED
      BY <2>3, <3>3, <3>4 DEF ExtractNext
  <2>4. CASE ExtractDone
    BY <1>0, <2>4 DEF ExtractDone, SuffixReadable, IA!Unreadable, inputs
  <2>5. CASE UNCHANGED vars
    BY <1>0, <2>5 DEF vars, SuffixReadable, IA!Unreadable
  <2>6. QED
    BY <2>1, <2>2, <2>3, <2>4, <2>5 DEF Next
<1>4. QED
  BY <1>1, <1>2, <1>3 DEF RInv

LEMMA InitRefines == Init => IA!Init
<1> SUFFICES ASSUME Init PROVE IA!Init
  OBVIOUS
<1>1. resolved \in Seq(Pkg)
  BY DEF Init, ResolvedSeqs
<1>2. QED
  BY <1>1 DEF Init, IA!Init, AbsTree, AbsStatus

(* Before the extraction loop returns or raises, the abstract state is the *)
(* inputs, the scratch files, an empty rootfs and "running".               *)
LEMMA RunningMapping ==
    ASSUME phase \in {"download", "extract"}
    PROVE  AbsTree = [x \in Path |-> NoPkg] /\ AbsStatus = "running"
BY DEF AbsTree, AbsStatus

(* A step that leaves the phase at download or extract and the inputs and  *)
(* the scratch files alone is an abstract stutter.                         *)
LEMMA RunningStutter ==
    ASSUME phase \in {"download", "extract"}, phase' \in {"download", "extract"},
           UNCHANGED <<inputs, disk>>
    PROVE  UNCHANGED IA!absVars
<1>1. AbsTree' = AbsTree /\ AbsStatus' = AbsStatus
  BY RunningMapping DEF AbsTree, AbsStatus
<1>2. QED
  BY <1>1 DEF IA!absVars, inputs

(* Each step of install_packages is a step of InstallAbstract or leaves    *)
(* its state unchanged.                                                    *)
LEMMA StepRefines == RInv /\ [Next]_vars => [IA!Next]_IA!absVars
<1> SUFFICES ASSUME RInv, [Next]_vars PROVE [IA!Next]_IA!absVars
  BY Zenon
<1>0. TypeOK /\ FullIsDone /\ TaskHasFile /\ SuffixReadable
  BY DEF RInv, IInv
<1>1. ASSUME NEW p \in Pkg, Task(p) PROVE [IA!Next]_IA!absVars
  <2>1. phase = "download" /\ phase' = "download" /\ UNCHANGED <<inputs, k, tree>>
    BY <1>1, TaskFrame
  <2>2. CASE disk' = disk
    BY <2>1, <2>2, RunningStutter
  <2>3. CASE /\ tpc[p] \in {"get", "read"}
             /\ \E v \in {"empty", "full"} : disk' = [disk EXCEPT ![p] = v]
    <3>1. p \in withFile /\ disk[p] # "full"
      BY <1>0, <2>3 DEF TaskHasFile, FullIsDone
    <3>2. AbsTree' = AbsTree /\ AbsStatus' = AbsStatus /\ AbsStatus = "running"
      BY <2>1, RunningMapping DEF AbsTree, AbsStatus
    <3>3. IA!Fetch(p)
      BY <2>1, <2>3, <3>1, <3>2 DEF IA!Fetch, inputs
    <3>4. QED
      BY <3>3 DEF IA!Next
  <2>4. QED
    BY <1>1, <2>2, <2>3, TaskDisk
<1>2. CASE Gathered
  BY <1>2, RunningStutter DEF Gathered
<1>3. CASE ExtractNext
  <2>1. phase = "extract" /\ k >= 1 /\ UNCHANGED <<inputs, disk>>
    BY <1>3 DEF ExtractNext
  <2>2. CASE phase' = "extract"
    BY <2>1, <2>2, RunningStutter
  <2>3. CASE phase' = "aborted"
    <3>1. /\ resolved[k] \in withFile
          /\ disk[resolved[k]] = "empty" \/ (disk[resolved[k]] = "full" /\ resolved[k] \in broken)
          /\ UNCHANGED <<k, tree>>
      BY <1>3, <2>3 DEF ExtractNext
    <3>2. k \in 1..Len(resolved) /\ IA!Unreadable(k)
      BY <1>0, <2>1, <3>1 DEF TypeOK, IA!Unreadable
    <3>3. \A l \in IA!UnreadableAt : l <= k
      BY <1>0, <2>1 DEF SuffixReadable, IA!UnreadableAt, TypeOK
    <3>4. k \in IA!UnreadableAt /\ IA!UnreadableAt \subseteq Nat
      BY <3>2 DEF IA!UnreadableAt
    <3>5. (CHOOSE j \in IA!UnreadableAt : \A l \in IA!UnreadableAt : l <= j) = k
      BY <3>3, <3>4, ChooseGreatest
    <3>6. AbsStatus = "running" /\ AbsStatus' = "aborted"
      BY <2>1, <2>3 DEF AbsStatus
    <3>7. IA!Abort
      <4>1. IA!UnreadableAt # {}
        BY <3>4
      <4>2. UNCHANGED <<resolved, withFile, ships, broken, disk>>
        BY <2>1 DEF inputs
      <4> DEFINE J == CHOOSE j \in IA!UnreadableAt : \A l \in IA!UnreadableAt : l <= j
      <4>3. J = k
        BY <3>5 DEF J
      <4>4. \A x \in Path : tree[x] = WinnerFrom(x, J + 1)
        BY <2>1, <4>3 DEF RInv, IInv
      <4>5. \A x \in Path : WinnerFrom(x, J + 1) = IA!EarliestAfter(x, J)
        BY DEF WinnerFrom, LeastOf, Ships, IA!EarliestAfter
      <4>6. AbsTree' = [x \in Path |-> IA!EarliestAfter(x, J)]
        BY <1>0, <2>3, <3>1, <4>4, <4>5 DEF TypeOK, AbsTree
      <4>7. QED
        BY <3>6, <4>1, <4>2, <4>6 DEF IA!Abort
    <3>8. QED
      BY <3>7 DEF IA!Next
  <2>4. QED
    BY <1>3, <2>2, <2>3 DEF ExtractNext
<1>4. CASE ExtractDone
  <2>1. phase = "extract" /\ k = 0 /\ phase' = "done"
        /\ UNCHANGED <<inputs, disk, tree>>
    BY <1>4 DEF ExtractDone
  <2>2. IA!UnreadableAt = {}
    BY <1>0, <2>1 DEF SuffixReadable, IA!UnreadableAt
  <2>3. tree = [x \in Path |-> IA!EarliestAfter(x, 0)]
    <3>1. \A x \in Path : tree[x] = WinnerFrom(x, 1)
      BY <2>1 DEF RInv, IInv
    <3>2. \A x \in Path : WinnerFrom(x, 1) = IA!EarliestAfter(x, 0)
      BY DEF WinnerFrom, LeastOf, Ships, IA!EarliestAfter
    <3>3. QED
      BY <1>0, <3>1, <3>2 DEF TypeOK
  <2>4. /\ AbsStatus = "running" /\ AbsStatus' = "done"
        /\ AbsTree' = [x \in Path |-> IA!EarliestAfter(x, 0)]
    BY <2>1, <2>3 DEF AbsTree, AbsStatus
  <2>5. IA!Complete
    BY <2>1, <2>2, <2>4 DEF IA!Complete, inputs
  <2>6. QED
    BY <2>5 DEF IA!Next
<1>5. CASE UNCHANGED vars
  BY <1>5 DEF vars, IA!absVars, AbsTree, AbsStatus
<1>6. QED
  BY <1>1, <1>2, <1>3, <1>4, <1>5 DEF Next

(* For every set of packages and paths, every retry bound and every       *)
(* interleaving of the download tasks, install_packages implements        *)
(* InstallAbstract: files arrive one by one and a whole one is never      *)
(* rewritten; the run completes exactly when no resolved package with a   *)
(* Filename left an empty file or a broken archive, with the              *)
(* earliest-resolved winner on every path, and otherwise aborts on the   *)
(* last such package with what the later ones wrote (lines 196-228).      *)
THEOREM InstallRefinement == Spec => ImplementsInstallAbstract
<1>1. QED
  BY InitRInv, NextRInv, InitRefines, StepRefines, PTL
     DEF Spec, ImplementsInstallAbstract, IA!Spec

=============================================================================
