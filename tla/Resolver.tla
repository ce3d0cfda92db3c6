------------------------------ MODULE Resolver ------------------------------
(***************************************************************************)
(* The dependency resolver of eng/common/cross/install-debs.py,            *)
(* resolve_dependencies (lines 135-158): a breadth-first walk over the     *)
(* Depends edges of the parsed package table, starting from the requested *)
(* names, with virtual names mapped to their first provider.               *)
(*                                                                         *)
(* The table the walk reads (the Depends lists, the alias table and the    *)
(* requested names) is chosen in Init and never changes, as in the code   *)
(* where it is built once by parse_package_index.  A Depends entry is      *)
(* abstracted to the bare name the code keeps of it (the text before the  *)
(* first space of each ", "-separated entry): that name may be a real      *)
(* package, a virtual name, or a token that names nothing ("perl:any",     *)
(* "a|b"), which is why Depends lists range over all of Names.             *)
(*                                                                         *)
(* The loop body is split at the code's own control points: Pop is one    *)
(* pass of the while loop up to the inner for loop, VisitDep one pass of   *)
(* the inner for loop, DepsDone its exit.  Nothing else runs meanwhile.   *)
(***************************************************************************)
EXTENDS Naturals, Sequences, FiniteSets

CONSTANTS
    Pkg,      \* names that are keys of the package table
    Virtual,  \* names that are not: Provides aliases or unknown tokens
    None,     \* the None of aliases.get(current, [None])[0]
    MaxDeps,  \* bound on the length of a Depends list
    MaxProv,  \* bound on the number of providers of an alias
    MaxReq    \* bound on the number of requested names

Names == Pkg \cup Virtual

ASSUME ConstAssumption ==
    /\ Pkg \cap Virtual = {}
    /\ None \notin Names
    /\ MaxDeps \in Nat /\ MaxProv \in Nat /\ MaxReq \in Nat

(* Sequences of at most n elements of S without repetition.               *)
DistinctSeqs(S, n) ==
    UNION { {f \in [1..k -> S] : \A i, j \in 1..k : i # j => f[i] # f[j]}
            : k \in 0..n }

(* Nonempty sequences of at most n elements of S.                          *)
NonEmptySeqs(S, n) == UNION { [1..k -> S] : k \in 1..n }

RangeOf(s) == { s[i] : i \in DOMAIN s }

VARIABLES
    depends,     \* Pkg -> bare dependency names, in Depends order
    aliases,     \* Virtual -> providers, in insertion order (<<>>: absent)
    requested,   \* desired_packages
    to_process,  \* the deque of names still to visit
    resolved,    \* the resolved list, in first-resolved order
    current,     \* resolved_package whose Depends are being walked
    di,          \* index of the next dependency of current to visit
    pc           \* "loop", "deps", "done" (returned) or "notfound" (exit 1)

inputs == <<depends, aliases, requested>>
vars == <<depends, aliases, requested, to_process, resolved, current, di, pc>>

TypeOK ==
    /\ depends \in [Pkg -> Seq(Names)]
    /\ aliases \in [Virtual -> Seq(Pkg)]
    /\ requested \in Seq(Names)
    /\ to_process \in Seq(Names)
    /\ resolved \in Seq(Pkg)
    /\ current \in Pkg \cup {None}
    /\ di \in Nat \ {0}
    /\ pc \in {"loop", "deps", "done", "notfound"}

(* Mutant: the [0] of line 142 forgotten, the provider list itself used.  *)
ResolveNameWholeList(n) ==
    IF n \in Pkg THEN n
    ELSE IF aliases[n] # <<>> THEN aliases[n] ELSE None

(* Line 142: a real package stands for itself, a virtual name for the     *)
(* first package that provides it, and anything else for None.            *)
ResolveName(n) ==
    IF n \in Pkg THEN n
    ELSE IF aliases[n] # <<>> THEN aliases[n][1] ELSE None

Init ==
    /\ depends \in [Pkg -> DistinctSeqs(Names, MaxDeps)]
    /\ aliases \in [Virtual -> DistinctSeqs(Pkg, MaxProv)]
    /\ requested \in NonEmptySeqs(Names, MaxReq)
    /\ to_process = requested
    /\ resolved = <<>>
    /\ current = None
    /\ di = 1
    /\ pc = "loop"

(* Mutant: a name already resolved is not popped (to_process[0] read     *)
(* instead of popleft()).                                                 *)
PopWithoutPopOnSkip ==
    /\ pc = "loop"
    /\ to_process # <<>>
    /\ LET rp == ResolveName(Head(to_process)) IN
       \/ /\ rp = None
          /\ pc' = "notfound"
          /\ UNCHANGED <<to_process, resolved, current, di>>
       \/ /\ rp \in RangeOf(resolved)
          /\ UNCHANGED <<to_process, resolved, current, di, pc>>
       \/ /\ rp # None
          /\ rp \notin RangeOf(resolved)
          /\ to_process' = Tail(to_process)
          /\ resolved' = Append(resolved, rp)
          /\ current' = rp
          /\ di' = 1
          /\ pc' = "deps"
    /\ UNCHANGED inputs

(* Mutant: the "not in resolved" test of line 148 dropped.               *)
PopWithoutSeenCheck ==
    /\ pc = "loop"
    /\ to_process # <<>>
    /\ LET rp == ResolveName(Head(to_process)) IN
       \/ /\ rp = None
          /\ pc' = "notfound"
          /\ UNCHANGED <<to_process, resolved, current, di>>
       \/ /\ rp # None
          /\ to_process' = Tail(to_process)
          /\ resolved' = Append(resolved, rp)
          /\ current' = rp
          /\ di' = 1
          /\ pc' = "deps"
    /\ UNCHANGED inputs

(* Lines 140-151: pop the front name and resolve it.  An unresolvable     *)
(* name ends the run (sys.exit(1)); an already resolved package is        *)
(* skipped; a new one is appended to resolved and its Depends walked.     *)
Pop ==
    /\ pc = "loop"
    /\ to_process # <<>>
    /\ LET rp == ResolveName(Head(to_process)) IN
       \/ /\ rp = None
          /\ pc' = "notfound"
          /\ UNCHANGED <<to_process, resolved, current, di>>
       \/ /\ rp \in RangeOf(resolved)
          /\ to_process' = Tail(to_process)
          /\ UNCHANGED <<resolved, current, di, pc>>
       \/ /\ rp # None
          /\ rp \notin RangeOf(resolved)
          /\ to_process' = Tail(to_process)
          /\ resolved' = Append(resolved, rp)
          /\ current' = rp
          /\ di' = 1
          /\ pc' = "deps"
    /\ UNCHANGED inputs

(* Mutant: the "dep in packages" test of line 155 dropped.               *)
VisitDepAnyName ==
    /\ pc = "deps"
    /\ di <= Len(depends[current])
    /\ LET dep == depends[current][di] IN
          to_process' =
            IF /\ dep \notin RangeOf(resolved)
               /\ dep \notin RangeOf(to_process)
            THEN Append(to_process, dep)
            ELSE to_process
    /\ di' = di + 1
    /\ UNCHANGED <<inputs, resolved, current, pc>>

(* Lines 154-156: one dependency of current; it is queued only when it is *)
(* a real package that is neither resolved nor already queued.            *)
VisitDep ==
    /\ pc = "deps"
    /\ di <= Len(depends[current])
    /\ LET dep == depends[current][di] IN
          to_process' =
            IF /\ dep \notin RangeOf(resolved)
               /\ dep \notin RangeOf(to_process)
               /\ dep \in Pkg
            THEN Append(to_process, dep)
            ELSE to_process
    /\ di' = di + 1
    /\ UNCHANGED <<inputs, resolved, current, pc>>

(* Mutant: the inner loop stops one dependency early.                    *)
DepsDoneOneEarly ==
    /\ pc = "deps"
    /\ di >= Len(depends[current])
    /\ pc' = "loop"
    /\ UNCHANGED <<inputs, to_process, resolved, current, di>>

(* The inner for loop runs out: back to the while test.                   *)
DepsDone ==
    /\ pc = "deps"
    /\ di > Len(depends[current])
    /\ pc' = "loop"
    /\ UNCHANGED <<inputs, to_process, resolved, current, di>>

(* Line 158: the deque is empty and resolved is returned.                 *)
Finish ==
    /\ pc = "loop"
    /\ to_process = <<>>
    /\ pc' = "done"
    /\ UNCHANGED <<inputs, to_process, resolved, current, di>>

Next == Pop \/ VisitDep \/ DepsDone \/ Finish

(* The resolver is one sequential loop: once started it keeps stepping.   *)
Spec == Init /\ [][Next]_vars /\ WF_vars(Next)

Terminated == pc \in {"done", "notfound"}

-----------------------------------------------------------------------------
(* Deps(p): the real packages among the Depends of p, the only ones the   *)
(* code follows.                                                          *)
Deps(p) == RangeOf(depends[p]) \cap Pkg

(* The resolved list never names a package twice, however often it is     *)
(* requested, depended upon or reached through an alias (spec section 8,  *)
(* "Resolver has no duplicates"; the check is line 148).                  *)
NoDuplicates ==
    \A i, j \in DOMAIN resolved : i # j => resolved[i] # resolved[j]

(* When resolve_dependencies returns, the resolved list is closed under   *)
(* the Depends edges it follows: every real package a resolved package    *)
(* depends on is resolved too, although the queue test at line 155 skips  *)
(* names that are queued but not yet resolved.                            *)
ClosedOnReturn ==
    pc = "done" => \A p \in RangeOf(resolved) : Deps(p) \subseteq RangeOf(resolved)

(* The walk ends: resolve_dependencies returns or exits, even on cyclic   *)
(* Depends (spec section 4.3, "Termination").                             *)
Termination == <>Terminated

(* The spec's contract (section 4.3): a run that returns has every        *)
(* dependency of a resolved package satisfied, by the package itself or   *)
(* by a resolved provider of the virtual name; any other dependency name  *)
(* fails the run with PackageNotFound.                                    *)
DependenciesSatisfied ==
    pc = "done" =>
      \A p \in RangeOf(resolved) : \A d \in RangeOf(depends[p]) :
        \/ d \in RangeOf(resolved)
        \/ d \in Virtual /\ RangeOf(aliases[d]) \cap RangeOf(resolved) # {}

-----------------------------------------------------------------------------
(* The refinement mapping: the walk is "running" until it returns or      *)
(* exits, and its result is the set of names in the returned list.         *)
Abs == INSTANCE ResolverAbstract
         WITH status <- IF pc \in {"loop", "deps"} THEN "running" ELSE pc,
              result <- IF pc = "done" THEN RangeOf(resolved) ELSE {}

(* resolve_dependencies does what it promises: it exits with              *)
(* PackageNotFound exactly when a requested name stands for nothing, and  *)
(* otherwise returns, with the least Depends-closed set of packages that  *)
(* holds the requested names, reached by its breadth-first walk over the  *)
(* queue and the "not in resolved, not in to_process" tests.  (The       *)
(* abstract fairness follows from Termination: the last step of every     *)
(* run is the abstract step.)                                              *)
ImplementsAbstract == Abs!SafetySpec

=============================================================================
