--------------------------- MODULE ResolverAbstract ---------------------------
(***************************************************************************)
(* What resolve_dependencies (install-debs.py, lines 135-158) promises,    *)
(* as one step.  Each requested name stands for itself if it is a package *)
(* and for the first provider listed for it if it is an alias.  If some   *)
(* requested name stands for nothing, the run ends with PackageNotFound   *)
(* (sys.exit(1)).  Otherwise the call returns the least set of packages   *)
(* that holds what the requested names stand for and is closed under the  *)
(* Depends entries that are packages (spec section 4.3: only a "bare       *)
(* dependency name that is a real package" is followed).  The order of    *)
(* the list is not part of this promise.                                   *)
(***************************************************************************)
EXTENDS Naturals, Sequences

CONSTANTS Pkg, Virtual, None

VARIABLES
    depends,    \* Pkg -> bare dependency names
    aliases,    \* Virtual -> providers, in insertion order
    requested,  \* the requested names
    status,     \* "running", "done" or "notfound"
    result      \* the set of resolved packages, once returned

absInputs == <<depends, aliases, requested>>
absVars == <<depends, aliases, requested, status, result>>

Elems(s) == { s[i] : i \in DOMAIN s }

(* The package a name stands for, or None.                                 *)
StandsFor(n) ==
    IF n \in Pkg THEN n
    ELSE IF aliases[n] # <<>> THEN aliases[n][1] ELSE None

Roots == { StandsFor(requested[i]) : i \in DOMAIN requested }

(* T holds every package that a member of T depends on.                   *)
DependsClosed(T) == \A p \in T : Elems(depends[p]) \cap Pkg \subseteq T

(* The least Depends-closed set of packages that holds the roots: the      *)
(* packages that every such set holds.                                     *)
Closure ==
    { p \in Pkg : \A T \in SUBSET Pkg : Roots \subseteq T /\ DependsClosed(T) => p \in T }

Init ==
    /\ depends \in [Pkg -> Seq(Pkg \cup Virtual)]
    /\ aliases \in [Virtual -> Seq(Pkg)]
    /\ requested \in Seq(Pkg \cup Virtual)
    /\ status = "running"
    /\ result = {}

Return ==
    /\ status = "running"
    /\ None \notin Roots
    /\ status' = "done"
    /\ result' = Closure
    /\ UNCHANGED absInputs

NotFound ==
    /\ status = "running"
    /\ None \in Roots
    /\ status' = "notfound"
    /\ UNCHANGED <<depends, aliases, requested, result>>

Next == Return \/ NotFound

SafetySpec == Init /\ [][Next]_absVars

Spec == SafetySpec /\ WF_absVars(Next)
=============================================================================
