----------------------------- MODULE DebianConfig -----------------------------
(***************************************************************************)
(* src/Installers/Debian/tools/scripts/config_template_generator.py: read  *)
(* debian_config.json, fill the changelog, control, copyright and rules    *)
(* templates and the optional {package_name}.links file, and write them   *)
(* into an output directory.  The directory outlives an invocation, so the *)
(* model runs the script up to MaxInv times over one directory.            *)
(*                                                                         *)
(* A file's content is abstracted to the invocation that wrote it (0: no  *)
(* such file, Truncated: opened with 'w' and the write raised).  The text *)
(* of the templates and of the config is left out: what matters is        *)
(* whether the five generators succeed, whether the config has symlinks,  *)
(* and which package name the files are written for.                      *)
(***************************************************************************)
EXTENDS Naturals, Sequences, TLAPS

CONSTANTS
    Name,     \* package names, from the config or the command line
    MaxInv    \* invocations of the script over one output directory

Truncated == MaxInv + 1
Fixed     == {"changelog", "control", "copyright", "rules"}
(* Lines 53-56: the order generate_and_write_all writes them in.           *)
Order     == <<"changelog", "control", "copyright", "rules">>
(* FILE_SYMLINK_FORMAT, line 19: {package_name}.links, one file per name, *)
(* named here by the package name itself.                                  *)
LinksFile(nm) == nm
File      == Fixed \cup {LinksFile(nm) : nm \in Name}

(* One command line and what it meets: len(sys.argv), argv[4] ("" when    *)
(* given empty), the three path checks, json.load, the five generators,   *)
(* the config's package_name and whether its "symlinks" has entries.      *)
Call == [argc : 1..6, argName : Name \cup {""}, paths : BOOLEAN,
         loads : BOOLEAN, gen : BOOLEAN, cfgName : Name, links : BOOLEAN]

Ended == {"idle", "exit", "crash", "done"}

VARIABLES
    out,         \* the output directory: File -> 0..Truncated
    inv,         \* the invocation running or last run
    call,        \* its command line and inputs
    pc,          \* where it is, or how it ended (Ended)
    w,           \* the next position of Order to write; 5: the links file
    crashSince   \* a write raised since the last invocation that completed

vars == <<out, inv, call, pc, w, crashSince>>

(* package_name or config_data["package_name"], lines 96, 130, 171, 176.  *)
PkgName == IF call.argc >= 5 /\ call.argName # "" THEN call.argName ELSE call.cfgName

Init ==
    /\ out = [f \in File |-> 0]
    /\ inv = 0
    /\ call = CHOOSE c \in Call : TRUE
    /\ pc = "idle"
    /\ w = 1
    /\ crashSince = FALSE

(* Lines 259-267: the build runs the script again over the directory.      *)
Execute ==
    /\ pc \in Ended
    /\ inv < MaxInv
    /\ inv' = inv + 1
    /\ call' \in Call
    /\ pc' = "args"
    /\ UNCHANGED <<out, w, crashSince>>

(* parse_and_validate_args, lines 224-257: fewer than three arguments or  *)
(* a missing config, template or output directory end in help_and_exit.   *)
ParseAndValidateArgs ==
    /\ pc = "args"
    /\ pc' = IF call.argc >= 4 /\ call.paths THEN "load" ELSE "exit"
    /\ UNCHANGED <<out, inv, call, w, crashSince>>

(* load_json, lines 199-204 and 262: outside the try, so a decode error   *)
(* is an uncaught exception.                                               *)
LoadJson ==
    /\ pc = "load"
    /\ pc' = IF call.loads THEN "generate" ELSE "crash"
    /\ UNCHANGED <<out, inv, call, w, crashSince>>

(* Lines 38-51 with the generators (65-166) and get_template (206-213):   *)
(* every file's text is built before any is written; a missing template    *)
(* or config key is caught and ends in help_and_exit.                      *)
Generate ==
    /\ pc = "generate"
    /\ pc' = IF call.gen THEN "write" ELSE "exit"
    /\ w' = 1
    /\ UNCHANGED <<out, inv, call, crashSince>>

(* write_file, lines 215-221: the file now holds this invocation's text.   *)
WriteOk(f) == out' = [out EXCEPT ![f] = inv]

(* write_file raises: open(path, 'w') fails and the old file stays, or it  *)
(* truncated the file and out_file.write fails; the exception ends the    *)
(* script.                                                                 *)
WriteRaises(f) ==
    /\ out' \in {out, [out EXCEPT ![f] = Truncated]}
    /\ pc' = "crash"
    /\ crashSince' = TRUE

(* Lines 53-56: the four mandatory files, in order.                        *)
WriteFixed ==
    /\ pc = "write"
    /\ w <= 4
    /\ \/ WriteOk(Order[w]) /\ w' = w + 1 /\ UNCHANGED <<pc, crashSince>>
       \/ WriteRaises(Order[w]) /\ UNCHANGED w
    /\ UNCHANGED <<inv, call>>

(* Lines 58-63: the links file only when the config has symlinks, named   *)
(* by get_symlink_filename (175-177); then the script ends.               *)
WriteLinks ==
    /\ pc = "write"
    /\ w = 5
    /\ \/ call.links /\ WriteOk(LinksFile(PkgName)) /\ pc' = "done" /\ crashSince' = FALSE
       \/ call.links /\ WriteRaises(LinksFile(PkgName))
       \/ ~call.links /\ pc' = "done" /\ crashSince' = FALSE /\ UNCHANGED out
    /\ UNCHANGED <<inv, call, w>>

Next == Execute \/ ParseAndValidateArgs \/ LoadJson \/ Generate
        \/ WriteFixed \/ WriteLinks

Spec == Init /\ [][Next]_vars

-----------------------------------------------------------------------------
TypeOK ==
    /\ out \in [File -> 0..Truncated]
    /\ inv \in 0..MaxInv
    /\ call \in Call
    /\ pc \in Ended \cup {"args", "load", "generate", "write"}
    /\ w \in 1..5
    /\ crashSince \in BOOLEAN

(* When an invocation completes, changelog, control, copyright and rules   *)
(* all hold its output, and so does the links file of the package name    *)
(* given on the command line (or, failing that, in the config) whenever  *)
(* the config has symlinks: no write of generate_and_write_all is skipped *)
(* or aimed at another name.                                               *)
FreshAfterSuccess ==
    pc = "done" =>
        /\ \A f \in Fixed : out[f] = inv
        /\ call.links => out[LinksFile(PkgName)] = inv

(* Between invocations, the four mandatory files come from one and the    *)
(* same invocation unless a write raised since the last invocation that   *)
(* completed: a bad argument, an unreadable config or a failing template  *)
(* (the try of lines 38-51) never leaves the directory half rewritten.    *)
MixedOnlyAfterWriteFailure ==
    pc \in Ended /\ (\E f, g \in Fixed : out[f] # out[g]) => crashSince

-----------------------------------------------------------------------------
(* What the proofs need of the constants: some package name, a natural    *)
(* bound, and no links file named like a mandatory file.                   *)
ConstOK == Name # {} /\ MaxInv \in Nat /\ Name \cap Fixed = {}

(* While the mandatory files are written, those before position w hold     *)
(* this invocation's output; with no failed write since the last complete  *)
(* invocation, those from w on still agree with each other.               *)
IInv ==
    /\ TypeOK
    /\ pc = "write" => \A j \in 1..w - 1 : out[Order[j]] = inv
    /\ ~crashSince /\ pc = "write" => \A j, l \in w..4 : out[Order[j]] = out[Order[l]]
    /\ ~crashSince /\ pc # "write" => \A f, g \in Fixed : out[f] = out[g]
    /\ FreshAfterSuccess

LEMMA OrderFixed ==
    /\ \A j \in 1..4 : Order[j] \in Fixed
    /\ \A f \in Fixed : \E j \in 1..4 : Order[j] = f
BY DEF Order, Fixed

LEMMA InitIInv == ConstOK /\ Init => IInv
<1> SUFFICES ASSUME ConstOK, Init PROVE IInv
  OBVIOUS
<1>1. (CHOOSE c \in Call : TRUE) \in Call
  <2>1. PICK nm \in Name : TRUE
    BY DEF ConstOK
  <2>2. [argc |-> 1, argName |-> "", paths |-> TRUE, loads |-> TRUE, gen |-> TRUE,
         cfgName |-> nm, links |-> TRUE] \in Call
    BY <2>1 DEF Call
  <2>3. QED
    BY <2>2, Zenon
<1>2. call \in Call
  BY <1>1 DEF Init
<1>3. out = [f \in File |-> 0] /\ inv = 0 /\ pc = "idle" /\ w = 1 /\ crashSince = FALSE
  BY Zenon DEF Init
<1>4. TypeOK
  <2>1. out \in [File -> 0..Truncated]
    BY <1>3 DEF ConstOK, Truncated
  <2>2. inv \in 0..MaxInv
    BY <1>3 DEF ConstOK
  <2>3. w \in 1..5
    BY <1>3
  <2>4. QED
    BY <1>2, <1>3, <2>1, <2>2, <2>3, Zenon DEF TypeOK, Ended
<1>5. QED
  BY <1>3, <1>4 DEF IInv, FreshAfterSuccess, File

LEMMA NextIInv == ConstOK /\ IInv /\ [Next]_vars => IInv'
<1> SUFFICES ASSUME ConstOK, IInv, [Next]_vars PROVE IInv'
  OBVIOUS
<1> USE DEF ConstOK
<1>1. CASE Execute
  BY <1>1 DEF IInv, TypeOK, Execute, Ended, FreshAfterSuccess
<1>2. CASE ParseAndValidateArgs
  BY <1>2 DEF IInv, TypeOK, ParseAndValidateArgs, Ended, FreshAfterSuccess
<1>3. CASE LoadJson
  BY <1>3 DEF IInv, TypeOK, LoadJson, Ended, FreshAfterSuccess
<1>4. CASE Generate
  BY <1>4, OrderFixed DEF IInv, TypeOK, Generate, Ended, FreshAfterSuccess
<1>5. CASE WriteFixed
  <2>1. Order[w] \in File
    BY <1>5, OrderFixed DEF IInv, TypeOK, WriteFixed, File
  <2>2. CASE WriteOk(Order[w]) /\ w' = w + 1 /\ UNCHANGED <<pc, crashSince>>
    <3>1. \A j \in 1..4 : j # w => Order[j] # Order[w]
      BY <1>5 DEF IInv, TypeOK, WriteFixed, Order
    <3>2. TypeOK'
      BY <1>5, <2>1, <2>2 DEF IInv, TypeOK, WriteFixed, WriteOk, Truncated
    <3>3. QED
      BY <1>5, <2>1, <2>2, <3>1, <3>2 DEF IInv, TypeOK, WriteFixed, WriteOk, FreshAfterSuccess
  <2>3. CASE WriteRaises(Order[w]) /\ UNCHANGED w
    BY <1>5, <2>1, <2>3 DEF IInv, TypeOK, WriteFixed, WriteRaises, Truncated, Ended,
                          FreshAfterSuccess
  <2>4. QED
    BY <1>5, <2>2, <2>3 DEF WriteFixed
<1>6. CASE WriteLinks
  <2>1. \A f \in Fixed : out[f] = inv
    BY <1>6, OrderFixed DEF IInv, TypeOK, WriteLinks
  <2>2. PkgName \in Name /\ PkgName \notin Fixed
    BY <1>6 DEF IInv, TypeOK, WriteLinks, PkgName, Call
  <2>3. LinksFile(PkgName) \in File
    BY <2>2 DEF LinksFile, File
  <2>4. CASE call.links /\ WriteOk(LinksFile(PkgName)) /\ pc' = "done" /\ crashSince' = FALSE
    <3>1. TypeOK'
      <4>1. inv \in 0..Truncated
        BY DEF IInv, TypeOK, Truncated
      <4>2. out' \in [File -> 0..Truncated]
        BY <2>3, <2>4, <4>1 DEF IInv, TypeOK, WriteOk
      <4>3. QED
        BY <1>6, <2>4, <4>2 DEF IInv, TypeOK, WriteLinks, Ended
    <3>2. \A f \in Fixed : out'[f] = inv'
      BY <1>6, <2>1, <2>2, <2>4 DEF IInv, TypeOK, WriteLinks, WriteOk, LinksFile
    <3>3. out'[LinksFile(PkgName)'] = inv'
      BY <1>6, <2>3, <2>4 DEF IInv, TypeOK, WriteLinks, WriteOk, PkgName
    <3>4. QED
      BY <1>6, <2>4, <3>1, <3>2, <3>3 DEF IInv, WriteLinks, FreshAfterSuccess
  <2>5. CASE call.links /\ WriteRaises(LinksFile(PkgName))
    BY <1>6, <2>3, <2>5 DEF IInv, TypeOK, WriteLinks, WriteRaises, Truncated, Ended,
                          FreshAfterSuccess
  <2>6. CASE ~call.links /\ pc' = "done" /\ crashSince' = FALSE /\ UNCHANGED out
    BY <1>6, <2>1, <2>6 DEF IInv, TypeOK, WriteLinks, Ended, FreshAfterSuccess
  <2>7. QED
    BY <1>6, <2>4, <2>5, <2>6 DEF WriteLinks
<1>7. CASE UNCHANGED vars
  BY <1>7 DEF IInv, TypeOK, vars, FreshAfterSuccess, PkgName
<1>8. QED
  BY <1>1, <1>2, <1>3, <1>4, <1>5, <1>6, <1>7 DEF Next

(* For every set of package names and every number of invocations over    *)
(* one output directory, each invocation of config_template_generator.py  *)
(* that completes leaves all its files, the links file under the right    *)
(* package name included, holding its own output.                         *)
THEOREM SuccessIsFresh ==
    ASSUME ConstOK PROVE Spec => []FreshAfterSuccess
<1>1. IInv => FreshAfterSuccess
  BY DEF IInv
<1>2. QED
  BY InitIInv, NextIInv, <1>1, PTL DEF Spec

(* For every set of package names and every number of invocations, the    *)
(* mandatory files are left mixed between invocations only by a write    *)
(* that raised: generation before writing keeps every other failure from *)
(* touching the directory.                                                 *)
THEOREM MixedOnlyOnWriteFailure ==
    ASSUME ConstOK PROVE Spec => []MixedOnlyAfterWriteFailure
<1>1. IInv => MixedOnlyAfterWriteFailure
  BY DEF IInv, MixedOnlyAfterWriteFailure, Ended
<1>2. QED
  BY InitIInv, NextIInv, <1>1, PTL DEF Spec
=============================================================================
