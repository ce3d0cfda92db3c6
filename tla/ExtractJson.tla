----------------------------- MODULE ExtractJson -----------------------------
(***************************************************************************)
(* src/Installers/Debian/tools/scripts/extract_json_value.py: given a JSON *)
(* file and a key such as "release.package_version", print the value the  *)
(* dotted key names, or exit with a message.                               *)
(*                                                                         *)
(* The key is split on '.' into n >= 1 segments (str.split never returns  *)
(* an empty list).  The walk of extract_key reads only the values that     *)
(* the first 0, 1, ..., n segments name, so the document is abstracted to *)
(* that chain: val[j] is the kind of the value under the first j segments  *)
(* (val[0] the whole document), "absent" when no such key exists.  Which  *)
(* key names the segments are, and the text str() prints, are left out.   *)
(***************************************************************************)
EXTENDS Naturals, TLAPS

CONSTANT MaxDepth   \* the most segments a key argument has

Kind    == {"obj", "list", "str", "num", "bool", "null"}
Missing == {"absent", "null"}   \* what dict.get(key, None) returns as None

(* json.load builds a value; a key exists under a value only when every   *)
(* proper prefix of its path names an object.                              *)
Chain(n) ==
    { v \in [0..n -> Kind \cup {"absent"}] :
        /\ v[0] # "absent"
        /\ \A j \in 1..n : v[j] # "absent" => \A l \in 0..j-1 : v[l] = "obj" }

Outcome == Kind \cup {"none", "InvalidArgs", "InvalidPath", "LoadError",
                      "InvalidKey", "AttributeError"}
Final   == {"exit", "crash", "printed"}

VARIABLES
    argc,    \* len(sys.argv), the script name included
    isFile,  \* os.path.isfile(json_path)
    loads,   \* the file opens and holds JSON
    n,       \* len(json_key.split('.'))
    val,     \* the document along the key's segments
    pc,      \* "args", "load", "walk", or one of Final
    i,       \* segments looked up so far; json_context is val[i]
    out      \* the message of help_and_exit, the exception, or the value printed

vars == <<argc, isFile, loads, n, val, pc, i, out>>

Init ==
    /\ argc \in 1..3
    /\ isFile \in BOOLEAN
    /\ loads \in BOOLEAN
    /\ n \in 1..MaxDepth
    /\ val \in Chain(n)
    /\ pc = "args"
    /\ i = 0
    /\ out = "none"

(* parse_and_validate_args, lines 25-36: too few arguments, then a path   *)
(* that is not a file, exit through help_and_exit (lines 20-23).           *)
ParseAndValidateArgs ==
    /\ pc = "args"
    /\ \/ /\ argc < 3
          /\ pc' = "exit" /\ out' = "InvalidArgs"
       \/ /\ argc >= 3 /\ ~isFile
          /\ pc' = "exit" /\ out' = "InvalidPath"
       \/ /\ argc >= 3 /\ isFile
          /\ pc' = "load" /\ UNCHANGED out
    /\ UNCHANGED <<argc, isFile, loads, n, val, i>>

(* extract_key, lines 39-45: open and json.load raise on an unreadable    *)
(* file or invalid JSON; otherwise the walk starts at the whole document.  *)
LoadJson ==
    /\ pc = "load"
    /\ \/ /\ loads
          /\ pc' = "walk" /\ i' = 0 /\ UNCHANGED out
       \/ /\ ~loads
          /\ pc' = "crash" /\ out' = "LoadError" /\ UNCHANGED i
    /\ UNCHANGED <<argc, isFile, loads, n, val>>

(* Lines 47-51, one segment: .get on a value that is not a dict raises    *)
(* AttributeError; a key that is absent or holds null gives None and       *)
(* help_and_exit("Error: Invalid json key").                               *)
GetKey ==
    /\ pc = "walk"
    /\ i < n
    /\ \/ /\ val[i] # "obj"
          /\ pc' = "crash" /\ out' = "AttributeError" /\ UNCHANGED i
       \/ /\ val[i] = "obj" /\ val[i + 1] \in Missing
          /\ pc' = "exit" /\ out' = "InvalidKey" /\ UNCHANGED i
       \/ /\ val[i] = "obj" /\ val[i + 1] \notin Missing
          /\ i' = i + 1 /\ UNCHANGED <<pc, out>>
    /\ UNCHANGED <<argc, isFile, loads, n, val>>

(* Lines 53-63: the loop has consumed every segment; str() of the value is *)
(* returned by execute and printed.                                        *)
PrintValue ==
    /\ pc = "walk"
    /\ i = n
    /\ pc' = "printed" /\ out' = val[n]
    /\ UNCHANGED <<argc, isFile, loads, n, val, i>>

Next == ParseAndValidateArgs \/ LoadJson \/ GetKey \/ PrintValue

Spec == Init /\ [][Next]_vars

-----------------------------------------------------------------------------
TypeOK ==
    /\ argc \in 1..3 /\ isFile \in BOOLEAN /\ loads \in BOOLEAN
    /\ n \in 1..MaxDepth /\ val \in Chain(n)
    /\ pc \in {"args", "load", "walk"} \cup Final
    /\ i \in 0..n
    /\ out \in Outcome

(* The first segment whose lookup returns None, when the full key does.    *)
FirstMissing ==
    CHOOSE j \in 1..n : val[j] \in Missing /\ \A l \in 1..j - 1 : val[l] \notin Missing

(* Reference: what the script ends with, stated on its inputs alone.       *)
Expected ==
    IF argc < 3 THEN "InvalidArgs"
    ELSE IF ~isFile THEN "InvalidPath"
    ELSE IF ~loads THEN "LoadError"
    ELSE IF val[n] \notin Missing THEN val[n]
    ELSE IF val[FirstMissing - 1] = "obj" THEN "InvalidKey"
    ELSE "AttributeError"

(* extract_key prints the value the whole dotted key names, never null;   *)
(* "Invalid json key" means the first missing segment sits under an        *)
(* object, and an AttributeError that it sits under a list or a scalar    *)
(* (or a null document): the walk ends the way the reference says.        *)
ExtractMatchesReference == pc \in Final => out = Expected

-----------------------------------------------------------------------------
(* The walk has passed only segments that hold a value, so when it stops   *)
(* early the segment it stops at is the first one missing.                 *)
IInv ==
    /\ TypeOK
    /\ pc \in {"load", "walk"} => argc >= 3 /\ isFile
    /\ pc = "walk" => loads /\ \A l \in 1..i : val[l] \notin Missing
    /\ pc \in Final => out = Expected

(* The least segment whose lookup gives None is the one the walk met.      *)
LEMMA FirstMissingAt ==
    ASSUME n \in Nat, NEW k \in 1..n, val[k] \in Missing,
           \A l \in 1..k - 1 : val[l] \notin Missing
    PROVE  FirstMissing = k
<1> DEFINE P(j) == val[j] \in Missing /\ \A l \in 1..j - 1 : val[l] \notin Missing
<1>1. \A j \in 1..n : P(j) => j = k
  OBVIOUS
<1>2. FirstMissing \in 1..n /\ P(FirstMissing)
  BY Zenon DEF FirstMissing
<1>3. QED
  BY <1>1, <1>2

(* A walk that stops at segment i + 1 leaves the whole key missing, and    *)
(* segment i + 1 is the first missing one.                                 *)
LEMMA StopsAtFirstMissing ==
    ASSUME TypeOK, i < n, val[i + 1] \in Missing,
           \A l \in 1..i : val[l] \notin Missing
    PROVE  /\ val[n] \in Missing
           /\ FirstMissing = i + 1
<1>1. val[n] \in Missing
  BY DEF TypeOK, Chain, Missing
<1>2. QED
  BY <1>1, FirstMissingAt DEF TypeOK

(* Under a value that is not an object, the next segment names nothing.    *)
LEMMA NothingUnderScalar ==
    ASSUME TypeOK, i < n, val[i] # "obj"
    PROVE  val[i + 1] = "absent"
BY DEF TypeOK, Chain

LEMMA InitIInv == Init => IInv
BY DEF Init, IInv, TypeOK, Outcome, Final

LEMMA NextIInv == IInv /\ [Next]_vars => IInv'
<1> SUFFICES ASSUME IInv, [Next]_vars PROVE IInv'
  OBVIOUS
<1>1. CASE ParseAndValidateArgs
  BY <1>1 DEF IInv, TypeOK, ParseAndValidateArgs, Expected, Final, Outcome
<1>2. CASE LoadJson
  BY <1>2 DEF IInv, TypeOK, LoadJson, Expected, Final, Outcome
<1>3. CASE GetKey
  <2>1. CASE val[i] # "obj" /\ pc' = "crash" /\ out' = "AttributeError" /\ UNCHANGED i
    <3>1. val[i + 1] = "absent"
      BY <1>3, <2>1, NothingUnderScalar DEF IInv, GetKey
    <3>2. val[n] \in Missing /\ FirstMissing = i + 1
      BY <1>3, <2>1, <3>1, StopsAtFirstMissing DEF IInv, GetKey, Missing
    <3>3. Expected = "AttributeError"
      BY <1>3, <2>1, <3>2 DEF IInv, TypeOK, GetKey, Expected
    <3>4. QED
      BY <1>3, <2>1, <3>3 DEF IInv, TypeOK, GetKey, Expected, FirstMissing, Final, Outcome
  <2>2. CASE val[i] = "obj" /\ val[i + 1] \in Missing
             /\ pc' = "exit" /\ out' = "InvalidKey" /\ UNCHANGED i
    <3>1. val[n] \in Missing /\ FirstMissing = i + 1
      BY <1>3, <2>2, StopsAtFirstMissing DEF IInv, GetKey, Missing
    <3>2. Expected = "InvalidKey"
      BY <1>3, <2>2, <3>1 DEF IInv, TypeOK, GetKey, Expected
    <3>3. QED
      BY <1>3, <2>2, <3>2 DEF IInv, TypeOK, GetKey, Expected, FirstMissing, Final, Outcome
  <2>3. CASE val[i] = "obj" /\ val[i + 1] \notin Missing
             /\ i' = i + 1 /\ UNCHANGED <<pc, out>>
    BY <1>3, <2>3 DEF IInv, TypeOK, GetKey, Final
  <2>4. QED
    BY <1>3, <2>1, <2>2, <2>3 DEF GetKey
<1>4. CASE PrintValue
  <2>1. val[n] \notin Missing
    BY <1>4 DEF IInv, TypeOK, PrintValue
  <2>2. QED
    BY <1>4, <2>1 DEF IInv, TypeOK, Chain, PrintValue, Expected, Final, Outcome, Kind, Missing
<1>5. CASE UNCHANGED vars
  BY <1>5 DEF IInv, TypeOK, Expected, FirstMissing, vars
<1>6. QED
  BY <1>1, <1>2, <1>3, <1>4, <1>5 DEF Next

(* For every depth of key, every document and every argument list, the     *)
(* script of extract_json_value.py ends the way the reference says: it     *)
(* prints the non-null value the dotted key names, or fails on the first   *)
(* missing segment with the message or exception the code raises there.    *)
THEOREM ExtractCorrect == Spec => []ExtractMatchesReference
<1>1. IInv => ExtractMatchesReference
  BY DEF IInv, ExtractMatchesReference
<1>2. QED
  BY InitIInv, NextIInv, <1>1, PTL DEF Spec
=============================================================================
