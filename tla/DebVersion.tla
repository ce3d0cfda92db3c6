------------------------------ MODULE DebVersion ------------------------------
(***************************************************************************)
(* The version comparator of eng/common/cross/install-debs.py:             *)
(* parse_debian_version, compare_upstream_version and                      *)
(* compare_debian_versions (lines 95-133).                                 *)
(*                                                                         *)
(* A version string is the sequence of the code points of its characters, *)
(* drawn from a small alphabet.  One call of compare_debian_versions is    *)
(* one step: its two arguments are chosen in Init and its outcome, the    *)
(* integer returned or the ValueError of line 99, is recorded.             *)
(***************************************************************************)
EXTENDS Integers, SequencesExt

CONSTANTS
    Alphabet,   \* code points the version strings are made of
    MaxLen      \* bound on the length of a version string

Digits  == 48..57                    \* what \d and str.isdigit accept here
Letters == (65..90) \cup (97..122)   \* [A-Za-z]
Hyphen  == 45                        \* "-"
Colon   == 58                        \* ":"

Strs == BoundedSeq(Alphabet, MaxLen)

(* The outcome of a call: an integer returned, or the ValueError raised.  *)
Returns(n) == [raised |-> FALSE, val |-> n]
Raises == [raised |-> TRUE, val |-> 0]

Sign(x) == IF x > 0 THEN 1 ELSE IF x < 0 THEN -1 ELSE 0

(* int() of a run of digits.                                               *)
DecimalValue(run) == FoldLeft(LAMBDA acc, c : 10 * acc + (c - 48), 0, run)

-----------------------------------------------------------------------------
(* Line 97: the match of ^(?:(\d+):)?([^-]+)(?:-(.+))?$.  The epoch group *)
(* takes the maximal run of leading digits and needs a ":" after it; when *)
(* the rest does not match, the regex backtracks to no epoch at all.  The *)
(* upstream part runs to the first "-", must not be empty, and the        *)
(* revision after that "-" must not be empty either.                      *)
LeadingDigits(v) ==
    CHOOSE n \in 0..Len(v) : /\ \A i \in 1..n : v[i] \in Digits
                             /\ n = Len(v) \/ v[n + 1] \notin Digits

HyphensOf(r) == { i \in 1..Len(r) : r[i] = Hyphen }

RestMatches(r) ==
    /\ Len(r) >= 1
    /\ r[1] # Hyphen
    /\ HyphensOf(r) # {} => Min(HyphensOf(r)) < Len(r)

SplitRest(epoch, r) ==
    IF HyphensOf(r) = {}
    THEN [ok |-> TRUE, epoch |-> epoch, up |-> r, rev |-> <<>>]
    ELSE LET h == Min(HyphensOf(r))
         IN [ok |-> TRUE, epoch |-> epoch, up |-> SubSeq(r, 1, h - 1), rev |-> SubSeq(r, h + 1, Len(r))]

(* Lines 95-101: (epoch, upstream, revision), or not ok where line 99    *)
(* raises.  An absent epoch is 0 and an absent revision is "".            *)
ParseVersion(v) ==
    LET n    == LeadingDigits(v)
        rest == SubSeq(v, n + 2, Len(v))
    IN IF n >= 1 /\ n < Len(v) /\ v[n + 1] = Colon /\ RestMatches(rest)
       THEN SplitRest(DecimalValue(SubSeq(v, 1, n)), rest)
       ELSE IF RestMatches(v) THEN SplitRest(0, v)
       ELSE [ok |-> FALSE, epoch |-> 0, up |-> <<>>, rev |-> <<>>]

-----------------------------------------------------------------------------
(* Line 106: re.split with a capturing group returns the digit runs, the  *)
(* letter runs, and the maximal runs of other characters between them;    *)
(* line 107 drops the empty pieces and turns digit runs into int.  The    *)
(* runs of other characters stay in the list as str tokens.               *)
CharKind(c) ==
    IF c \in Digits THEN "digit" ELSE IF c \in Letters THEN "letter" ELSE "other"

RunLength(s) ==
    CHOOSE n \in 1..Len(s) :
        /\ \A i \in 1..n : CharKind(s[i]) = CharKind(s[1])
        /\ n = Len(s) \/ CharKind(s[n + 1]) # CharKind(s[1])

Token(run) ==
    IF run[1] \in Digits THEN [int |-> TRUE, val |-> DecimalValue(run)]
                         ELSE [int |-> FALSE, val |-> run]

RECURSIVE Tokenize(_)
Tokenize(s) ==
    IF s = <<>> THEN <<>>
    ELSE LET n == RunLength(s)
         IN <<Token(SubSeq(s, 1, n))>> \o Tokenize(SubSeq(s, n + 1, Len(s)))

(* Python's comparison of two str: by code point, a proper prefix first.   *)
StrCompare(a, b) ==
    LET D == { i \in 1..Min({Len(a), Len(b)}) : a[i] # b[i] }
    IN IF D = {} THEN Sign(Len(a) - Len(b)) ELSE Sign(a[Min(D)] - b[Min(D)])

(* Mutant: a token of the other kind always sorts first.                   *)
TokenCompareMixedLow(t1, t2) ==
    IF t1.int = t2.int
    THEN IF t1.int THEN Sign(t1.val - t2.val) ELSE StrCompare(t1.val, t2.val)
    ELSE -1

(* Lines 112-117: tokens of one type compare as ints or as strs (line 115 *)
(* gives the sign, equal tokens move on); of different types, the str     *)
(* token is the lower.                                                     *)
TokenCompare(t1, t2) ==
    IF t1.int = t2.int
    THEN IF t1.int THEN Sign(t1.val - t2.val) ELSE StrCompare(t1.val, t2.val)
    ELSE IF ~t1.int THEN -1 ELSE 1

(* Lines 112-119: the first pair of tokens that differ decides; if zip    *)
(* runs out, the difference of the lengths is returned as it is.          *)
CompareTokens(ts1, ts2) ==
    LET D == { i \in 1..Min({Len(ts1), Len(ts2)}) : TokenCompare(ts1[i], ts2[i]) # 0 }
    IN IF D = {} THEN Len(ts1) - Len(ts2) ELSE TokenCompare(ts1[Min(D)], ts2[Min(D)])

(* Lines 103-119.                                                          *)
CompareUpstream(v1, v2) == CompareTokens(Tokenize(v1), Tokenize(v2))

(* Lines 121-133: epochs by difference, then upstream, then revision.     *)
(* Line 123 or 124 raises if either string is malformed.                  *)
CompareDebian(v1, v2) ==
    LET p1 == ParseVersion(v1)
        p2 == ParseVersion(v2)
    IN IF ~p1.ok \/ ~p2.ok THEN Raises
       ELSE IF p1.epoch # p2.epoch THEN Returns(p1.epoch - p2.epoch)
       ELSE IF CompareUpstream(p1.up, p2.up) # 0 THEN Returns(CompareUpstream(p1.up, p2.up))
       ELSE Returns(CompareUpstream(p1.rev, p2.rev))

-----------------------------------------------------------------------------
VARIABLES
    v1, v2,    \* the arguments of the call
    called,    \* whether the call has returned or raised
    result     \* its outcome

vars == <<v1, v2, called, result>>

TypeOK ==
    /\ v1 \in Strs /\ v2 \in Strs
    /\ called \in BOOLEAN
    /\ result \in [raised : BOOLEAN, val : Int]

Init ==
    /\ v1 \in Strs /\ v2 \in Strs
    /\ called = FALSE
    /\ result = Returns(0)

(* One call of compare_debian_versions (lines 121-133).                   *)
Compare ==
    /\ ~called
    /\ called' = TRUE
    /\ result' = CompareDebian(v1, v2)
    /\ UNCHANGED <<v1, v2>>

Spec == Init /\ [][Compare]_vars

-----------------------------------------------------------------------------
(* Every comparison of two strings of the bound, computed once.           *)
CmpTable == [p \in Strs \X Strs |-> CompareDebian(p[1], p[2])]

Valid(v) == ParseVersion(v).ok

Returned == called /\ ~result.raised

(* Spec section 8 (and what the max-version rule of the index parser      *)
(* needs to be order-insensitive): the comparator is a total preorder on  *)
(* well-formed versions.  Swapping the arguments flips the sign of the    *)
(* result, and a result >= 0 is transitive through every third version.   *)
TotalPreorder ==
    Returned =>
        /\ Sign(result.val) = -Sign(CmpTable[<<v2, v1>>].val)
        /\ \A w \in Strs :
              Valid(w) /\ result.val >= 0 /\ CmpTable[<<v2, w>>].val >= 0
                 => CmpTable[<<v1, w>>].val >= 0

-----------------------------------------------------------------------------
(* The comparison of spec section 4.1, where the tokenizer keeps only the  *)
(* maximal runs of digits and of letters and discards every other         *)
(* character as a separator.                                              *)
SpecTokenize(s) == SelectSeq(Tokenize(s), LAMBDA t : t.int \/ t.val[1] \in Letters)

SpecCompare(v1_, v2_) ==
    LET p1 == ParseVersion(v1_)
        p2 == ParseVersion(v2_)
        up  == CompareTokens(SpecTokenize(p1.up), SpecTokenize(p2.up))
    IN IF p1.epoch # p2.epoch THEN Sign(p1.epoch - p2.epoch)
       ELSE IF up # 0 THEN Sign(up)
       ELSE Sign(CompareTokens(SpecTokenize(p1.rev), SpecTokenize(p2.rev)))

(* Spec section 4.1: the call orders its arguments as the section's       *)
(* tokenizer does, separators discarded.                                  *)
CompareMatchesSpec ==
    Returned => Sign(result.val) = SpecCompare(v1, v2)
=============================================================================
