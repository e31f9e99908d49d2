------------------------------ MODULE TypeAhead ------------------------------
(***************************************************************************)
(* The type-ahead search of the index view, advanced/indexTypein.js        *)
(* (webapp 3.2.1): searchPattern runs a binary search over the keyword ids *)
(* of the index list with the case-insensitive prefix comparator compare, *)
(* then scans back to the first keyword the pattern is a prefix of.        *)
(*                                                                         *)
(* Strings are sequences of UTF-16 code units; the loops of searchPattern  *)
(* are steps of this module, with the JavaScript (0-based) indices from,   *)
(* to and i.  Inputs are every sorted id list and pattern over a small     *)
(* alphabet (CONSTANTS Chars, MaxLen, MaxIds).                             *)
(***************************************************************************)
EXTENDS Integers, SequencesExt

CONSTANTS
  Chars,   \* code units the keywords and patterns are made of
  MaxLen,  \* longest keyword / pattern
  MaxIds   \* longest id list

ASSUME Chars \subseteq 0..65535 /\ MaxLen \in Nat /\ MaxIds \in Nat

NoId == <<-1>>   \* null

VARIABLES ids, pattern, from, to, i, phase, result

vars == <<ids, pattern, from, to, i, phase, result>>

\* String.prototype.toLowerCase on the ASCII letters
ToLower(c) == IF c \in 65..90 THEN c + 32 ELSE c

\* compare(keyword, pattern): walk both strings while the lower-cased code
\* units agree; 0 when the pattern is exhausted first (a prefix of keyword)
\* Fault variant: compare reports a match only for a strictly longer keyword.
RECURSIVE CompareFrom_StrictLength(_, _, _)
CompareFrom_StrictLength(keyword, pat, k) ==
  IF k <= Len(keyword) /\ k <= Len(pat)
  THEN IF ToLower(keyword[k]) > ToLower(pat[k]) THEN 1
       ELSE IF ToLower(keyword[k]) < ToLower(pat[k]) THEN -1
       ELSE CompareFrom_StrictLength(keyword, pat, k + 1)
  ELSE IF Len(keyword) > Len(pat) THEN 0 ELSE -1

RECURSIVE CompareFrom(_, _, _)
CompareFrom(keyword, pat, k) ==
  IF k <= Len(keyword) /\ k <= Len(pat)
  THEN IF ToLower(keyword[k]) > ToLower(pat[k]) THEN 1
       ELSE IF ToLower(keyword[k]) < ToLower(pat[k]) THEN -1
       ELSE CompareFrom(keyword, pat, k + 1)
  ELSE IF Len(keyword) >= Len(pat) THEN 0 ELSE -1

Compare(keyword, pat) == CompareFrom(keyword, pat, 1)

At(j) == ids[j + 1]   \* parent.listFrame.ids[j]

-----------------------------------------------------------------------------
(***************************************************************************)
(* Inputs and the reference the search is checked against.                *)
(***************************************************************************)
Strings == UNION {[1..n -> Chars] : n \in 0..MaxLen}
Lowered(s) == [k \in DOMAIN s |-> ToLower(s[k])]

\* case-insensitive lexicographic order, the order the index is sorted in
RECURSIVE LexLeq(_, _)
LexLeq(s, t) == \/ s = <<>>
                \/ /\ t # <<>>
                   /\ \/ Head(s) < Head(t)
                      \/ Head(s) = Head(t) /\ LexLeq(Tail(s), Tail(t))

SortedIdLists ==
  {l \in UNION {[1..n -> Strings] : n \in 0..MaxIds} :
     /\ IsInjective(l)
     /\ IsSorted(l, LAMBDA x, y : LexLeq(Lowered(x), Lowered(y)))}

\* the first id the pattern is a case-insensitive prefix of, or null
FirstMatch(l, p) ==
  LET k == SelectInSeq(l, LAMBDA s : IsPrefix(Lowered(p), Lowered(s)))
  IN IF k = 0 THEN NoId ELSE l[k]

-----------------------------------------------------------------------------
(***************************************************************************)
(* The loops of searchPattern.                                             *)
(***************************************************************************)
Init ==
  /\ ids \in SortedIdLists
  /\ pattern \in Strings
  /\ from = 0
  /\ to = Len(ids)
  /\ i = 0
  /\ phase = "search"
  /\ result = NoId

\* one iteration of while (to > from), by the outcome of compare
Probe(outcome) ==
  LET mid == (to + from) \div 2
  IN /\ phase = "search"
     /\ to > from
     /\ Compare(At(mid), pattern) = outcome
     /\ i' = mid

ProbeMatch == Probe(0) /\ phase' = "scan" /\ UNCHANGED <<ids, pattern, from, to, result>>
\* Fault variants: the lower bound moves to the probe itself, or past the
\* element after it.
ProbeBelow_KeepsProbe == Probe(-1) /\ from' = i' /\ UNCHANGED <<ids, pattern, to, phase, result>>
ProbeBelow_SkipsTwo == Probe(-1) /\ from' = i' + 2 /\ UNCHANGED <<ids, pattern, to, phase, result>>
ProbeBelow == Probe(-1) /\ from' = i' + 1 /\ UNCHANGED <<ids, pattern, to, phase, result>>
ProbeAbove == Probe(1) /\ to' = i' /\ UNCHANGED <<ids, pattern, from, phase, result>>

\* the range is empty: return null
Exhausted ==
  /\ phase = "search"
  /\ to <= from
  /\ phase' = "done"
  /\ result' = NoId
  /\ UNCHANGED <<ids, pattern, from, to, i>>

\* while (i > 0): res = compare(ids[--i], pattern); stop (i++) on a mismatch
ScanStep ==
  /\ phase = "scan"
  /\ i > 0
  /\ Compare(At(i - 1), pattern) = 0
  /\ i' = i - 1
  /\ UNCHANGED <<ids, pattern, from, to, phase, result>>

ScanStop ==
  /\ phase = "scan"
  /\ \/ i = 0
     \/ i > 0 /\ Compare(At(i - 1), pattern) # 0
  /\ phase' = "done"
  /\ result' = At(i)
  /\ UNCHANGED <<ids, pattern, from, to, i>>

Next == ProbeMatch \/ ProbeBelow \/ ProbeAbove \/ Exhausted \/ ScanStep \/ ScanStop

\* searchPattern runs to completion inside one intervalHandler call.
Spec == Init /\ [][Next]_vars /\ WF_vars(Next)

-----------------------------------------------------------------------------
TypeOK ==
  /\ Len(ids) <= MaxIds /\ \A k \in DOMAIN ids : ids[k] \in Strings
  /\ pattern \in Strings
  /\ from \in 0..Len(ids) /\ to \in 0..Len(ids) /\ i \in 0..Len(ids)
  /\ phase \in {"search", "scan", "done"}
  /\ result \in {NoId} \cup {ids[k] : k \in DOMAIN ids}

(***************************************************************************)
(* When searchPattern returns, it returns the first id (in list order)     *)
(* that the typed pattern is a case-insensitive prefix of, and null only   *)
(* when there is none: the binary search with compare's prefix tie-break   *)
(* and the backward scan never stop on a later match or miss a match.      *)
(***************************************************************************)
SearchFindsFirstMatch == phase = "done" => result = FirstMatch(ids, pattern)

(***************************************************************************)
(* searchPattern always returns: the binary search narrows [from, to) on   *)
(* every probe and the backward scan stops at index 0.                     *)
(***************************************************************************)
SearchTerminates == <>(phase = "done")

=============================================================================
