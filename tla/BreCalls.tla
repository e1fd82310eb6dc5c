------------------------------ MODULE BreCalls ------------------------------
(***************************************************************************)
(* The two functions of bre.h that programs call: bre_match and            *)
(* bre_substitute, for every pattern, text and replacement of an instance. *)
(***************************************************************************)
EXTENDS Bre

CONSTANTS
  Patterns, Texts,
  Replacements  \* sequences of [c, g]: the character c, or with g > 0 the group g

VARIABLES
  pattern, text, replacement,
  match,      \* what bre_match left in its BreMatch, with its result
  output,     \* what bre_substitute returned; <<"none">> before, <<"error">>
  at          \* "match", "substitute", "done"

bvars == <<pattern, text, replacement, match, output, at>>

bre_match ==
  /\ at = "match"
  /\ match' = Matched(pattern, text)
  /\ at' = "substitute"
  /\ UNCHANGED <<pattern, text, replacement, output>>

bre_substitute ==
  /\ at = "substitute"
  /\ output' = CASE match.r = "error" -> <<"error">>
                 [] match.r = "no" -> text
                 [] OTHER -> SubSeq(text, 1, match.start - 1) \o Expand(match, text, replacement)
                             \o SubSeq(text, match.start + match.len, Len(text))
  /\ at' = "done"
  /\ UNCHANGED <<pattern, text, replacement, match>>

BInit ==
  /\ pattern \in Patterns /\ text \in Texts /\ replacement \in Replacements
  /\ match = [r |-> "none", start |-> 0, len |-> 0, groups |-> <<>>]
  /\ output = <<"none">>
  /\ at = "match"

BNext == bre_match \/ bre_substitute
BSpec == BInit /\ [][BNext]_bvars

-----------------------------------------------------------------------------
BTypeOK ==
  /\ at \in {"match", "substitute", "done"}
  /\ match.r \in {"none", "ok", "no", "error"}
  /\ Len(match.groups) <= MaxGroups

(* bre_match finds the leftmost match, and of those the longest, whenever    *)
(* there is one: the greedy search with its backtracking misses none.       *)
FindsLeftmostLongest ==
  LET starts == Starts(pattern, text) IN
  /\ at # "match"
  /\ \A i \in DOMAIN pattern: Kind(pattern, i) \notin {"open", "close"}
  /\ match.r # "error"
  => /\ match.r = "ok" <=> starts # {}
     /\ \A s \in starts: (\A o \in starts: s <= o) =>
          match.start = s /\ match.start + match.len = LongestEnd(pattern, text, s)

(* What the groups captured lies within the match, no two of them overlap,   *)
(* and \1, \2, ... are in the order of the text: though they are recorded    *)
(* from the last to the first, while the matcher goes back and forth.       *)
GroupsLieInOrder ==
  LET stop(g) == g.start + g.len IN
  match.r = "ok" =>
    /\ \A k \in DOMAIN match.groups:
         match.start <= match.groups[k].start /\ stop(match.groups[k]) <= match.start + match.len
    /\ \A j, k \in DOMAIN match.groups: j < k =>
         /\ match.groups[j].start <= match.groups[k].start
         /\ \/ stop(match.groups[j]) <= match.groups[k].start
            \/ stop(match.groups[k]) <= match.groups[j].start
=============================================================================
