-------------------------------- MODULE Bre --------------------------------
(***************************************************************************)
(* src/src/lib/bre.c: the matcher of basic regular expressions, and the    *)
(* replacement of the first match.                                         *)
(*                                                                         *)
(* A pattern is a sequence of tokens: [t |-> "char", c] (a plain or an     *)
(* escaped character), "any" (.), "class" with its set of characters, the  *)
(* flag invert and closed, "open" and "close" (\( and \)), "star", "plus"  *)
(* (\+), "interval" with min, max (-1: none) and whole, "caret", "dollar",  *)
(* "torn" (a backslash at the end).                                        *)
(* A text is a sequence of characters; positions begin with 1.             *)
(***************************************************************************)
EXTENDS Integers, Sequences, FiniteSets
LOCAL INSTANCE SequencesExt
LOCAL INSTANCE FiniteSetsExt

CONSTANTS
  MaxRepeats,    \* 10000: a repetition without an upper limit
  KeptAdvances,  \* 256: the advances that are remembered
  MaxDup,        \* RE_DUP_MAX
  MaxGroups      \* BRE_MAX_GROUPS

-----------------------------------------------------------------------------
Error == [r |-> "error", len |-> 0, groups |-> <<>>]
NoMatch == [r |-> "no", len |-> 0, groups |-> <<>>]
Ok(len, groups) == [r |-> "ok", len |-> len, groups |-> groups]
AtEnd(T, ti) == ti = Len(T) + 1
Kind(P, i) == P[i].t

(* The quantifier behind an atom, and where the next atom begins. *)
parse_quantifier(P, i, pend) ==
  IF i > pend THEN [ok |-> TRUE, q |-> FALSE, min |-> 1, max |-> 1, next |-> i]
  ELSE CASE Kind(P, i) = "star" -> [ok |-> TRUE, q |-> TRUE, min |-> 0, max |-> -1, next |-> i + 1]
         [] Kind(P, i) = "plus" -> [ok |-> TRUE, q |-> TRUE, min |-> 1, max |-> -1, next |-> i + 1]
         [] Kind(P, i) = "interval" ->
              [ok |-> /\ P[i].whole
                      /\ P[i].min <= MaxDup /\ P[i].max <= MaxDup
                      /\ P[i].max = -1 \/ P[i].min <= P[i].max,
               q |-> TRUE, min |-> P[i].min, max |-> P[i].max, next |-> i + 1]
         [] OTHER -> [ok |-> TRUE, q |-> FALSE, min |-> 1, max |-> 1, next |-> i]

(* One character: * \( and the like are no literals, ^ and $ only at an end. *)
Fits(tok, c) ==
  CASE tok.t = "char" -> tok.c = c
    [] tok.t = "any" -> TRUE
    [] tok.t = "class" -> (c \in tok.set) # tok.invert
    [] tok.t = "plus" -> c = "+"
    [] OTHER -> FALSE

(* The first \) closes a group: groups do not nest. *)
find_group_end(P, pi, pend) ==
  LET ends == {i \in pi + 1..pend: Kind(P, i) = "close"}
  IN IF ends = {} THEN 0 ELSE Min(ends)

RECURSIVE match_here(_, _, _, _, _), Greedy(_, _, _, _, _, _), Backtrack(_, _, _, _, _, _, _),
          Forward(_, _, _, _, _, _), Outer(_, _, _, _, _)

(* An occurrence of the atom P[lo..hi] at tpos. *)
AtomOnce(P, T, lo, hi, tpos) ==
  IF lo = hi THEN IF tpos \in DOMAIN T /\ Fits(P[lo], T[tpos]) THEN Ok(1, <<>>) ELSE NoMatch
  ELSE match_here(P, T, lo + 1, hi - 1, tpos)

(* match_repeated: as many as there are, then one less at a time until the  *)
(* rest matches.  Of the advances KeptAdvances are remembered, the others   *)
(* are taken for 1.                                                         *)
Greedy(P, T, atom, tpos, max, advs) ==
  LET once == AtomOnce(P, T, atom.lo, atom.hi, tpos)
  IN IF Len(advs) = max \/ once.r = "no" THEN [r |-> "ok", tpos |-> tpos, advs |-> advs]
     ELSE IF once.r = "error" THEN [r |-> "error", tpos |-> tpos, advs |-> advs]
     ELSE Greedy(P, T, atom, tpos + once.len, max, Append(advs, once.len))

TooFewMutant(n, min) == n <= min
TooFew(n, min) == n < min

Backtrack(P, T, rep, pend, from, tpos, advs) ==
  LET rest == match_here(P, T, rep.next, pend, tpos)
      have == Len(advs)
      back == IF have <= KeptAdvances THEN advs[have] ELSE 1
      few == TooFew(have, rep.min)
  IN CASE few -> NoMatch
       [] ~few /\ rest.r = "error" -> Error
       [] ~few /\ rest.r = "ok" -> [r |-> "ok", span |-> tpos - from, rest |-> rest]
       [] OTHER -> IF have = 0 THEN NoMatch
                   ELSE Backtrack(P, T, rep, pend, from, tpos - back, Front(advs))

match_repeated(P, T, atom, rep, pend, ti) ==
  LET g == Greedy(P, T, atom, ti, IF rep.max < 0 THEN MaxRepeats ELSE rep.max, <<>>)
  IN IF g.r = "error" THEN Error ELSE Backtrack(P, T, rep, pend, ti, g.tpos, g.advs)

(* A capture is recorded after those of the rest, while there is room. *)
Captured(groups, start, len) ==
  IF Len(groups) < MaxGroups THEN Append(groups, [start |-> start, len |-> len]) ELSE groups

(* A group without quantifier: \(.*\) is tried from the end of the text     *)
(* backwards, another one once at each place from ti on.                    *)
Outer(P, T, ti, ttry, next) ==
  LET rest == match_here(P, T, next, Len(P), ttry)
  IN CASE ttry < ti -> NoMatch
       [] ttry >= ti /\ rest.r = "error" -> Error
       [] ttry >= ti /\ rest.r = "ok" /\ Len(rest.groups) < MaxGroups ->
            Ok(ttry - ti + rest.len, Captured(rest.groups, ti, ttry - ti))
       [] OTHER -> Outer(P, T, ti, ttry - 1, next)

Forward(P, T, atom, pend, ti, tpos) ==
  LET inner == match_here(P, T, atom.lo + 1, atom.hi - 1, tpos)
      rest == match_here(P, T, atom.hi + 1, pend, tpos + inner.len)
  IN CASE tpos > Len(T) -> NoMatch
       [] tpos <= Len(T) /\ (inner.r = "error" \/ (inner.r = "ok" /\ rest.r = "error")) -> Error
       [] tpos <= Len(T) /\ inner.r = "ok" /\ rest.r = "ok" ->
            Ok(tpos - ti + inner.len + rest.len, Captured(rest.groups, tpos, inner.len))
       [] OTHER -> Forward(P, T, atom, pend, ti, tpos + 1)

match_group(P, T, pi, pend, ti) ==
  LET gend == find_group_end(P, pi, pend)
      atom == [lo |-> pi, hi |-> gend]
      rep == parse_quantifier(P, gend + 1, pend)
      dotStar == gend = pi + 3 /\ Kind(P, pi + 1) = "any" /\ Kind(P, pi + 2) = "star"
      many == match_repeated(P, T, atom, rep, pend, ti)
  IN CASE gend = 0 -> Error
       [] gend # 0 /\ ~rep.ok -> Error
       [] gend # 0 /\ rep.ok /\ ~rep.q ->
            IF dotStar THEN Outer(P, T, ti, Len(T) + 1, gend + 1)
            ELSE Forward(P, T, atom, pend, ti, ti)
       [] OTHER -> IF many.r # "ok" THEN many
                   ELSE Ok(many.span + many.rest.len, Captured(many.rest.groups, ti, many.span))

(* The rest of the pattern, pi..pend, at ti. *)
match_here(P, T, pi, pend, ti) ==
  IF pi > pend THEN Ok(0, <<>>)
  ELSE CASE Kind(P, pi) = "dollar" /\ pi = pend -> IF AtEnd(T, ti) THEN Ok(0, <<>>) ELSE NoMatch
         [] Kind(P, pi) = "open" -> match_group(P, T, pi, pend, ti)
         [] Kind(P, pi) \in {"close", "interval", "torn"} -> Error
         [] OTHER ->
              LET rep == parse_quantifier(P, pi + 1, pend)
                  m == match_repeated(P, T, [lo |-> pi, hi |-> pi], rep, pend, ti)
              IN IF (Kind(P, pi) = "class" /\ ~P[pi].closed) \/ ~rep.ok THEN Error
                 ELSE IF m.r # "ok" THEN m ELSE Ok(m.span + m.rest.len, m.rest.groups)

-----------------------------------------------------------------------------
(* bre_sort_groups_by_start: by start, those of one start as they came. *)
Sorted(groups) ==
  LET before(i, j) == groups[i].start < groups[j].start
                      \/ (groups[i].start = groups[j].start /\ i <= j)
      rank(j) == Cardinality({i \in DOMAIN groups: before(i, j)})
  IN [k \in DOMAIN groups |-> groups[CHOOSE j \in DOMAIN groups: rank(j) = k]]

Anchored(P) == P # <<>> /\ Kind(P, 1) = "caret"

(* bre_match: at the beginning if the pattern begins with ^, otherwise the  *)
(* first place where it matches or is found to be wrong.                    *)
FirstOf(at) ==
  LET places == {s \in DOMAIN at: at[s].r # "no"}
      m == at[Min(places)]
  IN IF places = {} THEN [r |-> "no", start |-> 0, len |-> 0, groups |-> <<>>]
     ELSE [r |-> m.r, start |-> IF m.r = "ok" THEN Min(places) ELSE 0, len |-> m.len,
           groups |-> Sorted(m.groups)]

Matched(P, T) ==
  FirstOf([s \in IF Anchored(P) THEN {1} ELSE 1..Len(T) + 1 |->
             match_here(P, T, IF Anchored(P) THEN 2 ELSE 1, Len(P), s)])

(* bre_substitute: \1..\9 stand for a group, for nothing if there is none. *)
Expand(m, T, r) ==
  LET piece(x) == IF x.g = 0 THEN <<x.c>>
                  ELSE IF x.g > Len(m.groups) THEN <<>>
                  ELSE SubSeq(T, m.groups[x.g].start, m.groups[x.g].start + m.groups[x.g].len - 1)
  IN FlattenSeq([k \in DOMAIN r |-> piece(r[k])])

-----------------------------------------------------------------------------
(* What a pattern without groups means: the ends of all its matches that     *)
(* begin at a place of S.                                                   *)
RECURSIVE Ends(_, _, _, _)
Ends(P, T, i, S) ==
  LET q == parse_quantifier(P, i + 1, Len(P))
      times(n) == q.min <= n /\ (q.max < 0 \/ n <= q.max)
      after == {e \in 1..Len(T) + 1:
                  \E s \in S: /\ s <= e /\ times(e - s)
                             /\ \A k \in s..e - 1: Fits(P[i], T[k])}
  IN CASE i > Len(P) -> S
       [] i = Len(P) /\ Kind(P, i) = "dollar" -> S \cap {Len(T) + 1}
       [] OTHER -> Ends(P, T, q.next, after)

(* The places of T where a match begins, and where the longest one ends. *)
Starts(P, T) ==
  {s \in IF Anchored(P) THEN {1} ELSE 1..Len(T) + 1:
     Ends(P, T, IF Anchored(P) THEN 2 ELSE 1, {s}) # {}}
LongestEnd(P, T, s) == Max(Ends(P, T, IF Anchored(P) THEN 2 ELSE 1, {s}))
=============================================================================
