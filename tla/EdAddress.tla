------------------------------ MODULE EdAddress ------------------------------
(***************************************************************************)
(* The address parsers of src/ed/ed.c.                                     *)
(*                                                                         *)
(* A command line is a sequence of tokens: the pointer the C code advances *)
(* is an index into it, and the terminating NUL is what lies past its end. *)
(* A number, a mark ('x) and a delimited expression (/re/ or ?re?) are one *)
(* token each; every other token is one character.  A run of blanks is one *)
(* token.  Two numbers are never adjacent: they would be one number.       *)
(*                                                                         *)
(* Line numbers are 1-based, as in the parsers; marks are 0-based.         *)
(***************************************************************************)
EXTENDS Integers, Sequences

Sym(k)     == [kind |-> k]                              \* one character
Num(v)     == [kind |-> "num", val |-> v, lead |-> v = 0]
Padded(v)  == [kind |-> "num", val |-> v, lead |-> TRUE]  \* "05": v > 0
MarkTok(m) == [kind |-> "mark", mark |-> m]
Regex(d, pat) == [kind |-> d, pat |-> pat]              \* d is "/" or "?"

Kind(s, i) == IF i \in 1..Len(s) THEN s[i].kind ELSE "end"

SkipBlank(s, i) == IF Kind(s, i) = "blank" THEN i + 1 ELSE i

-----------------------------------------------------------------------------
(* parse_one_address: "line" with the line number, "none" (ADDR_NONE) or    *)
(* "error" (ADDR_ERROR); "rest" is the index of the first token not read.   *)

NoAddress(i)    == [res |-> "none",  line |-> 0, rest |-> i]
BadAddress(i)   == [res |-> "error", line |-> 0, rest |-> i]
AddressOf(n, i) == [res |-> "line",  line |-> n, rest |-> i]

AddressAllowed(n, last) == n \in 0..last

\* line n, if it is allowed, for the address that begins at i and ends before rest
Checked(n, last, i, rest) ==
  IF AddressAllowed(n, last) THEN AddressOf(n, rest) ELSE BadAddress(i)

OffsetAtMutant(s, i) ==      \* the sign is forgotten
  IF Kind(s, i) \notin {"+", "-"}  THEN [amount |-> 0, rest |-> i]
  ELSE IF Kind(s, i + 1) # "num"   THEN [amount |-> 0, rest |-> i + 1]
  ELSE [amount |-> s[i + 1].val, rest |-> i + 2]

\* the signed number at i, if there is one, and the place after it
OffsetAt(s, i) ==
  IF Kind(s, i) \notin {"+", "-"}  THEN [amount |-> 0, rest |-> i]
  ELSE IF Kind(s, i + 1) # "num"   THEN [amount |-> 0, rest |-> i + 1]
  ELSE [amount |-> IF Kind(s, i) = "-" THEN -s[i + 1].val ELSE s[i + 1].val, rest |-> i + 2]

\* the address that begins at i with the offset o: what it counts from stands
\* after the offset
BaseAt(s, i, o, current, last, marks) ==
  LET j == o.rest
      Apply(base, rest) == Checked(base + o.amount, last, i, rest)
      marked == marks[s[j].mark]
      \* of a number that begins with "0" that digit alone is read, and not even
      \* that one when the number is longer or a sign follows it
      zero   == s[j].val = 0 /\ Kind(s, j + 1) \notin {"+", "-"}
  IN  IF Kind(s, j) = "end"                        THEN Apply(current, j)
      ELSE IF Kind(s, j) = "$"                     THEN Apply(last, j + 1)
      ELSE IF Kind(s, j) = "."                     THEN Apply(current, j + 1)
      ELSE IF Kind(s, j) = "mark"
        THEN IF marked \in 0..last-1 THEN Apply(marked + 1, j + 1) ELSE BadAddress(i)
      ELSE IF Kind(s, j) = "num" /\ ~s[j].lead     THEN Apply(s[j].val, j + 1)
      ELSE IF Kind(s, j) = "num"                   THEN Apply(0, IF zero THEN j + 1 ELSE j)
      ELSE NoAddress(i)

ParseOneAddress(s, i, current, last, marks) ==
  IF Kind(s, i) \in {"end", ",", ";", "blank"}
    THEN NoAddress(i)
    ELSE BaseAt(s, i, OffsetAt(s, i), current, last, marks)

-----------------------------------------------------------------------------
(* parse_ed_address: addr1, addr2 (0 when absent), have_comma, and the     *)
(* index of the command character; ok is FALSE where the code returns NULL. *)

Parsed(a1, a2, comma, rest) ==
  [ok |-> TRUE, addr1 |-> a1, addr2 |-> a2, comma |-> comma, rest |-> rest]

SyntaxError ==
  [ok |-> FALSE, addr1 |-> 0, addr2 |-> 0, comma |-> FALSE, rest |-> 0]

\* after a comma: a first address missing is 1, a second one the last line
SecondAddress(s, a1, a2, last) ==
  IF a2.res = "error" THEN SyntaxError
  ELSE Parsed(IF a1.line = 0 THEN 1 ELSE a1.line,
              IF a2.res = "none" THEN last ELSE a2.line,
              TRUE, SkipBlank(s, a2.rest))

FirstAddress(s, a1, current, last, marks) ==
  LET j == SkipBlank(s, a1.rest)
  IN  IF a1.res = "error" THEN SyntaxError
      ELSE IF Kind(s, j) # "," THEN Parsed(a1.line, a1.line, FALSE, j)
      ELSE SecondAddress(s, a1, ParseOneAddress(s, SkipBlank(s, j + 1), current, last, marks),
                         last)

ParseEdAddress(s, current, last, marks) ==
  LET i == SkipBlank(s, 1)
  IN  IF Kind(s, i) \in {"end", "#"} THEN Parsed(0, 0, FALSE, i)
      ELSE FirstAddress(s, ParseOneAddress(s, i, current, last, marks), current, last, marks)

(* Callers hand the parsers a 1-based current line: 1 when there is none.   *)
Current1(current_line) == IF current_line >= 0 THEN current_line + 1 ELSE 1

-----------------------------------------------------------------------------
(* search_pattern: the 1-based line a regular expression finds from the    *)
(* current line, wrapping round; 0 when there is none.  A pattern is the    *)
(* set of the texts it matches.  The forward search ends with the current   *)
(* line itself, which it reads even when it lies past the last line.        *)

PastEnd == -1

SearchPatternMutant(lines, current_line, pat, forward) ==  \* begins at the current line
  LET hits  == {i \in 1..Len(lines) : lines[i] \in pat}
      ahead == {i \in hits : IF forward THEN i > current_line ELSE i <= current_line + 1}
      from  == IF ahead # {} THEN ahead ELSE hits
  IN  IF hits = {} THEN 0
      ELSE CHOOSE i \in from : \A k \in from : IF forward THEN i <= k ELSE i >= k

SearchPattern(lines, current_line, pat, forward) ==
  LET n     == Len(lines)
      start == IF current_line >= 0 THEN current_line ELSE 0
      hits  == {i \in 1..n : lines[i] \in pat}
      later   == {i \in hits : i > start + 1}
      earlier == {i \in hits : i <= start}
      First(S) == CHOOSE i \in S : \A k \in S : i <= k
      Last(S)  == CHOOSE i \in S : \A k \in S : i >= k
  IN  IF hits = {} THEN IF n > 0 /\ forward /\ start >= n THEN PastEnd ELSE 0
      ELSE IF forward THEN First(IF later # {} THEN later ELSE hits)
      ELSE Last(IF earlier # {} THEN earlier ELSE hits)

(* parse_address, the parser of the destination of m and t and of the      *)
(* address of =: a 0-based line, NoLine, or PastEndLine when the search     *)
(* reads past the buffer.                                                   *)

NoLine      == -1
PastEndLine == -2

LineInBuffer(n, last) == IF n \in 1..last THEN n - 1 ELSE NoLine

\* the line that the expression at i has found, with the offset that follows it
\* (the marks are hidden from it)
FromFound(s, i, found, last, marks) ==
  LET moved == ParseOneAddress(s, i + 1, found, last, [m \in DOMAIN marks |-> -1])
  IN  IF found = PastEnd THEN PastEndLine
      ELSE IF found = 0 \/ moved.res = "error" THEN NoLine
      ELSE LineInBuffer(IF moved.res = "line" THEN moved.line ELSE found, last)

ParseAddress(lines, current_line, marks, s) ==
  LET i    == SkipBlank(s, 1)
      last == Len(lines)
      one  == ParseOneAddress(s, i, Current1(current_line), last, marks)
  IN  IF Kind(s, i) = "end" THEN current_line
      ELSE IF Kind(s, i) \in {"/", "?"}
        THEN FromFound(s, i, SearchPattern(lines, current_line, s[i].pat, Kind(s, i) = "/"),
                       last, marks)
      ELSE IF one.res = "line" THEN LineInBuffer(one.line, last) ELSE NoLine

-----------------------------------------------------------------------------
(* How execute_command turns the two parsed addresses into a 0-based range. *)

NoRange == [start |-> -1, end |-> -1]

(* p d n l c j s m t: the current line by default *)
LineRangeMutant(p, current_line, n) ==    \* the second address taken as 1-based
  [start |-> IF p.addr1 > 0 THEN p.addr1 - 1 ELSE current_line,
   end   |-> IF p.addr2 > 0 THEN p.addr2 ELSE current_line]

LineRange(p, current_line, n) ==
  IF p.addr1 = 0 /\ p.addr2 = 0
    THEN IF n > 0 /\ current_line >= 0
           THEN [start |-> current_line, end |-> current_line]
           ELSE NoRange
    ELSE [start |-> IF p.addr1 > 0 THEN p.addr1 - 1 ELSE 0,
          end   |-> IF p.addr2 > 0 THEN p.addr2 - 1 ELSE p.addr1 - 1]

(* W: every line by default *)
WholeRange(p, n) ==
  IF p.addr1 = 0 /\ p.addr2 = 0
    THEN [start |-> 0, end |-> n - 1]
    ELSE [start |-> IF p.addr1 > 0 THEN p.addr1 - 1 ELSE 0,
          end   |-> IF p.addr2 > 0 THEN p.addr2 - 1 ELSE p.addr1 - 1]

(* g v: every line by default, and up to the last line when addr2 is 0 *)
GlobalRange(p, n) ==
  IF p.addr1 = 0 /\ p.addr2 = 0
    THEN [start |-> 0, end |-> n - 1]
    ELSE [start |-> IF p.addr1 > 0 THEN p.addr1 - 1 ELSE 0,
          end   |-> IF p.addr2 > 0 THEN p.addr2 - 1 ELSE n - 1]

InBuffer(r, n) == r.start \in 0..n-1 /\ r.end \in 0..n-1

(* parse_address_range, the older interface to the range parser: unlike     *)
(* execute_command it refuses a range whose ends are in the wrong order.    *)
OrderedRange(p, current_line, n) ==
  LET a1 == IF p.addr1 > 0 THEN p.addr1 - 1 ELSE 0
      a2 == IF p.addr2 > 0 THEN p.addr2 - 1 ELSE 0
  IN  IF ~p.ok THEN NoRange
      ELSE IF p.addr1 = 0 /\ p.addr2 = 0 THEN LineRange(p, current_line, n)
      ELSE IF a1 \in 0..n-1 /\ a2 \in 0..n-1 /\ a1 <= a2
             THEN [start |-> a1, end |-> a2]
             ELSE NoRange

ParseAddressRange(s, current_line, n, marks) ==
  OrderedRange(ParseEdAddress(s, Current1(current_line), n, marks), current_line, n)

=============================================================================
