---------------------------- MODULE EdAddressCalls ----------------------------
(***************************************************************************)
(* The address parsers on every line of tokens up to a length: an address is *)
(* typed token by token, for each small buffer, current line and mark, and    *)
(* after each token the parsers are compared with what the address means.     *)
(***************************************************************************)
EXTENDS EdAddress, FiniteSets

CONSTANTS Text,      \* texts of lines; a pattern is a set of them
          MaxTokens, \* length of an address
          MaxLines,  \* length of a buffer
          MaxTyped   \* length of a buffer for which an address is typed

VARIABLES s,             \* the address typed so far
          lines,         \* the buffer
          current_line,  \* 0-based, -1 when there is none
          mark           \* where the mark 'm is, 0-based, -1 when it is not set

avars == <<s, lines, current_line, mark>>

last  == Len(lines)
Marks == [m \in {"m"} |-> mark]
Command == s \o <<Sym("p")>>
Result  == ParseEdAddress(Command, Current1(current_line), last, Marks)

Tokens == {Num(n) : n \in 0..3} \cup {Padded(2), MarkTok("m"), Regex("/", Text)}
            \cup {Sym(k) : k \in {"+", "-", ".", "$", ",", "blank"}}

AInit ==
  /\ s = <<>>
  /\ lines \in UNION {[1..n -> Text] : n \in 0..MaxLines}
  /\ current_line \in (IF lines = <<>> THEN -1 ELSE 0)..last
  /\ mark \in {-1, 1}

\* the texts matter to the searches alone: one buffer of each length is enough
\* for what is typed
TypeToken(k) ==
  /\ Len(s) < MaxTokens /\ last <= MaxTyped
  /\ \A i \in 1..last : lines[i] = "x"
  /\ k.kind \in {"num", "blank"} => Kind(s, Len(s)) # k.kind
  /\ s' = Append(s, k)
  /\ UNCHANGED <<lines, current_line, mark>>

Complete ==
  /\ Len(s) = MaxTokens \/ last > MaxTyped \/ "y" \in {lines[i] : i \in 1..last}
  /\ UNCHANGED avars

ANext == (\E k \in Tokens : TypeToken(k)) \/ Complete

ASpec == AInit /\ [][ANext]_avars

-----------------------------------------------------------------------------
(* The meaning of an address: a line, or Unset for a mark that is not on one  *)

Unset == -9

Absolute == {<<Num(n)>> : n \in 1..3} \cup {<<Sym(".")>>, <<Sym("$")>>, <<MarkTok("m")>>}
Offset   == {<<Sym(g), Num(n)>> : g \in {"+", "-"}, n \in 1..3}
Forms    == Absolute \cup {o \o a : o \in Offset, a \in Absolute \ {<<Num(n)>> : n \in 1..3}}

Base(a) == LET k == a[Len(a)]
           IN  IF k.kind = "num" THEN k.val
               ELSE IF k.kind = "." THEN Current1(current_line)
               ELSE IF k.kind = "$" THEN last
               ELSE IF mark \in 0..last-1 THEN mark + 1 ELSE Unset

Means(a) == IF Len(a) < 3 \/ Base(a) = Unset THEN Base(a)
            ELSE IF a[1].kind = "+" THEN Base(a) + a[2].val ELSE Base(a) - a[2].val

Valid(a) == Means(a) \in 0..last

\* around a comma
Before(k) == SubSeq(s, 1, k - 1)
After(k)  == SubSeq(s, k + 1, Len(s))
First(a)  == IF a = <<>> \/ Means(a) = 0 THEN 1 ELSE Means(a)
Second(b) == IF b = <<>> THEN last ELSE Means(b)
BothValid(a, b) == (a = <<>> \/ Valid(a)) /\ (b = <<>> \/ Valid(b))

\* parse_ed_address gives every address written in one of the forms it knows
\* (a number, ".", "$", a mark, with or without an offset before it; a first
\* address missing is line 1 and a second one the last line) the lines it means,
\* and refuses it exactly when one of them is not in the buffer. Whatever is
\* typed, it returns lines of the buffer, or 0, or the 1 it puts for a missing
\* first address even in an empty buffer, and a place in the line that is not
\* past its end.
InBounds ==
  Result.ok => /\ Result.addr1 \in 0..last \cup {1}
               /\ Result.addr2 \in 0..last
               /\ Result.rest \in 1..Len(s) + 1

ParsesWhatItMeans ==
  /\ InBounds
  /\ s \in Forms =>
       /\ Result.ok <=> Valid(s)
       /\ Valid(s) => Result = Parsed(Means(s), Means(s), FALSE, Len(s) + 1)
  /\ \A k \in DOMAIN s :
       (s[k].kind = "," /\ Before(k) \in Forms \cup {<<>>} /\ After(k) \in Forms \cup {<<>>}) =>
         /\ Result.ok <=> BothValid(Before(k), After(k))
         /\ BothValid(Before(k), After(k)) =>
              Result = Parsed(First(Before(k)), Second(After(k)), TRUE, Len(s) + 1)

\* parse_address_range, the interface the tests use, and the code execute_command
\* has of its own agree on every range the former accepts.
InterfacesAgree ==
  LET old == ParseAddressRange(s, current_line, last, Marks)
  IN  old # NoRange =>
        old = LineRange(ParseEdAddress(s, Current1(current_line), last, Marks),
                        current_line, last)

Steps(i, start, forward) ==
  IF forward THEN (i - 1 - (start + 1) + last) % last ELSE (start - 1 - (i - 1) + last) % last

IsNearest(found, hits, start, forward) ==
  IF hits = {} THEN found = 0
  ELSE /\ found \in hits
       /\ \A i \in hits : Steps(found, start, forward) <= Steps(i, start, forward)

\* search_pattern finds the match that is nearest in its direction, the current
\* line being the farthest.
SearchFindsNearest ==
  (s = <<>> /\ current_line < last) =>
    \A pat \in SUBSET Text, forward \in BOOLEAN :
      IsNearest(SearchPattern(lines, current_line, pat, forward),
                {i \in 1..last : lines[i] \in pat},
                IF current_line >= 0 THEN current_line ELSE 0, forward)

=============================================================================
