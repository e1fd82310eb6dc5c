-------------------------------- MODULE Grep --------------------------------
(***************************************************************************)
(* src/src/grep/grep.c: grep, over the matcher Bre.  Characters are        *)
(* strings, "nl" the newline; a file is a sequence of lines, each of which *)
(* but perhaps the last ends with "nl".  A regular expression is a pattern *)
(* of Bre, a fixed string a sequence of characters.  The options come as a *)
(* set of letters (Getopt reads them), and a pattern list by operand, -e   *)
(* and -f; the file name "-" is the standard input.  Line numbers, file    *)
(* name prefixes and messages are left out.                                *)
(***************************************************************************)
EXTENDS Bre
LOCAL INSTANCE SequencesExt
LOCAL INSTANCE FiniteSetsExt

CONSTANTS
  OptionSets,    \* sets of the letters E F i v w x c l q
  RegexLists, FixedLists,
  Contents,      \* file name -> its lines, or Missing
  FileLists,     \* sequences of file names
  Missing, Lower, WordChars

VARIABLES
  opts, patterns, files,
  fi,            \* the file being read, 0 before the first
  rest,          \* what is left of it
  stdin,         \* what is left of the standard input
  match_count, any_match, had_error,
  printed,       \* sequence of [file, what]: a line, "name" or a count
  exitStatus     \* "run", then 0, 1, 2 as strings

rvars == <<opts, patterns, files, fi, rest, stdin, match_count, any_match, had_error,
           printed, exitStatus>>
given == <<opts, patterns, files>>

opt(o) == o \in opts
Names == IF files = <<>> THEN <<"-">> ELSE files
LowerText(t) == [k \in DOMAIN t |-> IF t[k] \in DOMAIN Lower THEN Lower[t[k]] ELSE t[k]]
LowerChar(c) == LowerText(<<c>>)[1]
LowerPattern(P) ==
  [k \in DOMAIN P |->
     CASE P[k].t = "char" -> [P[k] EXCEPT !.c = LowerChar(@)]
       [] P[k].t = "class" -> [P[k] EXCEPT !.set = {LowerChar(c): c \in @}]
       [] OTHER -> P[k]]
Content(line) == IF line # <<>> /\ Last(line) = "nl" THEN Front(line) ELSE line

(* start is the place of the first character. *)
boundaries_are_word(text, start, mlen) ==
  /\ mlen > 0
  /\ start > 1 => text[start - 1] \notin WordChars
  /\ start + mlen <= Len(text) => text[start + mlen] \notin WordChars

-----------------------------------------------------------------------------
(* literal_eq_case and literal_find_next: the next place at or behind from. *)
Same(a, b) == IF opt("i") THEN LowerText(a) = LowerText(b) ELSE a = b
literal_find_next(hay, ndl, from) ==
  LET places == {s \in from..Len(hay) + 1 - Len(ndl): Same(SubSeq(hay, s, s + Len(ndl) - 1), ndl)}
  IN IF places = {} THEN 0 ELSE Min(places)

RECURSIVE FindLiteral(_, _, _), FindRegex(_, _, _, _),
          Hit(_, _, _, _, _)
FindLiteralMutant(text, pat, pos) ==   \* gives up at the first that is no word
  LET s == literal_find_next(text, pat, pos)
  IN s # 0 /\ (opt("w") => boundaries_are_word(text, s, Len(pat)))
FindLiteral(text, pat, pos) ==
  LET s == literal_find_next(text, pat, pos)
  IN /\ pos <= Len(text) + 1 /\ s # 0
     /\ ~opt("w") \/ boundaries_are_word(text, s, Len(pat)) \/ FindLiteral(text, pat, s + 1)

line_matches_literal(text) ==
  \E p \in DOMAIN patterns:
    IF opt("x") THEN Same(text, patterns[p]) ELSE FindLiteral(text, patterns[p], 1)

(* With -i the target is a lower-case copy of the content, without it the   *)
(* line with its newline.  The search goes on behind the start of a match   *)
(* that is no word, on the rest of the target as if it began there.         *)
Hit(text, target, P, offset, m) ==
  LET s == offset + m.start - 1
  IN /\ m.r = "ok"
     /\ ~opt("w") \/ boundaries_are_word(text, s, m.len) \/ FindRegex(text, target, P, s + 1)
FindRegex(text, target, P, offset) ==
  /\ offset <= Len(text) + 1
  /\ Hit(text, target, P, offset, Matched(P, SubSeq(target, offset, Len(target))))

line_matches_regex(line) ==
  LET text == Content(line)
      target == IF opt("i") THEN LowerText(text) ELSE line
      pattern(p) == IF opt("i") THEN LowerPattern(patterns[p]) ELSE patterns[p]
      whole(P) == <<[t |-> "caret"]>> \o P \o <<[t |-> "dollar"]>>
  IN \E p \in DOMAIN patterns:
       IF opt("x") THEN Matched(whole(pattern(p)), target).r = "ok"
       ELSE FindRegex(text, target, pattern(p), 1)

LineMatches(line) ==
  (IF opt("F") THEN line_matches_literal(Content(line)) ELSE line_matches_regex(line)) # opt("v")

(* A wrong pattern is found only as far as an empty text leads the matcher. *)
validate_regex_patterns ==
  \A p \in DOMAIN patterns:
    /\ Matched(patterns[p], <<>>).r # "error"
    /\ opt("i") => Matched(LowerPattern(patterns[p]), <<>>).r # "error"

-----------------------------------------------------------------------------
Exit(s) == exitStatus' = s
Idle == UNCHANGED <<fi, rest, stdin, match_count, any_match, had_error, printed>>

(* -E, no pattern, a wrong pattern: nothing is read. *)
Accepted ==
  IF opt("E") \/ patterns = <<>> THEN FALSE ELSE IF opt("F") THEN TRUE ELSE validate_regex_patterns

Refuse ==
  /\ exitStatus = "run" /\ fi = 0
  /\ ~Accepted
  /\ Exit("2") /\ Idle
  /\ UNCHANGED given

(* The next file: a missing one counts as an error and is passed over. *)
NextFile ==
  LET i == fi + 1
      f == Names[i]
  IN /\ exitStatus = "run" /\ fi < Len(Names)
     /\ IF fi = 0 THEN Accepted ELSE TRUE
     /\ rest = Missing
     /\ fi' = i /\ match_count' = 0
     /\ IF f # "-" /\ Contents[f] = Missing
        THEN had_error' = TRUE /\ UNCHANGED rest
        ELSE rest' = (IF f = "-" THEN stdin ELSE Contents[f]) /\ UNCHANGED had_error
     /\ UNCHANGED <<given, stdin, any_match, printed, exitStatus>>

Reading == exitStatus = "run" /\ rest # Missing
Consume(r) == stdin' = IF Names[fi] = "-" THEN r ELSE stdin
Show(what) == printed' = Append(printed, [file |-> Names[fi], what |-> what])

(* A line.  -q ends at once, -l leaves the file after its first line. *)
ReadLine ==
  LET line == Head(rest) IN
  /\ Reading /\ rest # <<>>
  /\ Consume(Tail(rest))
  /\ IF ~LineMatches(line)
     THEN rest' = Tail(rest) /\ UNCHANGED <<match_count, any_match, printed, exitStatus>>
     ELSE /\ any_match' = TRUE
          /\ CASE opt("q") -> Exit("0") /\ rest' = Tail(rest) /\ UNCHANGED <<match_count, printed>>
               [] ~opt("q") /\ opt("l") ->
                    rest' = Missing /\ Show(<<"name">>) /\ UNCHANGED <<match_count, exitStatus>>
               [] ~opt("q") /\ ~opt("l") /\ opt("c") ->
                    match_count' = match_count + 1 /\ rest' = Tail(rest)
                    /\ UNCHANGED <<printed, exitStatus>>
               [] OTHER -> Show(line) /\ rest' = Tail(rest) /\ UNCHANGED <<match_count, exitStatus>>
  /\ UNCHANGED <<given, fi, had_error>>

(* The end of a file: its count is printed. *)
EndOfFile ==
  /\ Reading /\ rest = <<>>
  /\ rest' = Missing
  /\ IF opt("c") /\ ~opt("l") THEN Show(<<match_count>>) ELSE UNCHANGED printed
  /\ UNCHANGED <<given, fi, stdin, match_count, any_match, had_error, exitStatus>>

Finish ==
  /\ exitStatus = "run" /\ fi = Len(Names) /\ rest = Missing
  /\ Exit(IF had_error THEN "2" ELSE IF any_match THEN "0" ELSE "1")
  /\ Idle
  /\ UNCHANGED given

RInit ==
  /\ opts \in OptionSets
  /\ patterns \in IF opt("F") THEN FixedLists ELSE RegexLists
  /\ files \in FileLists
  /\ fi = 0 /\ rest = Missing /\ stdin = Contents["-"]
  /\ match_count = 0 /\ any_match = FALSE /\ had_error = FALSE
  /\ printed = <<>> /\ exitStatus = "run"

RNext == Refuse \/ NextFile \/ ReadLine \/ EndOfFile \/ Finish
RSpec == RInit /\ [][RNext]_rvars

RTypeOK ==
  /\ fi \in 0..Len(Names) /\ match_count \in Nat
  /\ any_match \in BOOLEAN /\ had_error \in BOOLEAN
  /\ exitStatus \in {"run", "0", "1", "2"}

-----------------------------------------------------------------------------
(* What the options and patterns say of a line by itself. *)
Fold(t) == IF opt("i") THEN LowerText(t) ELSE t
Acceptable(text, s, len) ==
  /\ opt("x") => s = 1 /\ len = Len(text)
  /\ opt("w") /\ ~opt("x") => boundaries_are_word(text, s, len)

Means(P, text) ==
  IF opt("F")
  THEN \E s \in 1..Len(text) + 1 - Len(P):
         /\ Fold(SubSeq(text, s, s + Len(P) - 1)) = Fold(P)
         /\ Acceptable(text, s, Len(P))
  ELSE LET Q == IF opt("i") THEN LowerPattern(P) ELSE P
       IN \E s \in Starts(Q, Fold(text)):
            IF opt("x") THEN s = 1 /\ Len(text) + 1 \in Ends(Q, Fold(text), IF Anchored(Q) THEN 2 ELSE 1, {1})
            ELSE Acceptable(text, s, LongestEnd(Q, Fold(text), s) - s)

Selected(line) == (\E p \in DOMAIN patterns: Means(patterns[p], Content(line))) # opt("v")

(* Patterns to which the newline at the end of a line, which the matcher     *)
(* sees without -i, makes a difference; and ^ with -w or -x, which the       *)
(* search or the pattern built for -x reads differently.                    *)
SeesNewline(P) == opt("x") \/ \E k \in DOMAIN P: P[k].t \in {"any", "dollar"}
                                             \/ (P[k].t = "class" /\ P[k].invert)
Plain(P) ==
  /\ \A k \in DOMAIN P: P[k].t \notin {"open", "close", "torn", "interval"}
  /\ opt("i") \/ ~SeesNewline(P)
  /\ Anchored(P) => ~opt("w") /\ ~opt("x")

(* What is printed of a file, by its lines. *)
Report(f) ==
  LET chosen == SelectSeq(Contents[f], Selected)
      show(what) == [file |-> f, what |-> what]
  IN CASE Contents[f] = Missing \/ opt("q") -> <<>>
       [] Contents[f] # Missing /\ ~opt("q") /\ opt("l") ->
            IF chosen = <<>> THEN <<>> ELSE <<show(<<"name">>)>>
       [] Contents[f] # Missing /\ ~opt("q") /\ ~opt("l") /\ opt("c") -> <<show(<<Len(chosen)>>)>>
       [] OTHER -> [k \in DOMAIN chosen |-> show(chosen[k])]

(* When grep ends of itself it has printed, file by file, what the options   *)
(* and patterns say, and the exit status tells whether a line was selected   *)
(* and whether a file was missing (except that -q ends at the first line,    *)
(* whatever was missing before).                                            *)
SelectsAndReports ==
  LET readable == {f \in ToSet(Names): Contents[f] # Missing}
      found == \E f \in readable: SelectSeq(Contents[f], Selected) # <<>>
  IN /\ exitStatus # "run" /\ fi > 0
     /\ opt("F") \/ \A p \in DOMAIN patterns: Plain(patterns[p])
     /\ \A i, j \in DOMAIN Names: Names[i] = "-" /\ Names[j] = "-" => i = j
     => /\ printed = FlattenSeq([k \in DOMAIN Names |-> Report(Names[k])])
        /\ exitStatus = CASE opt("q") /\ found -> "0"
                          [] ~(opt("q") /\ found) /\ readable # ToSet(Names) -> "2"
                          [] OTHER -> IF found THEN "0" ELSE "1"
=============================================================================
