------------------------------- MODULE MCTools -------------------------------
(***************************************************************************)
(* The filters, the libraries and the server of the repository, each on a  *)
(* small instance: getopt, the regular expressions, the parsers of ed's     *)
(* addresses and of sed, tr, grep, batch, the connections of vfs_server,   *)
(* the shell's tokenizer and its stores.                                   *)
(* "program" says which of them a behaviour is about; they share no state  *)
(* and the others rest.                                                    *)
(***************************************************************************)
EXTENDS Integers, Sequences, FiniteSets, TLC, VfsServer

VARIABLES
  program,
  given, argv, ordering, colon, optind, firstNonopt, lastNonopt, nextchar,
  results, finished,
  pattern, text, replacement, match, output, at,
  s1, s2, has2, switches, source, target, input, inFile, set1, set2,
  in_squeeze, map, last_out, written, status,
  opts, patterns, files, fi, rest, stdin, match_count, any_match, had_error,
  printed, exitStatus,
  script, flags, lines, full_cmd, continuing, vars, block, ran, ended,
  shell, running, shown, typed, kept,
  family, heap, data, params, intact, meant, positional,
  call, args, disk, pos, auto, acc, inline, outfile, ins, cmds, place, phase,
  asked, buffer, heard, outcome, reply, returned, turn, nth,
  address, edLines, currentLine, mark

-----------------------------------------------------------------------------
(* getopt: -a, -b ARG, -c[ARG], --op[=ARG], --opq=ARG, --n. *)
Plain(t) == [kind |-> "plain", text |-> t, value |-> <<>>]
Short(t) == [kind |-> "short", text |-> t, value |-> <<>>]
Long(t, v) == [kind |-> "long", text |-> t, value |-> v]
Words == {Plain(<<"w">>), Plain(<<"y">>), Short(<<"a", "b">>), Short(<<"b", "a">>),
          Short(<<"z", "c">>), Long(<<"o">>, <<>>), Long(<<"o", "p">>, <<"w">>),
          [kind |-> "dashes", text |-> <<"-">>, value |-> <<>>]}

Get == INSTANCE Getopt WITH
  Arguments <- Words, MaxArgs <- 4, LongOnly <- TRUE,
  ShortOption <- [a |-> "none", b |-> "required", c |-> "optional"],
  LongOptions <- <<[name |-> <<"o", "p">>, has |-> "optional", val |-> "A"],
                   [name |-> <<"o", "p", "q">>, has |-> "required", val |-> "B"],
                   [name |-> <<"n">>, has |-> "none", val |-> "C"]>>

-----------------------------------------------------------------------------
(* bre: two items, or a group and an item, with and without an anchor or a  *)
(* third character behind them; all texts of up to three characters.  A     *)
(* group that can match nothing is not repeated without a limit: past       *)
(* KeptAdvances of its repetitions the matcher leaves the text.             *)
Char(x) == [t |-> "char", c |-> x]
Token(k) == [t |-> k]
Interval(a, b) == [t |-> "interval", min |-> a, max |-> b, whole |-> TRUE]
Class(s, v) == [t |-> "class", set |-> s, invert |-> v, closed |-> TRUE]
Atoms == {Char("a"), Token("any"), Class({"a"}, TRUE)}
Quantifiers == {<<>>, <<Token("star")>>, <<Token("plus")>>, <<Interval(2, -1)>>,
                <<Interval(0, 1)>>}
Items == {<<a>> \o q: a \in Atoms, q \in Quantifiers}
Group(x) == <<Token("open")>> \o x \o <<Token("close")>>
Inner == {<<Char("a")>>, <<Char("b"), Token("star")>>, <<Char("a"), Char("b")>>,
          <<Char("a"), Token("dollar")>>}
GroupItems ==
  {Group(x) \o q: x \in Inner, q \in {<<>>, <<Interval(1, 2)>>}}
  \cup {Group(<<Char("a")>>) \o <<Token("star")>>}
BrePatterns ==
  {<<>>, <<Token("star")>>, <<Token("torn")>>, <<Token("open"), Char("a")>>,
   <<Token("caret"), Char("a"), Token("dollar")>>, <<Char("b"), Interval(2, 1)>>}
  \cup {a \o b: a, b \in Items} \cup {a \o b \o <<Char("c")>>: a, b \in Items}
  \cup {<<Token("caret")>> \o x: x \in Items} \cup {x \o <<Token("dollar")>>: x \in Items}
  \cup {a \o b: a, b \in GroupItems}
  \cup {a \o b : a \in GroupItems, b \in Items} \cup {a \o b : a \in Items, b \in GroupItems}
BreTexts == UNION {[1..n -> {"a", "b"}]: n \in 0..3}
            \cup {<<"a", "b", "a", "c">>, <<"b", "b", "a", "c">>}

(* x\2\1 *)
Swapped == <<[c |-> "x", g |-> 0], [c |-> "", g |-> 2], [c |-> "", g |-> 1]>>

Re == INSTANCE BreCalls WITH
  MaxRepeats <- 10, KeptAdvances <- 4, MaxDup <- 255, MaxGroups <- 2,
  Patterns <- BrePatterns, Texts <- BreTexts, Replacements <- {Swapped}

-----------------------------------------------------------------------------
(* tr: bytes 0 to 5, where 4 and 5 have the parts of the bytes 254 and 255; *)
(* a buffer of two bytes, so that every input is read in pieces.            *)
OneByte(c) == [t |-> "byte", c |-> c]
Span(a, b) == [t |-> "range", lo |-> a, hi |-> b]
Repeat(c, n) == [t |-> "repeat", c |-> c, n |-> n]

Translate == INSTANCE Tr WITH
  MaxByte <- 5, MaxString <- 4, BufferLen <- 2,
  Strings1 <- {<<OneByte(1)>>, <<Span(2, 1)>>, <<OneByte(1), OneByte(2), OneByte(1)>>,
               <<[t |-> "class", set |-> {0, 2}]>>, <<Span(0, 2), OneByte(1)>>},
  Strings2 <- {<<>>, <<OneByte(3)>>, <<OneByte(2), OneByte(3)>>,
               <<OneByte(3), Repeat(0, 0)>>, <<Repeat(3, 0), OneByte(0)>>,
               <<Repeat(2, 2)>>, <<Repeat(2, 5)>>, <<Span(0, 3)>>},
  Inputs <- {<<1, 1, 2, 2, 0>>, <<2, 1, 1>>, <<3, 3, 1>>},
  Switches <- SUBSET {"c", "d", "s"}, unread <- inFile

-----------------------------------------------------------------------------
(* grep: two files, one that is not there, and the standard input, named    *)
(* twice; a last line without its newline.                                  *)
NoFile == <<<<"no file">>>>
Content == [f \in {"-", "one", "two", "gone"} |->
  CASE f = "-" -> <<<<"b">>>>
    [] f = "one" -> <<<<"a", "b", "nl">>, <<"nl">>, <<"b", " ", "a", "nl">>>>
    [] f = "two" -> <<<<"B", "nl">>, <<"a", "b", " ", "b">>>>
    [] OTHER -> NoFile]

Search == INSTANCE Grep WITH
  MaxRepeats <- 10, KeptAdvances <- 4, MaxDup <- 255, MaxGroups <- 2,
  OptionSets <- {o \in SUBSET {"F", "i", "v", "w", "x", "c", "l", "q"}:
                   /\ Cardinality(o \cap {"c", "l", "q"}) <= 1
                   /\ "v" \in o => Cardinality(o) <= 2} \cup {{"E"}},
  RegexLists <- {<<>>, <<<<Char("a")>>>>, <<<<Char("B"), Token("star")>>>>, <<<<Token("any")>>>>,
                 <<<<Char("a"), Token("star"), Char("b")>>, <<Token("caret"), Char(" ")>>>>,
                 <<<<Char("a"), Token("dollar")>>>>, <<<<Token("torn")>>>>,
                 <<Group(<<Char("a")>>)>>},
  FixedLists <- {<<<<>>>>, <<<<"a">>>>, <<<<"A", "b">>, <<" ">>>>, <<<<"b">>>>},
  Contents <- Content, Missing <- NoFile,
  FileLists <- {<<>>, <<"one", "gone">>, <<"one", "two">>, <<"-", "-">>},
  Lower <- [A |-> "a", B |-> "b"], WordChars <- {"a", "b", "A", "B"}

-----------------------------------------------------------------------------
(* batch: two variables, four to six lines. *)
Line(w) == [words |-> w, cont |-> FALSE, indent |-> FALSE]
Indented(w) == [words |-> w, cont |-> FALSE, indent |-> TRUE]
Continued(w) == [words |-> w, cont |-> TRUE, indent |-> FALSE]
First == {Line(<<"var", "a", "=", "x">>), Line(<<"var", "a", "+=", "x", "{{b}}">>),
          Continued(<<"var", "b">>), Line(<<"var", "b", ":=", "{{a}}", "y">>)}
Middle == First \cup
  {Line(<<"unset", "a">>), Line(<<"clearvars">>), Indented(<<"unset", "a">>),
   Line(<<"ifeq", "{{a}}", "x">>), Line(<<"ifneq", "{{b}}", "x">>), Line(<<"endif">>),
   Continued(<<"go">>), Line(<<"=", "y", "{{a}}">>)}
Odd == {Line(<<";", "z">>), Line(<<"var", "a", "+:=", "{{b}}", "z">>), Line(<<"ifeq">>),
        Line(<<"vars">>), Line(<<"unset">>), Line(<<"var">>)}
Closing == {Line(<<"go", "{{a}}", "{{b}}">>), Indented(<<"endif">>), Line(<<"go", "{{x">>)}
BatchScripts ==
  {<<f, g, h, k>>: f \in First, g \in Middle \cup Odd, h \in Middle \ First, k \in Closing}
  \cup {<<f, g, h, Line(<<"endif">>), Line(<<"go", "{{b}}">>)>>: f \in First, g, h \in Middle}

Run == INSTANCE Batch WITH
  Scripts <- BatchScripts, Unmatched <- {"{{x"},
  Reference <- ("{{a}}" :> "a") @@ ("{{b}}" :> "b"),
  MaxLine <- 5, MaxCommand <- 7, MaxExpanded <- 6, MaxVars <- 2, MaxValue <- 3

-----------------------------------------------------------------------------
(* The server: a buffer of three units, requests that fit in it and one     *)
(* that does not, two connections (MCTools.cfg).                            *)
(* Its requests: each call with short paths and data; a buffer that holds    *)
(* the longest.                                                             *)
Calls ==
  [op \in {"fopen", "fclose", "fread", "fwrite", "fseek", "ftell", "mkdir", "remove", "rename",
           "opendir", "closedir", "readdir", "rewinddir"} |->
    CASE op = "fopen" -> {<<p, m>>: p \in {<<97>>, <<97, 98, 99>>}, m \in {<<114>>, <<114, 98, 43>>}}
      [] op = "fread" -> {<<<<5>>, <<s>>, <<n>>>>: s \in {1, 2}, n \in 0..2}
      [] op = "fwrite" -> {<<<<5>>, <<1>>, <<0>>, <<>>>>, <<<<9>>, <<2>>, <<2>>, <<97, 0, 98, 99>>>>}
      [] op = "fseek" -> {<<<<5>>, <<o>>, <<w>>>>: o \in {3, -1}, w \in 0..2}
      [] op = "mkdir" -> {<<<<97, 98>>, <<7>>>>}
      [] op \in {"remove", "opendir"} -> {<<<<97>>>>, <<<<97, 98, 99>>>>}
      [] op = "rename" -> {<<<<97, 98>>, <<99>>>>, <<<<97>>, <<98, 99, 97>>>>}
      [] OTHER -> {<<<<5>>>>, <<<<9>>>>}]

Wired == INSTANCE VfsCalls WITH
  WireCalls <- Calls, Handles <- {5}, Entries <- {<<3, <<97>>, 2>>, <<1, <<97, 98>>, 1>>},
  MaxName <- 3, WireLen <- 24, MaxCalls <- 2

-----------------------------------------------------------------------------
(* The shell's tokenizer: lines that open and close quotes, begin a         *)
(* here-document in a quote and outside, end in a backslash, open a         *)
(* substitution, are no ASCII, and lines of operators and names.            *)
TypedLines ==
  {<<"quote">>, <<"a", " ", "dquote">>, <<"dquote", "backslash", "dquote">>,
   <<"a", "backslash">>, <<"backslash", "quote", "#", "quote">>,
   <<"dquote", "~", "a", "#", "dquote">>, <<"<", "<">>, <<"<", "<", "quote">>,
   <<"a", "<", "<", "dquote", " ">>, <<"quote", "a", "<", "<">>,
   <<"1", "<", "<", "-", "#">>, <<"$", "(">>, <<"$", "a", "!">>,
   <<"a", ";", ";", "|", "|", ">", "&", "1", ">", "|", "&", "&", "1", "<", ">">>,
   <<"a", "=", "1", " ", "i", "=", " ", "1", ">", "a">>,
   <<"~", "a", "-", " ", "a", "=", "quote", " ", "#">>,
   <<"i", " ", "a", "<", "&", "(", "backtick">>}

Lexer == INSTANCE Tokenizer WITH
  CommandLines <- TypedLines, MaxLines <- 3, MaxTokens <- 4, Keywords <- {<<"i">>},
  Letters <- {"a", "i"}, Digits <- {"1"}, NonAscii <- {"!"}, alive <- running

(* Its stores: two names, two entries, two parameters.                      *)
Keep == INSTANCE Stores WITH
  Names <- {"x", "y"}, Special <- {"?"}, Values <- {"", "v"},
  MaxParams <- 2, MaxEntries <- 2, MaxObjects <- 3,
  alive <- intact, given <- positional

-----------------------------------------------------------------------------
(* ed: addresses of up to four tokens on buffers of up to two lines, searches *)
(* in up to three.                                                          *)
Typing == INSTANCE EdAddressCalls WITH
  Text <- {"x", "y"}, MaxTokens <- 4, MaxLines <- 3, MaxTyped <- 2,
  s <- address, lines <- edLines, current_line <- currentLine

-----------------------------------------------------------------------------
(* sed: every kind of address and of argument, alone; two and three lines,  *)
(* given in each way, of a command, a text, two commands, nothing, and a    *)
(* wrong one; two commands at most.                                         *)
NoAddr == [type |-> "none"]
Addresses == {[type |-> "line", line |-> 1], [type |-> "line", line |-> 12], [type |-> "last"],
              [type |-> "regex", re |-> <<"a", "/">>], [type |-> "regex", re |-> <<"backslash", "(">>]}
SedCmd(op, arg) == [op |-> op, a1 |-> NoAddr, a2 |-> NoAddr, arg |-> arg]
Substitute(p, w, n, print, f) ==
  SedCmd("s", [pat |-> p, repl |-> w, occurrence |-> n, print |-> print, file |-> f])
OneCommand ==
  {[op |-> "p", a1 |-> x, a2 |-> y, arg |-> <<>>]: x \in Addresses, y \in Addresses \cup {NoAddr}}
  \cup {Substitute(x, w, n, print, f): x \in {<<"a", "/">>, <<"backslash", ",">>}, w \in {<<>>, <<"b", ",">>},
                                      n \in {-1, 0, 12}, print \in BOOLEAN, f \in {<<>>, <<"f">>}}
  \cup {SedCmd("a", <<"x", "nl", "nl", "y">>), SedCmd("i", <<>>), SedCmd("c", <<" ", "x">>),
        SedCmd("w", <<"f", " ", "g">>), SedCmd("r", <<"f">>), SedCmd("y", <<<<"a", "/">>, <<",", "b">>>>),
        SedCmd("y", <<<<"a">>, <<>>>>), SedCmd("b", <<>>)}
ScriptLines == {<<>>, <<SedCmd("p", <<>>)>>, <<SedCmd("a", <<"x", "nl", "p">>)>>, <<SedCmd("b", <<>>)>>,
                <<SedCmd("w", <<"f">>), SedCmd("d", <<>>)>>}
NoText(k) == k = <<>> \/ k[1].op # "a"
SedScripts(n) ==
  {x \in [1..n -> ScriptLines]: \A k \in 1..n - 1: NoText(x[k]) \/ NoText(x[k + 1])}

Named == {[ins |-> x, o |-> o, out |-> IF o THEN <<"w">> ELSE <<>>]:
            x \in {<<>>, <<<<"i">>>>, <<<<"i">>, <<"j">>>>}, o \in BOOLEAN}
Placed(x) == [ins |-> x, o |-> FALSE, out |-> <<"w">>]
FilesOf(way) ==
  CASE way = "operand" -> {f \in Named: Len(f.ins) < 2} \cup {Placed(<<<<"i">>>>)}
    [] way = "inline" -> {f \in Named: f.o \/ Len(f.ins) < 2} \cup {Placed(<<<<"i">>>>), Placed(<<<<"i">>, <<"j">>>>)}
    [] OTHER -> Named
SedCall(l, b, d, cr, open, way, f) ==
  [lines |-> l, blank |-> b, delim |-> d, cr |-> cr, open |-> open, way |-> way, quiet |-> f.o,
   ins |-> f.ins, o |-> f.o, out |-> f.out]
AnyFiles == CHOOSE f \in Named: TRUE
SedCalls ==
  {SedCall(<<<<x>>>>, b, d, FALSE, open, "inline", AnyFiles):
     x \in OneCommand, b \in {<<>>, <<" ", "tab">>}, d \in {"/", ","}, open \in BOOLEAN}
  \cup UNION {{SedCall(x, <<>>, "/", open, open, way, f): x \in SedScripts(2), open \in BOOLEAN, f \in FilesOf(way)}:
                way \in {"each", "file", "mixed", "operand", "inline"}}
  \cup {SedCall(x, <<" ">>, "/", TRUE, FALSE, "mixed", AnyFiles): x \in SedScripts(3)}
  \cup {SedCall(<<<<SedCmd("p", <<>>)>>>>, <<>>, "/", FALSE, FALSE, way, [AnyFiles EXCEPT !.ins = <<>>]):
          way \in {"no argument", "no file", "unknown", "none"}}

Stream == INSTANCE SedScript WITH Calls <- SedCalls, MaxCmds <- 2, MaxFiles <- 3

-----------------------------------------------------------------------------
gvars == <<given, argv, ordering, colon, optind, firstNonopt, lastNonopt, nextchar,
           results, finished>>
bvars == <<pattern, text, replacement, match, output, at>>
tvars == <<s1, s2, has2, switches, source, target, input, inFile, set1, set2,
           in_squeeze, map, last_out, written, status>>
rvars == <<opts, patterns, files, fi, rest, stdin, match_count, any_match, had_error,
           printed, exitStatus>>
hvars == <<script, flags, lines, full_cmd, continuing, vars, block, ran, ended>>
kvars == <<shell, running, shown, typed, kept>>
ovars == <<family, heap, data, params, intact, meant, positional>>
cvars == <<call, args, disk, pos, auto, acc, inline, outfile, ins, cmds, place, phase>>
wvars == <<asked, buffer, heard, outcome, reply, returned, turn, nth>>
avars == <<address, edLines, currentLine, mark>>
toolvars == <<program, gvars, bvars, tvars, rvars, hvars, svars, kvars, ovars, cvars, wvars, avars>>

Init ==
  /\ program \in {"getopt", "bre", "tr", "grep", "batch", "server", "tokenizer", "stores", "sed", "calls",
                 "addresses"}
  /\ program # "getopt" => given = <<>> /\ ordering = "PERMUTE" /\ colon = FALSE
  /\ Get!GInit
  /\ program # "bre" => pattern = <<>> /\ text = <<>>
  /\ Re!BInit
  /\ program # "tr" =>
       /\ s1 = <<OneByte(1)>> /\ s2 = <<>> /\ has2 = FALSE /\ switches = {}
       /\ source = "file" /\ target = "file" /\ input = <<3, 3, 1>>
  /\ Translate!TInit
  /\ program # "grep" => opts = {} /\ patterns = <<>> /\ files = <<>>
  /\ Search!RInit
  /\ program # "batch" => /\ script = CHOOSE s \in BatchScripts: TRUE
                          /\ flags = {}
  /\ Run!HInit
  /\ SInit
  /\ Lexer!KInit
  /\ program # "stores" => family = "alias"
  /\ Keep!OInit
  /\ program # "sed" => call = CHOOSE x \in SedCalls: TRUE
  /\ Stream!CInit
  /\ Wired!WInit
  /\ program # "addresses" => edLines = <<>> /\ currentLine = -1 /\ mark = -1
  /\ Typing!AInit

Next ==
  /\ UNCHANGED program
  /\ \/ /\ program = "getopt" /\ Get!GNext
        /\ UNCHANGED <<bvars, tvars, rvars, hvars, svars, kvars, ovars, cvars, wvars, avars>>
     \/ /\ program = "bre" /\ Re!BNext
        /\ UNCHANGED <<gvars, tvars, rvars, hvars, svars, kvars, ovars, cvars, wvars, avars>>
     \/ /\ program = "tr" /\ Translate!TNext
        /\ UNCHANGED <<gvars, bvars, rvars, hvars, svars, kvars, ovars, cvars, wvars, avars>>
     \/ /\ program = "grep" /\ Search!RNext
        /\ UNCHANGED <<gvars, bvars, tvars, hvars, svars, kvars, ovars, cvars, wvars, avars>>
     \/ /\ program = "batch" /\ Run!HNext
        /\ UNCHANGED <<gvars, bvars, tvars, rvars, svars, kvars, ovars, cvars, wvars, avars>>
     \/ /\ program = "server" /\ SNext
        /\ UNCHANGED <<gvars, bvars, tvars, rvars, hvars, kvars, ovars, cvars, wvars, avars>>
     \/ /\ program = "tokenizer" /\ Lexer!KNext
        /\ UNCHANGED <<gvars, bvars, tvars, rvars, hvars, svars, ovars, cvars, wvars, avars>>
     \/ /\ program = "stores" /\ Keep!ONext
        /\ UNCHANGED <<gvars, bvars, tvars, rvars, hvars, svars, kvars, cvars, wvars, avars>>
     \/ /\ program = "sed" /\ Stream!CNext
        /\ UNCHANGED <<gvars, bvars, tvars, rvars, hvars, svars, kvars, ovars, wvars, avars>>
     \/ /\ program = "calls" /\ Wired!WNext
        /\ UNCHANGED <<gvars, bvars, tvars, rvars, hvars, svars, kvars, ovars, cvars, avars>>
     \/ /\ program = "addresses" /\ Typing!ANext
        /\ UNCHANGED <<gvars, bvars, tvars, rvars, hvars, svars, kvars, ovars, cvars, wvars>>

Spec == Init /\ [][Next]_toolvars /\ SFairness

-----------------------------------------------------------------------------
(* The state of each program is what its declarations allow. *)
TypesOK ==
  CASE program = "getopt" -> Get!GTypeOK
    [] program = "bre" -> Re!BTypeOK
    [] program = "tr" -> Translate!TTypeOK
    [] program = "grep" -> Search!RTypeOK
    [] program = "batch" -> Run!HTypeOK
    [] program = "server" -> STypeOK
    [] program = "tokenizer" -> Lexer!KTypeOK
    [] program = "stores" -> Keep!OTypeOK
    [] program = "sed" -> Stream!CTypeOK
    [] program = "calls" -> Wired!WTypeOK
    [] program = "addresses" -> Typing!InBounds

(* getopt and getopt_long, call by call and moving the arguments about,     *)
(* return what the command line means when it is read once from the left.   *)
ParsesWhatIsGiven == program = "getopt" => Get!ParsesWhatIsGiven

(* parse_ed_address reads what the address means, the other parser agrees   *)
(* with it, and a search finds the nearest match.                           *)
ParsesWhatItMeans == program = "addresses" => Typing!ParsesWhatItMeans
InterfacesAgree == program = "addresses" => Typing!InterfacesAgree
SearchFindsNearest == program = "addresses" => Typing!SearchFindsNearest

(* bre_match finds the leftmost and then the longest match, and its groups  *)
(* lie in the match, in order and apart.                                    *)
FindsTheMatch == program = "bre" => Re!FindsLeftmostLongest /\ Re!GroupsLieInOrder

(* The parser of sed reads a script with one command to a line, however it is *)
(* written and given, as the commands that were written.                     *)
ScriptReadsAsWritten == program = "sed" => Stream!ScriptReadsAsWritten

(* Not what the code does: the commands behind a ";" are read.               *)
NoCommandIsLost == program = "sed" => Stream!NoCommandIsLost

(* tr, buffer by buffer, writes what its operands say of the input as a     *)
(* whole.                                                                   *)
TranslatesTheStream == program = "tr" => Translate!TranslatesTheStream

(* grep selects the lines its options and patterns describe, and reports    *)
(* them, their number or the file, with the exit status that goes with it.  *)
SelectsAndReports == program = "grep" => Search!SelectsAndReports

(* batch runs the commands of its script with the values the variables then *)
(* have.                                                                    *)
RunsAsWritten == program = "batch" => Run!RunsAsWritten

(* UnansweredIsAccountedFor and RequestsAreAnswered are VfsServer's own: in  *)
(* the other programs no connection is ever made.                           *)

(* The server of the level2 file system is asked by a call of its client what *)
(* the program asked for, and the program gets its outcome.                  *)
CallsAreHeard == program = "calls" => Wired!CallsAreHeard

(* tokenizer.c brings every character of a word into one token that is no   *)
(* operator, in its place.                                                  *)
NothingTypedIsLost == program = "tokenizer" => Lexer!NothingTypedIsLost

(* The stores of the shell hold under each name what the calls meant, and   *)
(* own each object of the heap once.                                        *)
StoresAreMaps == program = "stores" => Keep!StoresAreMaps
=============================================================================
