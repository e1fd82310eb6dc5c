------------------------------- MODULE SedScript ------------------------------
(***************************************************************************)
(* How level1/sed.c comes to its script: main, which puts it together from  *)
(* -e, -f or an operand, and the parser, character by character.            *)
(* ScriptReadsAsWritten says that the characters come to the commands that  *)
(* were written, where the code does not pass over any; what it passes over *)
(* is in SedLines, from which Sed takes its commands.                       *)
(*                                                                          *)
(* A word of the command line, a file and a script are sequences of         *)
(* characters; numbers have at most two digits where they are written.      *)
(* Memory does not run out.                                                 *)
(***************************************************************************)
EXTENDS Integers, Sequences, TLC, SedLines
LOCAL INSTANCE SequencesExt
LOCAL INSTANCE FiniteSetsExt

CONSTANTS
  Calls,     \* the ways sed is called: see Written
  MaxCmds,   \* MAX_CMDS
  MaxFiles   \* MAX_FILES

VARIABLES
  call,      \* the call that args and disk write down
  args,      \* argv, without the name of the program
  disk,      \* the files by name
  pos,       \* the next argument
  auto,      \* g_auto_print
  acc,       \* script_acc, Null until there is a script
  inline,    \* the operand that is no file is the script
  outfile,   \* pos_out_file, <<>> for none
  ins,       \* the files to read
  cmds,      \* g_cmds
  place,     \* where the parser is in the script
  phase      \* options, parse, files; run, no output or failed in the end

cvars == <<call, args, disk, pos, auto, acc, inline, outfile, ins, cmds, place, phase>>

Null == <<"NULL">>
Absent == <<"no file">>
Blank == {" ", "tab"}
Space == Blank \cup {"nl", "cr"}
Digits == {"0", "1", "2", "3", "4", "5", "6", "7", "8", "9"}
NoAddress == [type |-> "none"]

-----------------------------------------------------------------------------
(* The parser.  A place p is the index of the next character of the script s. *)

ps_peek(s, p) == IF p <= Len(s) THEN s[p] ELSE "end"
Past(s, p, S) == Min({q \in p..Len(s) + 1: q > Len(s) \/ s[q] \notin S})
UpTo(s, p, S) == Min({q \in p..Len(s) + 1: q > Len(s) \/ s[q] \in S})
ps_skip_ws(s, p) == Past(s, p, Blank)

Number(s, p) ==
  FoldLeft(LAMBDA v, d: v * 10 + (CHOOSE k \in 0..9: ToString(k) = d), 0,
           SubSeq(s, p, Past(s, p, Digits) - 1))

(* A backslash goes, whatever it stands before; the end of the script ends   *)
(* an expression too.                                                        *)
parse_delimitedMutant(s, p, delim) ==
  [text |-> SubSeq(s, p, UpTo(s, p, {delim}) - 1), at |-> Min({UpTo(s, p, {delim}), Len(s)}) + 1]
parse_delimited(s, p, delim) ==
  LET from[q \in p..Len(s) + 1] ==
        IF q > Len(s) THEN [text |-> <<>>, at |-> q]
        ELSE IF s[q] = "backslash" /\ q < Len(s)
          THEN [from[q + 2] EXCEPT !.text = <<s[q + 1]>> \o @]
        ELSE IF s[q] = delim THEN [text |-> <<>>, at |-> q + 1]
        ELSE [from[q + 1] EXCEPT !.text = <<s[q]>> \o @]
  IN from[p]

(* NoAddress, at the same place, where there is none. *)
parse_address(s, p) ==
  LET q == ps_skip_ws(s, p)
      ch == ps_peek(s, q)
      re == parse_delimited(s, q + 1, "/")
  IN CASE ch = "$" -> [a |-> [type |-> "last"], at |-> q + 1]
       [] ch \in Digits -> [a |-> [type |-> "line", line |-> Number(s, q)], at |-> Past(s, q, Digits)]
       [] ch = "/" -> [a |-> [type |-> "regex", re |-> re.text], at |-> re.at]
       [] OTHER -> [a |-> NoAddress, at |-> p]

FileName(s, p) ==
  LET first == ps_skip_ws(s, p)
      end == UpTo(s, first, {"nl", ";"})
      last == Max({first - 1} \cup {k \in first..end - 1: s[k] \notin Space})
  IN [arg |-> SubSeq(s, first, last), at |-> end]

(* The text ends with the first line that has no backslash at its end; those *)
(* backslashes go.                                                           *)
parse_text_block(s, p) ==
  LET first == CASE ps_peek(s, p) = "backslash" /\ ps_peek(s, p + 1) = "nl" -> p + 2
                 [] ps_peek(s, p) = "nl" -> p + 1
                 [] OTHER -> p
      continued(k) == k > first /\ s[k - 1] = "backslash"
      end == Min({Len(s) + 1} \cup {k \in first..Len(s): s[k] = "nl" /\ ~continued(k)})
      stays(k) == ~(s[k] = "backslash" /\ k + 1 < end /\ s[k + 1] = "nl")
      kept == SetToSortSeq({k \in first..end - 1: stays(k)}, <)
  IN [arg |-> [k \in DOMAIN kept |-> s[kept[k]]], at |-> Min({end, Len(s)}) + 1]

(* The flags of s: the last number or g counts; a file name goes on to the   *)
(* end of the command.  Nothing is skipped between two flags.                *)
Unset == -2
Flags(s, p) ==
  LET None(q) == [occurrence |-> Unset, print |-> FALSE, file |-> <<>>, at |-> q]
      Counts(rest, n) == [rest EXCEPT !.occurrence = IF @ = Unset THEN n ELSE @]
      from[q \in p..Len(s) + 1] ==
        CASE ps_peek(s, q) = "g" -> Counts(from[q + 1], -1)
          [] ps_peek(s, q) = "p" -> [from[q + 1] EXCEPT !.print = TRUE]
          [] ps_peek(s, q) \in Digits -> Counts(from[Past(s, q, Digits)], Number(s, q))
          [] ps_peek(s, q) = "w" -> LET n == FileName(s, q + 1)
                                    IN [None(n.at) EXCEPT !.file = n.arg]
          [] OTHER -> None(q)
  IN from[p]

(* s and y: two expressions between delimiters.                              *)
Two(s, p) ==
  LET one == parse_delimited(s, p + 1, s[p])
      two == parse_delimited(s, one.at, s[p])
  IN [one |-> one.text, two |-> two.text, at |-> two.at]
Delimits(s, p) == ps_peek(s, p) \notin {"end", "nl"}

Substitution(s, p) ==
  LET e == Two(s, p)
      f == Flags(s, ps_skip_ws(s, e.at))
  IN [arg |-> [pat |-> e.one, repl |-> e.two, print |-> f.print, file |-> f.file,
               occurrence |-> IF f.occurrence = Unset THEN 0 ELSE f.occurrence],
      at |-> f.at]

Plain == {"p", "d", "q", "n", "=", "h", "H", "g", "G", "x", "N", "D", "P", "l"}

(* What follows the letter of a command. *)
Argument(s, letter, p) ==
  CASE letter \in {"w", "r"} -> FileName(s, p)
    [] letter \in {"a", "i", "c"} -> parse_text_block(s, p)
    [] letter = "y" -> LET e == Two(s, p) IN [arg |-> <<e.one, e.two>>, at |-> e.at]
    [] letter = "s" -> Substitution(s, p)
    [] OTHER -> [arg |-> <<>>, at |-> p]

Accepts(s, letter, p) ==
  \/ letter \in Plain \cup {"w", "r", "a", "i", "c"}
  \/ letter = "s" /\ Delimits(s, p)
  \/ letter = "y" /\ Delimits(s, p) /\ Len(Two(s, p).one) = Len(Two(s, p).two)

Wrong == [ok |-> FALSE]

(* The optional ; behind a command.                                          *)
Behind(s, p) == IF ps_peek(s, p) = ";" THEN p + 1 ELSE p
Command(s, letter, a1, a2, rest) ==
  [ok |-> TRUE, cmd |-> [op |-> letter, a1 |-> a1, a2 |-> a2, arg |-> rest.arg],
   at |-> Behind(s, ps_skip_ws(s, rest.at))]

WithAddresses(s, a1, a2, p) ==
  IF Accepts(s, ps_peek(s, p), p + 1)
  THEN Command(s, ps_peek(s, p), a1, a2, Argument(s, ps_peek(s, p), p + 1)) ELSE Wrong
WithSecond(s, a1, second) ==
  IF second.a = NoAddress THEN Wrong ELSE WithAddresses(s, a1, second.a, ps_skip_ws(s, second.at))
WithFirst(s, first, p) ==
  IF first.a # NoAddress /\ ps_peek(s, p) = ","
  THEN WithSecond(s, first.a, parse_address(s, p + 1)) ELSE WithAddresses(s, first.a, NoAddress, p)

From(s, first) == WithFirst(s, first, ps_skip_ws(s, first.at))
parse_one_command(s, p) == From(s, parse_address(s, ps_skip_ws(s, p)))

-----------------------------------------------------------------------------
(* How a call is written.  A call has the lines of the script, each a        *)
(* sequence of commands; the blanks, the delimiter, the ends of lines and the *)
(* way in which they are given; -n, the files to read and the one to write.   *)

Escaped(text, delim) ==
  FlattenSeq([k \in DOMAIN text |->
    IF text[k] \in {"backslash", delim} THEN <<"backslash", text[k]>> ELSE <<text[k]>>])
Continued(text) ==
  FlattenSeq([k \in DOMAIN text |-> IF text[k] = "nl" THEN <<"backslash", "nl">> ELSE <<text[k]>>])
Figures(n) == IF n < 10 THEN <<ToString(n)>> ELSE <<ToString(n \div 10), ToString(n % 10)>>

WrittenAddress(a) ==
  CASE a.type = "none" -> <<>>
    [] a.type = "last" -> <<"$">>
    [] a.type = "line" -> Figures(a.line)
    [] a.type = "regex" -> <<"/">> \o Escaped(a.re, "/") \o <<"/">>

WrittenPair(x, y, d) == <<d>> \o Escaped(x, d) \o <<d>> \o Escaped(y, d) \o <<d>>
WrittenFlags(x, b) ==
  (CASE x.occurrence = -1 -> <<"g">> [] x.occurrence = 0 -> <<>> [] OTHER -> Figures(x.occurrence))
    \o (IF x.print THEN <<"p">> ELSE <<>>)
    \o (IF x.file = <<>> THEN <<>> ELSE <<"w">> \o b \o x.file)

WrittenCommand(x, b, d) ==
  b \o WrittenAddress(x.a1)
    \o (IF x.a2 = NoAddress THEN <<>> ELSE b \o <<",">> \o b \o WrittenAddress(x.a2))
    \o b \o <<x.op>>
    \o CASE x.op \in {"a", "i", "c"} -> <<"backslash", "nl">> \o Continued(x.arg)
         [] x.op \in {"w", "r"} -> b \o x.arg \o b
         [] x.op = "y" -> WrittenPair(x.arg[1], x.arg[2], d) \o b
         [] x.op = "s" -> WrittenPair(x.arg.pat, x.arg.repl, d) \o b \o WrittenFlags(x.arg, b) \o b
         [] OTHER -> b

WrittenLine(cl, k) ==
  FlattenSeq([j \in DOMAIN cl.lines[k] |->
    (IF j > 1 THEN <<";">> ELSE <<>>) \o WrittenCommand(cl.lines[k][j], cl.blank, cl.delim)])
EndsOfLines(cl, text) ==
  FlattenSeq([k \in DOMAIN text |-> IF cl.cr /\ text[k] = "nl" THEN <<"cr", "nl">> ELSE <<text[k]>>])
WrittenLines(cl, from) ==
  LET all == FlattenSeq([k \in 1..Len(cl.lines) - from + 1 |-> WrittenLine(cl, from + k - 1) \o <<"nl">>])
  IN EndsOfLines(cl, IF cl.open THEN Front(all) ELSE all)

Opt(letter) == <<"-", letter>>
ScriptFile == <<"s", "f">>

ScriptArgs(cl) ==
  CASE cl.way = "each" -> FlattenSeq([k \in DOMAIN cl.lines |-> <<Opt("e"), EndsOfLines(cl, WrittenLine(cl, k))>>])
    [] cl.way = "file" -> <<Opt("f"), ScriptFile>>
    [] cl.way = "mixed" -> <<Opt("e"), EndsOfLines(cl, WrittenLine(cl, 1)), Opt("f"), ScriptFile>>
    [] cl.way = "operand" -> <<ScriptFile>>
    [] cl.way = "inline" -> <<WrittenLines(cl, 1)>>
    [] cl.way = "no argument" -> <<Opt("e")>>
    [] cl.way = "no file" -> <<Opt("f"), <<"g">>>>
    [] cl.way = "unknown" -> <<Opt("x")>>
    [] cl.way = "none" -> <<>>

WrittenArgs(cl) ==
  (IF cl.quiet THEN <<Opt("n")>> ELSE <<>>) \o (IF cl.o THEN <<Opt("o"), cl.out>> ELSE <<>>)
    \o ScriptArgs(cl) \o cl.ins \o (IF ~cl.o /\ cl.out # <<>> THEN <<cl.out>> ELSE <<>>)

-----------------------------------------------------------------------------
(* main. *)

Given == args[pos]
IsOption == pos <= Len(args) /\ Given[1] = "-" /\ Len(Given) > 1
HasArgument == pos < Len(args)
Next1 == args[pos + 1]
read_file_to_string(name) == IF name \in DOMAIN disk THEN disk[name] ELSE Absent
Script == IF acc = Null THEN <<>> ELSE acc
Begin == phase' = "parse" /\ place' = 1
Normalized(text) == SelectSeq(text, LAMBDA x: x # "cr")

NoPrint ==
  /\ phase = "options" /\ IsOption /\ Given = Opt("n")
  /\ auto' = FALSE /\ pos' = pos + 1
  /\ UNCHANGED <<call, args, disk, acc, inline, outfile, ins, cmds, place, phase>>

AddScript ==
  /\ phase = "options" /\ IsOption /\ Given = Opt("e") /\ HasArgument
  /\ acc' = Script \o Next1 \o <<"nl">> /\ pos' = pos + 2
  /\ UNCHANGED <<call, args, disk, auto, inline, outfile, ins, cmds, place, phase>>

AddFile ==
  /\ phase = "options" /\ IsOption /\ Given = Opt("f") /\ HasArgument
  /\ read_file_to_string(Next1) # Absent
  /\ acc' = Script \o read_file_to_string(Next1) /\ pos' = pos + 2
  /\ UNCHANGED <<call, args, disk, auto, inline, outfile, ins, cmds, place, phase>>

SetOutput ==
  /\ phase = "options" /\ IsOption /\ Given = Opt("o") /\ HasArgument
  /\ outfile' = Next1 /\ pos' = pos + 2
  /\ UNCHANGED <<call, args, disk, auto, acc, inline, ins, cmds, place, phase>>

Refuse ==
  /\ phase = "options"
  /\ \/ /\ IsOption
        /\ \/ Given \notin {Opt("n"), Opt("e"), Opt("f"), Opt("o")}
           \/ Given # Opt("n") /\ ~HasArgument
           \/ Given = Opt("f") /\ HasArgument /\ read_file_to_string(Next1) = Absent
     \/ acc = Null /\ pos > Len(args)
  /\ phase' = "failed"
  /\ UNCHANGED <<call, args, disk, pos, auto, acc, inline, outfile, ins, cmds, place>>

(* The first operand: a file, and behind it the one file to read and the one *)
(* to write; nothing that follows is looked at.  Or the script itself.       *)
ScriptOperand ==
  /\ phase = "options" /\ acc = Null /\ pos <= Len(args) /\ ~IsOption
  /\ LET content == read_file_to_string(Given)
         whole == IF content # <<>> /\ Last(content) = "nl" THEN content ELSE content \o <<"nl">>
     IN IF content = Absent
        THEN /\ acc' = Normalized(Given) \o <<"nl">> /\ inline' = TRUE /\ pos' = pos + 1
             /\ UNCHANGED <<outfile, ins>>
        ELSE /\ acc' = Normalized(whole) /\ pos' = Len(args) + 1
             /\ ins' = IF HasArgument THEN <<Next1>> ELSE <<>>
             /\ outfile' = IF pos + 1 < Len(args) /\ outfile = <<>> THEN args[pos + 2] ELSE outfile
             /\ UNCHANGED inline
  /\ Begin
  /\ UNCHANGED <<call, args, disk, auto, cmds>>

OptionsOver ==
  /\ phase = "options" /\ acc # Null /\ ~IsOption
  /\ acc' = Normalized(acc)
  /\ Begin
  /\ UNCHANGED <<call, args, disk, pos, auto, inline, outfile, ins, cmds>>

(* parse_script: carriage returns have gone before, empty lines go here, and *)
(* after a command what is left of the line.                                 *)
NextLine(s, p) == Min({UpTo(s, p, {"nl"}), Len(s)}) + 1
Parsed(one) ==
  IF one.ok
  THEN /\ cmds' = Append(cmds, one.cmd)
       /\ place' = NextLine(acc, one.at)
       /\ UNCHANGED phase
  ELSE phase' = "failed" /\ UNCHANGED <<cmds, place>>

EmptyLine ==
  /\ phase = "parse" /\ ps_peek(acc, ps_skip_ws(acc, place)) = "nl"
  /\ place' = ps_skip_ws(acc, place) + 1
  /\ UNCHANGED <<call, args, disk, pos, auto, acc, inline, outfile, ins, cmds, phase>>

ParseCommand ==
  /\ phase = "parse" /\ ps_peek(acc, ps_skip_ws(acc, place)) \notin {"nl", "end"}
  /\ IF Len(cmds) = MaxCmds THEN phase' = "failed" /\ UNCHANGED <<cmds, place>>
     ELSE Parsed(parse_one_command(acc, place))
  /\ UNCHANGED <<call, args, disk, pos, auto, acc, inline, outfile, ins>>

ScriptOver ==
  /\ phase = "parse" /\ ps_peek(acc, ps_skip_ws(acc, place)) = "end"
  /\ phase' = "files"
  /\ UNCHANGED <<call, args, disk, pos, auto, acc, inline, outfile, ins, cmds, place>>

(* After a script that was an operand the last of several files is the one    *)
(* to write, unless there is one.                                            *)
Files ==
  /\ phase = "files"
  /\ LET given == ins \o SubSeq(args, pos, Min({Len(args), pos + MaxFiles - 1}))
         takesLast == outfile = <<>> /\ inline /\ Len(given) > 1
     IN /\ outfile' = IF takesLast THEN Last(given) ELSE outfile
        /\ ins' = IF takesLast THEN Front(given) ELSE given
        /\ phase' \in {"run"} \cup (IF outfile' # <<>> THEN {"no output"} ELSE {})
  /\ UNCHANGED <<call, args, disk, pos, auto, acc, inline, cmds, place>>

CInit ==
  /\ call \in Calls
  /\ args = WrittenArgs(call)
  /\ disk = (ScriptFile :> WrittenLines(call, IF call.way = "mixed" THEN 2 ELSE 1))
  /\ pos = 1 /\ auto = TRUE /\ acc = Null /\ inline = FALSE
  /\ outfile = <<>> /\ ins = <<>> /\ cmds = <<>> /\ place = 1 /\ phase = "options"

CNext == NoPrint \/ AddScript \/ AddFile \/ SetOutput \/ Refuse \/ ScriptOperand \/ OptionsOver
         \/ EmptyLine \/ ParseCommand \/ ScriptOver \/ Files

CSpec == CInit /\ [][CNext]_cvars

-----------------------------------------------------------------------------
(* The types; and Sed is given the commands this parser keeps.                *)
CTypeOK ==
  /\ phase \in {"options", "parse", "files", "run", "no output", "failed"}
  /\ pos \in 1..Len(args) + 1 /\ auto \in BOOLEAN /\ inline \in BOOLEAN
  /\ Len(cmds) <= MaxCmds /\ Len(ins) <= MaxFiles
  /\ phase \in {"run", "no output"} => cmds = ParseScript(call.lines)

Known(x) == \/ x.op \in Plain \cup {"w", "r", "a", "i", "c", "s"}
            \/ x.op = "y" /\ Len(x.arg[1]) = Len(x.arg[2])

Complete == call.way \in {"each", "file", "mixed", "operand", "inline"}
Reached == phase \in {"run", "no output"}

(* Every command that was written.                                           *)
Meant == FlattenSeq(call.lines)

(* One command to a line, and after a text an empty line or the end: where    *)
(* parse_script, which then goes to the end of the line it is at, passes over *)
(* nothing that was written.                                                 *)
OneToALine ==
  \A k \in DOMAIN call.lines:
    /\ Len(call.lines[k]) <= 1
    /\ (k > 1 /\ call.lines[k - 1] # <<>> /\ call.lines[k - 1][1].op \in {"a", "i", "c"}) =>
         call.lines[k] = <<>>

(* Written in whatever way the parser allows for (blanks, delimiters,        *)
(* backslashes, texts over several lines, pieces from -e and -f, operands),  *)
(* a script with one command to a line comes to all its commands, with their *)
(* addresses and arguments as they were meant, and is refused exactly if one *)
(* of them is wrong or they are too many. Any script is run on the files     *)
(* that were named, and written to the one named for that.                   *)
ScriptReadsAsWritten ==
  /\ (Reached /\ OneToALine) => cmds = Meant /\ \A k \in DOMAIN Meant: Known(Meant[k])
  /\ (phase = "failed" /\ OneToALine) =>
       ~Complete \/ Len(Meant) > MaxCmds \/ \E k \in DOMAIN Meant: ~Known(Meant[k])
  /\ Reached => Complete /\ auto = ~call.quiet /\ ins = call.ins /\ outfile = call.out

(* In a script without texts every command between two ";" is read, as the   *)
(* comments say: parse_one_command eats the ";" behind a command and          *)
(* parse_script goes "to end of line or after ';'".                           *)
NoCommandIsLost ==
  (Reached /\ \A k \in DOMAIN Meant: Meant[k].op \notin {"a", "i", "c"}) => cmds = Meant
=============================================================================
