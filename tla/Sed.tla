---------------------------------- MODULE Sed ----------------------------------
(***************************************************************************)
(* The stream editor level1/sed.c: process_files, which reads the lines,     *)
(* and exec_cmds_on_line, which executes the script on the pattern space.    *)
(*                                                                         *)
(* Text is a sequence of symbols; a line as fgets returns it ends with       *)
(* Newline, except perhaps the last line of a file.  A regular expression    *)
(* is one character, or one character starred.  Where the code uses the      *)
(* result of bre_match as a truth value, so does the module.                 *)
(***************************************************************************)
EXTENDS Integers, Sequences, FiniteSets, SequencesExt, SedLines

CONSTANTS Char,       \* the characters of text
          Newline,
          Marker,     \* the byte 1, which N leaves at the end of the pattern space
          Listed,     \* what l prints begins with it
          Null,       \* the null pointer
          Absent,     \* a file that cannot be opened
          WFile,      \* the names of files written to
          Unwritable, \* those that fopen never opens for writing
          RFile,      \* what the files of r hold: a function of their names
          MaxWFiles,  \* MAX_FILES
          MaxSpace,   \* symbols for which realloc finds memory when a space grows
          Jobs        \* what sed is called for: script, auto (no -n) and input

VARIABLES job,
          g_cmds,     \* the commands that parse_script has kept
          file,       \* the number of the file being read
          next,       \* the number of its line that fgets reads next
          ps, hs,     \* pattern space and hold space
          lineno, is_last_line_in_file, quit_now,
          in_range,   \* of each command
          i,          \* the command being executed
          again,      \* the script is executed for the line that n has read
          step,       \* where process_files is
          out,        \* what has been printed
          wfile,      \* what has been written to each file, Absent before the first time
          status

input == <<job, g_cmds, file, next, lineno, is_last_line_in_file>>
vars  == <<job, g_cmds, file, next, ps, hs, lineno, is_last_line_in_file, quit_now, in_range,
           i, again, step, out, wfile, status>>

Symbol == Char \cup {Newline, Marker}
Text   == Seq(Symbol)
Line   == Seq(Char \cup {Newline})      \* a line of the input

c == g_cmds[i]

-----------------------------------------------------------------------------
(* What the proofs assume of the constants.                                   *)

\* the commands of the scripts, with the fields that each of them uses
Commands ==
  UNION {UNION {{j.script[k][n] : n \in DOMAIN j.script[k]} : k \in DOMAIN j.script} : j \in Jobs}

Whole(cmd) ==
  /\ cmd.op \in {"a", "i", "c"} => cmd.text \in Text
  /\ cmd.op = "y" => cmd.map \in [Symbol -> Symbol]
  /\ cmd.op = "w" => cmd.file \in WFile
  /\ cmd.op = "s" => cmd.file \in WFile \cup {Absent}
  /\ cmd.op = "r" => RFile[cmd.file] \in Text \cup {Absent}

ASSUME JobsAssumption ==
  /\ \A j \in Jobs : /\ j.script \in Seq(Seq(Commands))
                     /\ j.auto \in BOOLEAN
                     /\ j.input \in Seq(Seq(Line) \cup {Absent})
  /\ \A cmd \in Commands : Whole(cmd)
ASSUME SymbolAssumption ==
  /\ Newline \notin Char /\ Marker \notin Char \cup {Newline}
  /\ \A x \in Char : x \notin Nat /\ x # Listed
ASSUME PointerAssumption == Null \notin Text /\ Absent \notin Text \cup Seq(Line)
ASSUME FilesAssumption   == Unwritable \subseteq WFile
ASSUME MemoryAssumption  == MaxWFiles \in Nat \ {0} /\ MaxSpace \in Nat

-----------------------------------------------------------------------------
(* Regular expressions: re.char is the character, re.star tells whether it is   *)
(* starred.  A starred one always matches, if only the empty text.              *)

Hits(text, p, re) == {k \in p..Len(text) : text[k] = re.char}
Others(text, p, re) == {k \in p..Len(text) : text[k] # re.char}
Least(S) == CHOOSE k \in S : \A x \in S : k <= x

Found(text, p, re) == re.star \/ Hits(text, p, re) # {}

\* where the match at or after p begins, and its length
MatchStart(text, p, re) == IF re.star THEN p ELSE Least(Hits(text, p, re))
MatchLength(text, p, re) ==
  IF re.star THEN Least(Others(text, p, re) \cup {Len(text) + 1}) - p ELSE 1

BRE_OK      == 0
BRE_NOMATCH == 1

BreMatch(text, p, re) ==
  IF Found(text, p, re)
    THEN [result |-> BRE_OK, start |-> MatchStart(text, p, re), length |-> MatchLength(text, p, re)]
    ELSE [result |-> BRE_NOMATCH, start |-> -1, length |-> 0]

\* an integer as a condition of C
IsTrue(n) == n # 0

-----------------------------------------------------------------------------
(* do_substitute.  occurrence is -1 for g, 0 for the first match, otherwise the *)
(* number of the match to replace.                                             *)

Chosen(occurrence, k) ==
  \/ occurrence = -1
  \/ occurrence = 0 /\ k = 1
  \/ occurrence > 0 /\ k = occurrence

Enough(occurrence, k) == occurrence = 0 \/ (occurrence > 0 /\ k >= occurrence)

Copied(text) == [text |-> text, did |-> FALSE]

\* a match that is empty is passed with the character that follows it
Advance(m) == m.start + (IF m.length > 0 THEN m.length ELSE 1)

\* BRE_OK is not true, and without a match start is -1: the first test always
\* copies the rest, and what follows it in the loop is never executed.
DoSubstitute(text, sub) ==
  LET n == Len(text)
      From[at \in (1..n + 2) \X (0..n + 1)] ==
        LET p    == at[1]
            k    == at[2]
            m    == BreMatch(text, p, sub.re)
            new  == IF Chosen(sub.occurrence, k + 1)
                      THEN sub.repl ELSE SubSeq(text, m.start, m.start + m.length - 1)
            more == IF Enough(sub.occurrence, k + 1)
                      THEN Copied(SubSeq(text, Advance(m), n)) ELSE From[<<Advance(m), k + 1>>]
        IN  IF p > n + 1 THEN Copied(<<>>)
            ELSE IF ~IsTrue(m.result) \/ m.start < 0 THEN Copied(SubSeq(text, p, n))
            ELSE [more EXCEPT !.text = SubSeq(text, p, m.start - 1) \o new \o @,
                              !.did  = @ \/ Chosen(sub.occurrence, k + 1)]
  IN  From[<<1, 0>>]

-----------------------------------------------------------------------------
(* Addresses.  Those of a range are looked at again after the command, with     *)
(* the pattern space it leaves: only then may the range end.                    *)

NoAddress == [type |-> "none"]

AddrMatches(a, text, n, last) ==
  \/ a.type = "none"
  \/ a.type = "line"  /\ a.line = n
  \/ a.type = "last"  /\ last
  \/ a.type = "regex" /\ IsTrue(BreMatch(text, 1, a.re).result)

Here(a, text) == AddrMatches(a, text, lineno, is_last_line_in_file)

Ranged(cmd) == cmd.a2.type # "none"

\* apply_addresses
Applies == (Ranged(c) /\ in_range[i]) \/ Here(c.a1, ps)

EndsMutant(cmd, text) == FALSE               \* the range goes on
\* maybe_end_range_after_line
Ends(cmd, text) == Here(cmd.a2, text)

-----------------------------------------------------------------------------
(* Commands.  Goes is what follows a command after which the script goes on,    *)
(* Leaves what follows one that returns to process_files.                       *)

Executes(op) == status = "running" /\ step = "exec" /\ i <= Len(g_cmds) /\ Applies /\ c.op = op

Goes(space, shown, n) ==
  /\ ps' = space
  /\ out' = out \o shown
  /\ in_range' = [in_range EXCEPT ![i] = Ranged(c) /\ ~Ends(c, space)]
  /\ i' = n
  /\ UNCHANGED <<input, quit_now, again, step>>

Then(space, shown) == Goes(space, shown, i + 1) /\ UNCHANGED <<hs, wfile, status>>

Leaves(to) ==
  /\ in_range' = [in_range EXCEPT ![i] = Ranged(c)]
  /\ step' = to
  /\ UNCHANGED <<input, hs, i, again, wfile, status>>

Fits(text) == Len(text) <= MaxSpace

Held == IF hs = Null THEN <<>> ELSE hs

\* up to the first newline and with it, or all when there is none
FirstLine(text) ==
  IF Hits(text, 1, [char |-> Newline]) = {} THEN text
  ELSE SubSeq(text, 1, Least(Hits(text, 1, [char |-> Newline])))

RestMutant(text) == SubSeq(text, Len(FirstLine(text)), Len(text))   \* keeps the newline
Rest(text) == SubSeq(text, Len(FirstLine(text)) + 1, Len(text))

\* get_wfile and the write: a name not yet known is dropped when the table is full
\* or the file cannot be opened, and nothing is said of it
AppendToMutant(name, text) == [wfile EXCEPT ![name] = text]    \* truncates each time
AppendTo(name, text) ==
  IF wfile[name] # Absent THEN [wfile EXCEPT ![name] = @ \o text]
  ELSE IF name \notin Unwritable /\ Cardinality({f \in WFile : wfile[f] # Absent}) < MaxWFiles
         THEN [wfile EXCEPT ![name] = text]
         ELSE wfile

PassOver ==
  /\ status = "running" /\ step = "exec" /\ i <= Len(g_cmds) /\ ~Applies
  /\ i' = i + 1
  /\ UNCHANGED <<input, ps, hs, quit_now, in_range, again, step, out, wfile, status>>

PrintSpace == Executes("p") /\ Then(ps, ps)
PrintFirst == Executes("P") /\ Then(ps, FirstLine(ps))
List       == Executes("l") /\ Then(ps, <<Listed>> \o ps)
LineNumber == Executes("=") /\ Then(ps, <<lineno, Newline>>)

\* a and i print their text at once, r what the file holds
ShowText == (Executes("a") \/ Executes("i")) /\ Then(ps, c.text \o <<Newline>>)
ShowFile == Executes("r") /\ Then(ps, IF RFile[c.file] = Absent THEN <<>> ELSE RFile[c.file])

Change    == Executes("c") /\ Then(c.text \o <<Newline>>, <<>>)
Translate == Executes("y") /\ Then([k \in DOMAIN ps |-> c.map[ps[k]]], <<>>)
Get       == Executes("g") /\ Then(Held, <<>>)
GetAppend == Executes("G") /\ Then(IF Fits(ps \o Held) THEN ps \o Held ELSE ps, <<>>)

Hold ==
  /\ Executes("h") /\ Goes(ps, <<>>, i + 1)
  /\ hs' = ps
  /\ UNCHANGED <<wfile, status>>

HoldAppend ==
  /\ Executes("H") /\ Goes(ps, <<>>, i + 1)
  /\ hs' = IF Fits(Held \o ps) THEN Held \o ps ELSE hs
  /\ UNCHANGED <<wfile, status>>

Exchange ==
  /\ Executes("x") /\ Goes(Held, <<>>, i + 1)
  /\ hs' = ps
  /\ UNCHANGED <<wfile, status>>

Write ==
  /\ Executes("w") /\ Goes(ps, <<>>, i + 1)
  /\ wfile' = AppendTo(c.file, ps)
  /\ UNCHANGED <<hs, status>>

Substitute ==
  /\ Executes("s")
  /\ LET res == DoSubstitute(ps, c.sub)
     IN  /\ Goes(res.text, IF res.did /\ c.print THEN res.text ELSE <<>>, i + 1)
         /\ wfile' = IF res.did /\ c.file # Absent THEN AppendTo(c.file, res.text) ELSE wfile
  /\ UNCHANGED <<hs, status>>

DeleteFirstMutant ==                         \* before the first command
  /\ Executes("D") /\ Hits(ps, 1, [char |-> Newline]) # {}
  /\ Goes(Rest(ps), <<>>, 0)
  /\ UNCHANGED <<hs, wfile, status>>

\* D starts the script again without a new line, as long as there is a newline
DeleteFirst ==
  /\ Executes("D") /\ Hits(ps, 1, [char |-> Newline]) # {}
  /\ Goes(Rest(ps), <<>>, 1)
  /\ UNCHANGED <<hs, wfile, status>>

Delete ==
  /\ Executes("d") \/ (Executes("D") /\ Hits(ps, 1, [char |-> Newline]) = {})
  /\ Leaves("read")
  /\ UNCHANGED <<ps, quit_now, out>>

Quit ==
  /\ Executes("q") /\ Leaves("after")
  /\ quit_now' = TRUE
  /\ UNCHANGED <<ps, out>>

NextLineMutant ==                            \* the line is printed again by process_files
  /\ Executes("n") /\ Leaves("after")
  /\ out' = IF job.auto THEN out \o ps ELSE out
  /\ UNCHANGED <<ps, quit_now>>

\* n prints, and has process_files read the next line
NextLine ==
  /\ Executes("n") /\ Leaves("after")
  /\ ps' = Null
  /\ out' = IF job.auto THEN out \o ps ELSE out
  /\ UNCHANGED quit_now

\* N has process_files append the next line; what follows it is not executed
JoinLine ==
  /\ Executes("N") /\ Fits(Append(ps, Marker)) /\ Leaves("after")
  /\ ps' = Append(ps, Marker)
  /\ UNCHANGED <<quit_now, out>>

\* without memory for the marker the pattern space is lost, as if deleted
JoinLineFails ==
  /\ Executes("N") /\ ~Fits(Append(ps, Marker)) /\ Leaves("read")
  /\ ps' = Null
  /\ UNCHANGED <<quit_now, out>>

EndOfScript ==
  /\ status = "running" /\ step = "exec" /\ i > Len(g_cmds)
  /\ step' = "after"
  /\ UNCHANGED <<input, ps, hs, quit_now, in_range, i, again, out, wfile, status>>

-----------------------------------------------------------------------------
(* process_files                                                               *)

Lines == job.input[file]
More  == next <= Len(Lines)

\* fopen, of the first file or the next one
OpenFile ==
  /\ status = "running" /\ step = "open"
  /\ IF file = Len(job.input) THEN status' = "done" /\ UNCHANGED <<file, next, step>>
     ELSE IF job.input[file + 1] = Absent THEN status' = "failed" /\ UNCHANGED <<file, next, step>>
     ELSE file' = file + 1 /\ next' = 1 /\ step' = "read" /\ UNCHANGED status
  /\ UNCHANGED <<job, g_cmds, ps, hs, lineno, is_last_line_in_file, quit_now, in_range, i, again, out, wfile>>

\* the line becomes the pattern space and the script is executed from its start
Start ==
  /\ ps' = Lines[next]
  /\ next' = next + 1 /\ lineno' = lineno + 1
  /\ is_last_line_in_file' = (next = Len(Lines))
  /\ i' = 1 /\ step' = "exec"
  /\ UNCHANGED <<job, g_cmds, file, hs, quit_now, in_range, out, wfile, status>>

ReadLine == status = "running" /\ step = "read" /\ More /\ Start /\ again' = FALSE

\* after n; a second n in the same round finds nothing more to do
ReadForNext == status = "running" /\ step = "after" /\ ps = Null /\ ~again /\ More
                 /\ Start /\ again' = TRUE

NothingToPrint ==
  /\ status = "running" /\ step = "after" /\ ps = Null /\ again
  /\ step' = "read"
  /\ UNCHANGED <<input, ps, hs, quit_now, in_range, i, again, out, wfile, status>>

EndOfFile ==
  /\ status = "running"
  /\ step = "read" \/ (step = "after" /\ ps = Null /\ ~again)
  /\ ~More
  /\ step' = "open"
  /\ UNCHANGED <<input, ps, hs, quit_now, in_range, i, again, out, wfile, status>>

Marked == ps # Null /\ ps # <<>> /\ ps[Len(ps)] = Marker

\* the end of a round, with the pattern space that is printed
Finish(space) ==
  /\ out' = IF job.auto THEN out \o space ELSE out
  /\ ps' = space
  /\ step' = "read"
  /\ status' = IF quit_now THEN "done" ELSE status
  /\ UNCHANGED <<job, g_cmds, file, hs, is_last_line_in_file, quit_now, in_range, i, again, wfile>>

\* the marker gives way to a newline and the next line, or to nothing at the end
\* of the file.  is_last_line_in_file is left as it was.
FinishJoin ==
  /\ status = "running" /\ step = "after" /\ Marked
  /\ LET first  == SubSeq(ps, 1, Len(ps) - 1)
         joined == first \o <<Newline>> \o Lines[next]
     IN  \/ ~More /\ Finish(first) /\ UNCHANGED <<next, lineno>>
         \/ More /\ Fits(joined) /\ Finish(joined) /\ next' = next + 1 /\ lineno' = lineno + 1
         \/ /\ More /\ ~Fits(joined)
            /\ status' = "failed" /\ next' = next + 1 /\ lineno' = lineno + 1
            /\ UNCHANGED <<job, g_cmds, file, ps, hs, is_last_line_in_file, quit_now, in_range, i, again,
                           step, out, wfile>>

FinishLine ==
  /\ status = "running" /\ step = "after" /\ ps # Null /\ ~Marked
  /\ Finish(ps) /\ UNCHANGED <<next, lineno>>

-----------------------------------------------------------------------------

Init ==
  /\ job \in Jobs /\ g_cmds = ParseScript(job.script)
  /\ file = 0 /\ next = 1 /\ ps = Null /\ hs = Null
  /\ lineno = 0 /\ is_last_line_in_file = FALSE /\ quit_now = FALSE
  /\ in_range = [k \in DOMAIN g_cmds |-> FALSE]
  /\ i = 1 /\ again = FALSE /\ step = "open" /\ out = <<>>
  /\ wfile = [f \in WFile |-> Absent] /\ status = "running"

Command ==
  \/ PrintSpace \/ PrintFirst \/ List \/ LineNumber \/ ShowText \/ ShowFile \/ Change
  \/ Translate \/ Get \/ GetAppend \/ Hold \/ HoldAppend \/ Exchange \/ Write \/ Substitute
  \/ DeleteFirst \/ Delete \/ Quit \/ NextLine \/ JoinLine
  \/ JoinLineFails

Driver ==
  \/ OpenFile \/ ReadLine \/ ReadForNext \/ NothingToPrint \/ EndOfFile
  \/ FinishJoin \/ FinishLine

Ended == status # "running" /\ UNCHANGED vars

Next == PassOver \/ Command \/ EndOfScript \/ Driver \/ Ended

Spec == Init /\ [][Next]_vars

\* sed is one sequential process: it runs as long as it can
FairSpec == Spec /\ WF_vars(Next)

-----------------------------------------------------------------------------
(* Properties                                                                *)

\* The types of the variables.
TypeOK ==
  /\ file \in 0..Len(job.input) /\ next \in Nat \ {0}
  /\ ps \in Text \cup {Null} /\ hs \in Text \cup {Null}
  /\ lineno \in Nat
  /\ in_range \in [DOMAIN g_cmds -> BOOLEAN]
  /\ i \in 1..Len(g_cmds) + 1
  /\ {is_last_line_in_file, quit_now, again} \subseteq BOOLEAN
  /\ step \in {"open", "read", "exec", "after"}
  /\ wfile \in [WFile -> Text \cup {Absent}]
  /\ status \in {"running", "done", "failed"}
  /\ out \in Seq(Symbol \cup Nat \cup {Listed})

Ops == {g_cmds[k].op : k \in DOMAIN g_cmds}

\* what fgets has returned so far
LinesRead ==
  FlattenSeq([k \in 1..file |-> FlattenSeq(IF k < file THEN job.input[k]
                                           ELSE SubSeq(Lines, 1, next - 1))])

\* every line of the input, and whether it is the last of its file
AllLines ==
  FlattenSeq([k \in DOMAIN job.input |->
    [n \in DOMAIN job.input[k] |-> [text |-> job.input[k][n], last |-> n = Len(job.input[k])]]])

Chars(text) == FlattenSeq([k \in DOMAIN text |-> IF text[k] \in Char THEN <<text[k]>> ELSE <<>>])

BetweenLines == status = "done" \/ (status = "running" /\ step \in {"read", "open"})

\* The hand-over of lines between n, N, x and process_files (a null pattern space, a
\* marker at its end, a second round for the line n has read) loses no line and prints
\* none twice, at the end of a file too: between rounds what is printed is what has been
\* read; with x at the head of the script, what is printed and then what is held, one line
\* being under way in the hold space.
HandsOver == Ops \subseteq {"n", "N", "h", "w", "=", "q"}
HoldsBack == /\ g_cmds # <<>> /\ g_cmds[1] = [op |-> "x", a1 |-> NoAddress, a2 |-> NoAddress]
             /\ \A k \in 2..Len(g_cmds) : g_cmds[k].op \in {"n", "=", "w"}
LinesAccounted ==
  (BetweenLines /\ job.auto) =>
    /\ HandsOver => Chars(out) = Chars(LinesRead)
    /\ HoldsBack => Chars(out \o Held) = Chars(LinesRead)

\* What the manual says an address means: "$" is the last line of the input, and /re/ a
\* line in which re is found.
Means(a, n) ==
  \/ a.type = "none"
  \/ a.type = "line"  /\ a.line = n
  \/ a.type = "last"  /\ n = Len(AllLines)
  \/ a.type = "regex" /\ Found(AllLines[n].text, 1, a.re)

\* The addresses that addr_matches takes as the manual does, on every line of the input.
\* Those with a regular expression never are (0, for found, is taken for false), nor is "$"
\* where more than one file has lines.
AsDocumented(cmd) ==
  \A n \in DOMAIN AllLines : \A a \in {cmd.a1, cmd.a2} :
    AddrMatches(a, AllLines[n].text, n, AllLines[n].last) <=> Means(a, n)

\* The lines a range selects, by the manual: those from a line that matches the first
\* address to the first one, the same line included, that matches the second.
Selected(cmd, n) ==
  \E first \in 1..n : Means(cmd.a1, first) /\ \A k \in first..n - 1 : ~Means(cmd.a2, k)

LinesWhere(chosen) ==
  FlattenSeq([n \in DOMAIN AllLines |-> IF chosen[n] THEN AllLines[n].text ELSE <<>>])

OneRange(op) ==
  status = "done" /\ Len(g_cmds) = 1 /\ Ops = {op} /\ Ranged(g_cmds[1]) /\ AsDocumented(g_cmds[1])

\* in_range, one flag that p sets on a line and clears on another, across the files, makes
\* p print the lines of the range, for the addresses that are taken as the manual says.
PrintsItsRange ==
  (OneRange("p") /\ ~job.auto) =>
    out = LinesWhere([n \in DOMAIN AllLines |-> Selected(g_cmds[1], n)])

\* The same of d: what is printed is what is not in the range.  The comment in
\* apply_addresses says that after the line on which a2 matches the range ends.
DeletesItsRange ==
  (OneRange("d") /\ job.auto) =>
    out = LinesWhere([n \in DOMAIN AllLines |-> ~Selected(g_cmds[1], n)])

\* the script consists of p, and of w to f after each of them, for the same lines, and f
\* can be opened
PrintsAndWrites(f) ==
  f \notin Unwritable /\ \A k \in DOMAIN g_cmds :
    LET cmd == g_cmds[k]
    IN  IF k % 2 = 1 THEN k < Len(g_cmds) /\ cmd.op = "p"
        ELSE cmd = [op |-> "w", a1 |-> g_cmds[k - 1].a1, a2 |-> g_cmds[k - 1].a2, file |-> f]

\* A file that several commands write to is truncated once, by whichever is the first on
\* whichever line, and then holds all that they have written, in order.
WrittenAsPrinted ==
  \A f \in WFile : (BetweenLines /\ ~job.auto /\ PrintsAndWrites(f)) =>
    out = IF wfile[f] = Absent THEN <<>> ELSE wfile[f]

\* do_substitute replaces the matches that its flag chooses in the text as it was, and
\* nothing else, as its comment and the manual say.
SubstitutesChosen ==
  (step = "exec" /\ i <= Len(g_cmds) /\ c.op = "s" /\ ~c.sub.re.star) =>
    LET nth(k) == Cardinality(Hits(SubSeq(ps, 1, k), 1, c.sub.re))
        hit(k) == ps[k] = c.sub.re.char /\ Chosen(c.sub.occurrence, nth(k))
    IN  DoSubstitute(ps, c.sub).text =
          FlattenSeq([k \in DOMAIN ps |-> IF hit(k) THEN c.sub.repl ELSE <<ps[k]>>])

\* D starts the script again without reading, and what gives it new lines to delete would
\* keep it going: without such commands sed comes to the end of its input.
Growing == {"c", "g", "G", "x"}
Finishes ==
  ("D" \notin Ops \/ Ops \cap Growing = {}) ~> status # "running"

=============================================================================
