--------------------------------- MODULE MCSed ---------------------------------
(* Values for model-checking Sed: input of up to four lines in up to three files,*)
(* and the scripts of each run.                                                   *)
EXTENDS Sed

CONSTANTS a, b

L(x) == <<x, Newline>>

\* the last line may lack its newline, a file may be empty or missing
Inputs ==
  { <<<<L(a), L(b), L(a)>>>>, <<<<L(b), L(a), <<b>>>>>>, <<<<L(a)>>, <<L(b), L(a)>>>>,
    <<<<L(b), L(b)>>, <<>>, <<L(a)>>>>, <<<<L(a), <<a, b, Newline>>>>, Absent>>,
    <<<<L(a), L(b)>>, <<L(b), L(a)>>>> }

Every     == NoAddress
Nth(n)    == [type |-> "line", line |-> n]
LastLine  == [type |-> "last"]
With(x)   == [type |-> "regex", re |-> [char |-> x, star |-> FALSE]]

Cmd(op, a1, a2) == [op |-> op, a1 |-> a1, a2 |-> a2]
All(op)         == Cmd(op, Every, Every)
On(op, a1)      == Cmd(op, a1, Every)
TextCmd(op, a1) == [op |-> op, a1 |-> a1, a2 |-> Every, text |-> <<b>>]
FileCmd(op, a1, a2, f) == [op |-> op, a1 |-> a1, a2 |-> a2, file |-> f]
Sub(re, repl, occurrence, print, f) ==
  [op |-> "s", a1 |-> Every, a2 |-> Every, file |-> f, print |-> print,
   sub |-> [re |-> re, repl |-> repl, occurrence |-> occurrence]]
Swap == [op |-> "y", a1 |-> Every, a2 |-> Every,
         map |-> [x \in Symbol |-> IF x = a THEN b ELSE IF x = b THEN a ELSE x]]

Plain(x) == [char |-> x, star |-> FALSE]
Star(x)  == [char |-> x, star |-> TRUE]

Ranges == {<<x, y>> : x \in {Nth(1), Nth(2), With(b)}, y \in {Nth(1), Nth(2), Nth(3), With(a), LastLine}}

RangeScripts(ops) == {<<Cmd(op, r[1], r[2])>> : op \in ops, r \in Ranges}

\* n, N, x and what goes with them
Handovers ==
  LET K == {All("n"), All("N"), On("n", LastLine), On("N", With(a)), On("n", With(a)),
            On("q", Nth(2)), All("=")}
  IN  {<<k>> : k \in K} \cup {<<k, l>> : k \in K, l \in K}
        \cup {<<All("x"), l>> : l \in {All("n"), On("n", With(a)), All("=")}}

Writers ==
  LET pw(x) == <<Cmd("p", x[1], x[2]), FileCmd("w", x[1], x[2], "f")>>
      W     == Ranges \cup {<<With(a), Every>>, <<Nth(2), Every>>, <<LastLine, Every>>}
  IN  {pw(<<With(b), Every>>) \o pw(x) : x \in W} \cup {pw(<<Nth(2), With(a)>>) \o pw(x) : x \in W}

Subs == {Sub(Plain(x), <<b, a>>, k, TRUE, "f") : x \in {a, b}, k \in {-1, 0, 2}}

\* each of the other commands, where D may start the script again and where it may not
Others1 == {All("D"), All("P"), All("l"), All("h"), All("H"), All("g"), All("G"), All("x"), Swap,
            TextCmd("a", With(a)), TextCmd("i", Nth(2)), TextCmd("c", With(a)),
            FileCmd("r", With(b), Every, "f"), FileCmd("r", Every, Every, "g"), On("d", With(b)),
            FileCmd("w", Every, Every, "g"), FileCmd("w", Every, Every, "h"), Sub(Star(a), <<b>>, 0, FALSE, Absent),
            Sub(Star(a), <<b>>, -1, FALSE, "g"), Sub(Plain(Newline), <<a>>, 2, FALSE, Absent)}

Pairs == {<<k, l>> : k \in Others1, l \in Others1}
\* the memory ends in N, for its marker or for the line
LongJoins ==
  LET Gs(n) == <<TextCmd("c", Every), All("H")>> \o [k \in 1..n |-> All("G")] \o <<All("N")>>
  IN  {Gs(2), Gs(3)}

Triples == LongJoins \cup {<<k, l, All("D")>> : k \in {All("H"), All("G"), TextCmd("a", Every)},
                                 l \in {All("x"), All("G"), All("P"), On("n", With(a))}}

Job(lines, auto, files) == [script |-> lines, auto |-> auto, input |-> files]

\* one command to a line, and an empty line after a text
OneEach(s) ==
  FlattenSeq([k \in DOMAIN s |-> IF s[k].op \in {"a", "i", "c"} THEN <<<<s[k]>>, <<>>>> ELSE <<<<s[k]>>>>])

\* two commands on a line, and a line that follows a text
Dense == {<<<<All("p"), All("d")>>>>, <<<<All("=")>>, <<TextCmd("i", Every)>>, <<All("d")>>, <<All("P")>>>>}

Ins(n) == {f \in Inputs : Len(f) <= n}

MCJobs ==
  {Job(OneEach(s), FALSE, f) : s \in RangeScripts({"p"}) \cup Writers, f \in Inputs}
    \cup {Job(OneEach(s), TRUE, f) : s \in Handovers, f \in Inputs}
    \cup {Job(OneEach(s), TRUE, f) : s \in Pairs \cup Triples, f \in Ins(1)}
    \cup {Job(OneEach(<<s>>), TRUE, f) : s \in Subs, f \in Inputs}
    \cup {Job(s, TRUE, f) : s \in Dense, f \in Inputs}

SubJobs == {Job(OneEach(<<s>>), TRUE, f) : s \in Subs, f \in Inputs}

RangeJobs == {Job(OneEach(s), TRUE, f) : s \in RangeScripts({"d"}), f \in Inputs}

MCRFile == [f \in {"f", "g"} |-> IF f = "f" THEN L(a) ELSE Absent]
=============================================================================
