------------------------------- MODULE MCEditor -------------------------------
(* Values for model-checking Editor: addresses and the commands of each run.  *)
EXTENDS Editor

None   == <<>>
At(n)  == <<Num(n)>>
Dot    == <<Sym(".")>>
Dollar == <<Sym("$")>>
Comma  == <<Sym(",")>>
Pair(m, n) == <<Num(m), Sym(","), Num(n)>>
AtMark(m)  == <<MarkTok(m)>>

\* ranges of a buffer of three lines, in order
Ranges == {None, Dollar, Comma} \cup {Pair(m, n) : <<m, n>> \in {<<1, 2>>, <<2, 3>>}}
Lines  == {At(1), At(2), At(3), Dot}

Cmd(ops, addrs) == {[op |-> o, addr |-> a] : o \in ops, a \in addrs}
TextCmd(ops, addrs, texts) ==
  {[op |-> o, addr |-> a, text |-> t] : o \in ops, a \in addrs, t \in texts}
DestCmd(ops, addrs, dests) ==
  {[op |-> o, addr |-> a, dest |-> d] : o \in ops, a \in addrs, d \in dests}
MarkCmd(addrs, marks) == {[op |-> "k", addr |-> a, mark |-> m] : a \in addrs, m \in marks}
FileCmd(ops, addrs, files) ==
  {[op |-> o, addr |-> a, file |-> f] : o \in ops, a \in addrs, f \in files}
SubCmd(addrs, subs) == {[op |-> "s", addr |-> a, sub |-> s] : a \in addrs, s \in subs}
GlobalCmd(ops, addrs, pats, lists, cmds) ==
  {[op |-> o, addr |-> a, pat |-> p, list |-> l, cmds |-> c] :
     o \in ops, a \in addrs, p \in pats, l \in lists, c \in cmds}

\* a line that contains an "x" does so after it is joined to others
MCConcat(s) == IF \E i \in DOMAIN s : s[i] = "x" THEN "x" ELSE s[1]

\* three lines in one file
ThreeLines == {<<"x", "y", "z">>}
Short == {<<"x", "y", "z">>, <<>>}

XtoY    == [match |-> {"x"}, once |-> [t \in Text |-> "y"], global |-> TRUE]

\* s/\(.\)\(.\)/\2\1/ on lines of two characters: x becomes y and y becomes x
Swap(g) == [match |-> {"x", "y"},
            once  |-> [t \in Text |-> IF t = "x" THEN "y" ELSE "x"], global |-> g]

Dests == {At(1), Dollar, Dot}

-----------------------------------------------------------------------------
(* Global commands                                                            *)

\* commands that touch nothing before the line they are executed for
Inner == Cmd({"d", "p"}, {None}) \cup SubCmd({None}, {XtoY, Swap(FALSE)})
           \cup TextCmd({"a", "i", "c"}, {None}, {<<"x">>})

Look == GlobalCmd({"g", "v"}, {None}, {{"x"}}, {FALSE}, {<<c>> : c \in Cmd({"p"}, {None})})

Lists == {<<c, d>> : c \in SubCmd({None, Dot}, {XtoY}) \cup TextCmd({"a"}, {None}, {<<"x">>}),
                     d \in Cmd({"d"}, {None, Dot})}

Globals ==
  GlobalCmd({"g"}, {None, At(2), Pair(1, 2)}, {{"x"}}, {FALSE}, {<<c>> : c \in Inner \cup Look})
    \cup GlobalCmd({"v"}, {None}, {{"x"}}, {FALSE}, {<<c>> : c \in Inner})
    \cup GlobalCmd({"g", "v"}, {None}, {{"y", "z"}}, {TRUE}, Lists)

GlobalCommands == Globals \cup Inner \cup Look \cup UNION {{l[1], l[2]} : l \in Lists}

(* nested: any command under a global one, global commands included            *)

Edits == Cmd({"d"}, {None}) \cup TextCmd({"a"}, {None}, {<<"x">>})
           \cup DestCmd({"m"}, {None}, {At(1)}) \cup DestCmd({"t"}, {None}, {Dollar})
           \cup SubCmd({None}, {XtoY, Swap(FALSE)})

Ends == Cmd({"u", "q"}, {None})

Nested == GlobalCmd({"g", "v"}, {None}, {{"x"}}, {FALSE}, {<<c>> : c \in Edits})

Outer == GlobalCmd({"g"}, {None}, {{"x", "z"}}, {FALSE}, {<<c>> : c \in Nested \cup Edits})
           \cup GlobalCmd({"g"}, {Pair(2, 1)}, {{"x"}}, {FALSE}, {<<c>> : c \in Ends})
           \cup GlobalCmd({"v"}, {None}, {{"y"}}, {TRUE}, {<<c, d>> : c \in Edits, d \in Edits \cup Ends})

NestedCommands == Outer \cup Nested \cup Edits \cup Ends

TwoFiles == {<<"x", "y", "x">>, <<"x", "z">>}
-----------------------------------------------------------------------------
(* edit: text that is not empty and ranges in order, with marks, under global  *)
(* commands too                                                                *)

EditTyped ==
  Cmd({"d", "j"}, {None, Comma, Pair(1, 2)}) \cup Cmd({"u"}, {None})
    \cup TextCmd({"a", "i", "c"}, {At(1)}, {<<"x", "z">>}) \cup TextCmd({"a"}, {None}, {<<"x">>})
    \cup TextCmd({"c"}, {Comma}, {<<"x">>})
    \cup DestCmd({"m", "t"}, {Dollar, Pair(1, 2)}, Dests)
    \cup MarkCmd({At(2)}, Mark) \cup Cmd({"="}, {None})
    \cup SubCmd({Comma}, {XtoY, Swap(TRUE)})
    \cup FileCmd({"r"}, {At(1)}, FileName)
    \cup Globals

EditCommands == EditTyped \cup GlobalCommands

-----------------------------------------------------------------------------
(* session: ranges in the wrong order, empty text, addresses of every kind, and *)
(* files that are written, read, loaded and lost                                *)

Odd == {Pair(3, 1), <<Sym("-"), Num(1), Sym("$")>>}

SessionCommands ==
  Cmd({"d", "j"}, {None, Comma} \cup Odd)
    \cup Cmd({"p", ""}, {At(9), Dollar, <<Sym("+"), Num(1)>>})
    \cup Cmd({"u", "P", "#", "h", "=", "Q", "q"}, {None, Comma})
    \cup TextCmd({"a", "i", "c"}, {None, Pair(3, 1)}, {<<"y">>, <<>>})
    \cup TextCmd({"c"}, {Dollar, Comma}, {<<>>})
    \cup DestCmd({"m", "t"}, {None, Pair(3, 1)},
                 {<<>>, Dollar, <<Sym("blank")>>, <<Sym("-"), Num(1)>>, <<Regex("/", {"y"})>>,
                  <<Regex("?", {"x"}), Sym("+"), Num(1)>>})
    \cup MarkCmd({None}, Mark) \cup Cmd({"p"}, {AtMark(m) : m \in Mark})
    \cup SubCmd({None, Comma}, {Swap(FALSE)})
    \cup FileCmd({"w", "e", "E", "f"}, {None}, FileName \cup {NoName})
    \cup FileCmd({"r"}, {At(1), Comma}, FileName)
    \cup FileCmd({"W"}, {None, Pair(2, 1)}, {"g"})

-----------------------------------------------------------------------------
(* The commands of the runs that end in a counterexample                      *)

ChangeCommands == TextCmd({"c"}, {Pair(1, 2)}, {<<"y">>}) \cup Cmd({"u"}, {None})
SwapCommands   == SubCmd({Comma}, {Swap(TRUE)})
CopyCommands   == DestCmd({"t"}, {None, At(1), Comma}, Dests)
=============================================================================
