------------------------------- MODULE Batch -------------------------------
(***************************************************************************)
(* src/src/batch/batch.c: the batch interpreter.  A physical line is       *)
(* [words, cont, indent]: its words, whether it ends with a backslash, and *)
(* whether it begins with white space.  A word is a string; those of       *)
(* DOMAIN Reference are {{name}}, those of Unmatched open {{ and do not    *)
(* close it.  Lengths are counted in words.  Quotes, the prompt and the    *)
(* messages (-v) are left out.                                             *)
(***************************************************************************)
EXTENDS Integers, Sequences, FiniteSets
LOCAL INSTANCE SequencesExt

CONSTANTS
  Scripts,
  Reference,     \* the word {{name}} -> name
  Unmatched,
  MaxLine,       \* MAX_LINE - 1: what fgets reads at once
  MaxCommand,    \* the room of full_cmd
  MaxExpanded,   \* the room of expanded
  MaxVars,       \* MAX_VARS
  MaxValue       \* MAX_VAR_VALUE - 1

VARIABLES
  script, flags,     \* flags: a set of "i", "n", "u"
  lines,             \* the lines still to be read
  full_cmd,          \* [words, indent], the command so far
  continuing,
  vars,              \* sequence of [name, value]
  block,             \* "none", "execute" or "skip": in_if_block, execute_if_block
  ran,               \* history: the commands run or, with -n, shown
  ended              \* "no", "eof", "error" (the loop is left), "failed"

hvars == <<script, flags, lines, full_cmd, continuing, vars, block, ran, ended>>

Operators == {"=", ":=", "+=", "+:="}
CutMutant(text, n) == text
Cut(text, n) == SubSeq(text, 1, IF Len(text) < n THEN Len(text) ELSE n)
NoCommand == [words |-> <<>>, indent |-> FALSE]

-----------------------------------------------------------------------------
(* var_find: the place of a variable, 0 if there is none. *)
var_find(name) ==
  LET found == {i \in DOMAIN vars: vars[i].name = name}
  IN IF found = {} THEN 0 ELSE CHOOSE i \in found: \A j \in found: i <= j

(* expand_variables: what does not fit is cut off, unless it is the value   *)
(* of a variable: then, as for {{ without end or with -u an unknown name,   *)
(* the expansion fails.  lookup(n) is <<value>> or <<>>.                    *)
Expanded(text, room, lookup(_)) ==
  LET step(r, w) ==
        IF ~r.ok \/ Len(r.out) >= room THEN r
        ELSE IF w \in Unmatched THEN [r EXCEPT !.ok = FALSE]
        ELSE IF w \notin DOMAIN Reference THEN [r EXCEPT !.out = Append(@, w)]
        ELSE LET v == lookup(Reference[w]) IN
             IF v = <<>> THEN [r EXCEPT !.ok = "u" \notin flags]
             ELSE [ok |-> Len(r.out) + Len(v[1]) <= room, out |-> r.out \o v[1]]
  IN FoldLeft(step, [ok |-> TRUE, out |-> <<>>], text)

Value(name) == LET i == var_find(name) IN IF i = 0 THEN <<>> ELSE <<vars[i].value>>
expand_variables(text, room) == Expanded(text, room, Value)

-----------------------------------------------------------------------------
(* The builtins.  Their result is looked at by nobody. *)
WellFormed(words) == Len(words) >= 3 /\ words[3] \in Operators

cmd_var(words) ==
  LET name == words[2]
      op == words[3]
      raw == Cut(SubSeq(words, 4, Len(words)), MaxValue)
      e == IF op \in {":=", "+:="} THEN expand_variables(raw, MaxValue)
           ELSE [ok |-> TRUE, out |-> raw]
      i == var_find(name)
      old == IF i # 0 /\ op \in {"+=", "+:="} THEN vars[i].value ELSE <<>>
      new == [name |-> name, value |-> Cut(old \o e.out, MaxValue)]
  IN IF ~WellFormed(words) THEN UNCHANGED vars
     ELSE IF ~e.ok \/ (i = 0 /\ Len(vars) >= MaxVars) THEN UNCHANGED vars
     ELSE vars' = IF i = 0 THEN Append(vars, new) ELSE [vars EXCEPT ![i] = new]

(* The last variable takes the place of the removed one. *)
RemovedMutant(i) == Front(vars)
Removed(i) == Front([vars EXCEPT ![i] = vars[Len(vars)]])

(* The word before the name is skipped, but not the white space before it.  *)
cmd_unset(cmd) ==
  LET name == IF cmd.indent THEN cmd.words[1] ELSE cmd.words[2]
      i == var_find(name)
  IN IF (~cmd.indent /\ Len(cmd.words) < 2) \/ var_find(name) = 0 THEN UNCHANGED vars
     ELSE vars' = Removed(i)

Builtin(cmd) ==
  CASE cmd.words[1] = "var" -> cmd_var(cmd.words)
    [] cmd.words[1] = "unset" -> cmd_unset(cmd)
    [] cmd.words[1] = "clearvars" -> vars' = <<>>
    [] OTHER -> UNCHANGED vars
Builtins == {"var", "unset", "vars", "clearvars"}

-----------------------------------------------------------------------------
(* The main loop: one command, or one line of it, at a time. *)
Leave(why) == ended' = why /\ UNCHANGED <<vars, block, ran>>

(* ifeq and ifneq do not nest, not even in a block that is skipped. *)
(* An argument of a condition is one word, or what is between two quotes. *)
expand_arg_token(word) == expand_variables(<<word>>, MaxValue)
Condition(words) ==
  LET a == expand_arg_token(words[2])
      b == expand_arg_token(words[3])
  IN IF block # "none" \/ Len(words) < 3 THEN Leave("error")
     ELSE IF ~a.ok \/ ~b.ok THEN Leave("error")
     ELSE /\ block' = IF (a.out = b.out) = (words[1] = "ifeq") THEN "execute" ELSE "skip"
          /\ UNCHANGED <<vars, ran, ended>>

(* What is not built in is given to system(), which may fail. *)
External(words) ==
  LET e == expand_variables(words, MaxExpanded)
  IN IF ~e.ok THEN Leave("error")
     ELSE /\ ran' = Append(ran, e.out)
          /\ ended' \in IF "n" \in flags \/ "i" \in flags THEN {"no"} ELSE {"no", "failed"}
          /\ UNCHANGED <<vars, block>>

Execute(cmd) ==
  CASE cmd.words = <<>> -> UNCHANGED <<vars, block, ran, ended>>
    [] cmd.words # <<>> /\ cmd.words[1] \in {"ifeq", "ifneq"} -> Condition(cmd.words)
    [] cmd.words # <<>> /\ cmd.words[1] = "endif" ->
         IF block = "none" THEN Leave("error")
         ELSE block' = "none" /\ UNCHANGED <<vars, ran, ended>>
    [] OTHER -> IF block = "skip" THEN UNCHANGED <<vars, block, ran, ended>>
                ELSE IF cmd.words[1] \in Builtins
                     THEN Builtin(cmd) /\ UNCHANGED <<block, ran, ended>>
                     ELSE External(cmd.words)

(* fgets takes no more than MaxLine: the rest is the next line. *)
Taken(line) == IF Len(line.words) <= MaxLine THEN line
               ELSE [line EXCEPT !.words = Cut(@, MaxLine), !.cont = FALSE]
Left(line) == IF Len(line.words) <= MaxLine THEN Tail(lines)
              ELSE <<[line EXCEPT !.words = SubSeq(@, MaxLine + 1, Len(@)), !.indent = FALSE]>>
                   \o Tail(lines)

Comment(line) ==
  ~line.indent /\ IF line.words = <<>> THEN ~line.cont ELSE line.words[1] = ";"
Joined(line) ==
  IF continuing THEN [full_cmd EXCEPT !.words = Cut(@ \o line.words, MaxCommand)]
  ELSE [words |-> Cut(line.words, MaxCommand), indent |-> line.indent]

SkipLine ==
  /\ ended = "no" /\ lines # <<>>
  /\ ~continuing /\ Comment(Taken(Head(lines)))
  /\ lines' = Left(Head(lines))
  /\ UNCHANGED <<script, flags, full_cmd, continuing, vars, block, ran, ended>>

ContinueLine ==
  LET line == Taken(Head(lines)) IN
  /\ ended = "no" /\ lines # <<>>
  /\ line.cont /\ (~continuing => ~Comment(line))
  /\ full_cmd' = Joined(line) /\ continuing' = TRUE
  /\ lines' = Left(Head(lines))
  /\ UNCHANGED <<script, flags, vars, block, ran, ended>>

RunLine ==
  LET line == Taken(Head(lines)) IN
  /\ ended = "no" /\ lines # <<>>
  /\ ~line.cont /\ (~continuing => ~Comment(line))
  /\ Execute(Joined(line))
  /\ full_cmd' = NoCommand /\ continuing' = FALSE
  /\ lines' = Left(Head(lines))
  /\ UNCHANGED <<script, flags>>

EndOfInput ==
  /\ ended = "no" /\ lines = <<>>
  /\ ended' = "eof"
  /\ UNCHANGED <<script, flags, lines, full_cmd, continuing, vars, block, ran>>

HInit ==
  /\ script \in Scripts /\ flags \in SUBSET {"i", "n", "u"}
  /\ lines = script
  /\ full_cmd = NoCommand /\ continuing = FALSE
  /\ vars = <<>> /\ block = "none" /\ ran = <<>> /\ ended = "no"

HNext == SkipLine \/ ContinueLine \/ RunLine \/ EndOfInput
HSpec == HInit /\ [][HNext]_hvars

HTypeOK ==
  /\ Len(vars) <= MaxVars
  /\ \A i \in DOMAIN vars: Len(vars[i].value) <= MaxValue
  /\ block \in {"none", "execute", "skip"}
  /\ ended \in {"no", "eof", "error", "failed"}

-----------------------------------------------------------------------------
(* What a script means: its commands, the continued lines joined, are        *)
(* carried out one after another with the variables in a function env.      *)
Commands ==
  LET step(r, line) ==
        IF ~r.open /\ Comment(line) THEN r
        ELSE LET words == r.words \o line.words IN
             IF line.cont THEN [r EXCEPT !.words = words, !.open = TRUE]
             ELSE [done |-> Append(r.done, words), words |-> <<>>, open |-> FALSE]
  IN FoldLeft(step, [done |-> <<>>, words |-> <<>>, open |-> FALSE], script).done

Meaning ==
  LET value(env, n) == IF n \in DOMAIN env THEN <<env[n]>> ELSE <<>>
      expand(env, text, room) == Expanded(text, room, LAMBDA n: value(env, n))
      assign(r, w) ==
        LET e == expand(r.env, SubSeq(w, 4, Len(w)), MaxValue)
            piece == IF w[3] \in {":=", "+:="} THEN e ELSE [ok |-> TRUE, out |-> SubSeq(w, 4, Len(w))]
            old == IF w[3] \in {"+=", "+:="} /\ w[2] \in DOMAIN r.env THEN r.env[w[2]] ELSE <<>>
        IN IF ~WellFormed(w) \/ ~piece.ok THEN r
           ELSE [r EXCEPT !.env = [n \in DOMAIN @ \cup {w[2]} |->
                                     IF n = w[2] THEN Cut(old \o piece.out, MaxValue) ELSE @[n]]]
      test(r, w) ==
        LET a == expand(r.env, <<w[2]>>, MaxValue)
            b == expand(r.env, <<w[3]>>, MaxValue)
        IN IF r.in \/ Len(w) < 3 \/ ~a.ok \/ ~b.ok THEN [r EXCEPT !.stop = TRUE]
           ELSE [r EXCEPT !.in = TRUE, !.skip = (a.out = b.out) # (w[1] = "ifeq")]
      step(r, w) ==
        CASE r.stop \/ w = <<>> -> r
          [] ~r.stop /\ w # <<>> /\ w[1] \in {"ifeq", "ifneq"} -> test(r, w)
          [] ~r.stop /\ w # <<>> /\ w[1] = "endif" ->
               IF r.in THEN [r EXCEPT !.in = FALSE, !.skip = FALSE] ELSE [r EXCEPT !.stop = TRUE]
          [] OTHER ->
               CASE r.skip -> r
                 [] ~r.skip /\ w[1] = "var" -> assign(r, w)
                 [] ~r.skip /\ w[1] = "unset" ->
                      [r EXCEPT !.env = [n \in DOMAIN @ \ {w[k]: k \in DOMAIN w \cap {2}} |-> @[n]]]
                 [] ~r.skip /\ w[1] = "clearvars" -> [r EXCEPT !.env = [n \in {} |-> <<>>]]
                 [] ~r.skip /\ w[1] = "vars" -> r
                 [] OTHER -> LET e == expand(r.env, w, MaxExpanded)
                             IN IF e.ok THEN [r EXCEPT !.ran = Append(@, e.out)] ELSE [r EXCEPT !.stop = TRUE]
  IN FoldLeft(step, [env |-> [n \in {} |-> <<>>], in |-> FALSE, skip |-> FALSE, ran |-> <<>>, stop |-> FALSE],
              Commands).ran

(* The commands that batch has run are those of its script in their order:   *)
(* those in a block whose condition holds, with the values that their        *)
(* variables then had.  Where it stops, at the end or at an error of the     *)
(* script, it has run all of them; without -i a command that fails is the    *)
(* last.  (Not so, and left out: an indented unset, a line or a command too  *)
(* long for its buffer, more variables than there is room for.)              *)
RunsAsWritten ==
  LET good == /\ \A k \in DOMAIN script:
                   /\ script[k].words # <<>> /\ script[k].words[1] = "unset" => ~script[k].indent
                   /\ Len(script[k].words) <= MaxLine
              /\ \A k \in DOMAIN Commands: Len(Commands[k]) <= MaxCommand
              /\ Cardinality({Commands[k][2]: k \in {j \in DOMAIN Commands: WellFormed(Commands[j])
                                                    /\ Commands[j][1] = "var"}}) <= MaxVars
  IN good => /\ IsPrefix(ran, Meaning)
             /\ ended \in {"eof", "error"} => ran = Meaning
=============================================================================
