------------------------------ MODULE Tokenizer ------------------------------
(***************************************************************************)
(* The shell of src/level2/sh23 as its Makefile builds it: main.c reads a  *)
(* line, tokenizer.c splits it, and the tokens are printed as soon as no   *)
(* quote and no here-document is open.  Texts are sequences of characters, *)
(* a token is a type and a text; the quotes, the backslash, the backtick   *)
(* and the newline are written as words.                                   *)
(*                                                                         *)
(* A line of main has no newline left in it: the branches of tokenizer.c   *)
(* that consume one cannot be taken, and process_heredoc, which insists on *)
(* one, always ends in log_fatal, which calls abort.  process_dparen,      *)
(* process_param and process_backtick test the pointer into the line where *)
(* they mean its character; none of their loops ends, they run on past the *)
(* line until a fault or a byte that is not ASCII stops the process.       *)
(***************************************************************************)
EXTENDS Integers, Sequences, SequencesExt

CONSTANTS
  CommandLines,  \* the lines that may be typed
  MaxLines,      \* bound: the lines of one command that are split or kept
  MaxTokens,     \* bound: with more tokens a command gets no further line
  Keywords,      \* the reserved words
  Letters, Digits, NonAscii

VARIABLES
  shell,    \* the Tokenizer structure of the C code, except what nothing reads
  alive,    \* FALSE when the process has stopped
  shown,    \* the tokens printed for the last command, or <<>>
  typed,    \* the lines of this command that were split
  kept      \* the lines of this command taken for a here-document

kvars == <<shell, alive, shown, typed, kept>>

Blank == {" "}
Unset == <<"unset">>   \* a String pointer that is NULL

Fresh == [tokens |-> <<>>, current |-> <<>>, in_quotes |-> FALSE, in_dquotes |-> FALSE,
          escaped |-> FALSE, after_heredoc_op |-> FALSE, delim |-> Unset,
          content |-> Unset, aborted |-> FALSE]

-----------------------------------------------------------------------------
(* tokenizer.c: one character                                              *)

Quoted(s) == s.in_quotes \/ s.in_dquotes
AddToken(s, type, t) == [s EXCEPT !.tokens = Append(@, [type |-> type, text |-> t])]
Abort(s) == [s EXCEPT !.aborted = TRUE]

(* string_append_ascii_char refuses a byte that is not ASCII, for all its   *)
(* callers the end.                                                         *)
Put(s, c) == IF c \in NonAscii THEN Abort(s) ELSE [s EXCEPT !.current = Append(@, c)]

finalize_current_token(s) ==
  IF s.current = <<>> THEN s
  ELSE [AddToken(s, IF s.current \in Keywords THEN "KEYWORD" ELSE "WORD", s.current)
        EXCEPT !.current = <<>>]

(* A comment or an operator ends the word before it, be it the delimiter of *)
(* a here-document or not.                                                  *)
EndWordMutant(s) == [s EXCEPT !.current = <<>>]
EndWord(s) == finalize_current_token(s)

Operators == {<<"&", "&">>, <<"|", "|">>, <<";", ";">>, <<"<", "<", "-">>, <<"<", "<">>,
              <<">", ">">>, <<"<", "&">>, <<">", "&">>, <<"<", ">">>, <<">", "|">>,
              <<"&">>, <<";">>, <<"<">>, <<">">>, <<"|">>, <<"(">>, <<")">>}
OperatorType(t) ==
  CASE t = <<"&", "&">> -> "AND_IF" [] t = <<"|", "|">> -> "OR_IF"
    [] t = <<";", ";">> -> "DSEMI" [] t = <<"<", "<", "-">> -> "DLESSDASH"
    [] t = <<"<", "<">> -> "DLESS" [] t = <<">", ">">> -> "DGREAT"
    [] t = <<"<", "&">> -> "LESSAND" [] t = <<">", "&">> -> "GREATAND"
    [] t = <<"<", ">">> -> "LESSGREAT" [] t = <<">", "|">> -> "CLOBBER"
    [] t = <<"&">> -> "AMP" [] t = <<";">> -> "SEMI" [] OTHER -> "OPERATOR"
OperatorTypes == {OperatorType(t): t \in Operators}

LongestOperator(line) ==
  CHOOSE t \in Operators: /\ IsPrefix(t, line)
                          /\ \A u \in Operators: IsPrefix(u, line) => Len(u) <= Len(t)

(* The operator becomes a token and is left as the text of the next one.    *)
process_operator(s, op) ==
  [AddToken(s, OperatorType(op), op) EXCEPT
     !.current = op,
     !.after_heredoc_op = OperatorType(op) \in {"DLESS", "DLESSDASH"}]

RECURSIVE TildePrefix(_)
TildePrefix(rest) ==
  IF rest # <<>> /\ Head(rest) \in Letters \cup Digits \cup {"_", "+", "-"}
  THEN <<Head(rest)>> \o TildePrefix(Tail(rest)) ELSE <<>>

(* A substitution: none of these functions returns. *)
process_dparen(s) == Abort(s)
process_param(s) == Abort(s)
process_backtick(s) == Abort(s)

(* An unquoted blank: it ends the word, and aborts where the word is the    *)
(* delimiter of a here-document, which process_heredoc wants a newline      *)
(* behind.                                                                  *)
process_blank(s) ==
  IF s.current # <<>> /\ s.after_heredoc_op THEN Abort(s) ELSE finalize_current_token(s)

(* What is done at the head of a line: the state after it and the number of *)
(* characters it takes.                                                     *)
Takes(s, n) == [state |-> s, taken |-> n]

Unquoted(s, line) ==
  LET c == Head(line)
      tilde == <<"~">> \o TildePrefix(Tail(line))
  IN CASE c \in Blank -> Takes(process_blank(s), 1)
       [] c = "#" -> Takes(AddToken(EndWord(s), "COMMENT", line), Len(line))
       [] IsPrefix(<<"$", "(">>, line) -> Takes(process_dparen(EndWord(s)), 2)
       [] IsPrefix(<<"$", "{">>, line) -> Takes(process_param(EndWord(s)), 2)
       [] c = "backtick" -> Takes(process_backtick(EndWord(s)), 1)
       [] <<c>> \in Operators ->
            LET op == LongestOperator(line)
            IN Takes(process_operator(EndWord(s), op), Len(op))
       [] c = "~" /\ s.current = <<>> -> Takes(AddToken(s, "TILDE", tilde), Len(tilde))
       [] OTHER -> Takes(Put(s, c), 1)

AtHead(s, line) ==
  LET c == Head(line)
  IN IF s.escaped THEN Takes(Put([s EXCEPT !.escaped = FALSE], c), 1)
     ELSE IF c = "backslash" /\ ~s.in_quotes THEN Takes([s EXCEPT !.escaped = TRUE], 1)
     ELSE IF c = "quote" /\ ~s.in_dquotes THEN Takes(Put([s EXCEPT !.in_quotes = ~@], c), 1)
     ELSE IF c = "dquote" /\ ~s.in_quotes THEN Takes(Put([s EXCEPT !.in_dquotes = ~@], c), 1)
     ELSE IF Quoted(s) THEN Takes(Put(s, c), 1)
     ELSE Unquoted(s, line)

RECURSIVE tokenizer_process_input(_, _)
tokenizer_process_input(s, line) ==
  IF line = <<>> \/ s.aborted THEN s
  ELSE LET head == AtHead(s, line)
       IN tokenizer_process_input(head.state, SubSeq(line, head.taken + 1, Len(line)))

-----------------------------------------------------------------------------
(* tokenizer.c: one line                                                   *)

StartsHeredoc(line) == IsPrefix(<<"<", "<">>, line)
Splits(s, line) == ~s.after_heredoc_op /\ s.delim = Unset /\ ~StartsHeredoc(line)

process_heredoc_content(s, line) ==
  [s EXCEPT !.content = IF @ = <<>> THEN line ELSE @ \o <<"newline">> \o line]

(* Quotes are not looked at here: a line that begins with "<<" inside a     *)
(* quote is an operator, and the rest of it is dropped.                     *)
tokenizer_process_line(s, line) ==
  IF s.after_heredoc_op
  THEN [s EXCEPT !.delim = line, !.after_heredoc_op = FALSE, !.content = <<>>]
  ELSE IF s.delim # Unset
  THEN IF line = s.delim
       THEN [AddToken(s, "WORD", s.content) EXCEPT !.delim = Unset, !.content = Unset]
       ELSE process_heredoc_content(s, line)
  ELSE IF StartsHeredoc(line)
  THEN [AddToken(s, "DLESS", <<"<", "<">>) EXCEPT !.after_heredoc_op = TRUE]
  ELSE tokenizer_process_input(s, line)

(* Neither an escape at the end of the line nor an operator that wants a    *)
(* here-document counts.                                                    *)
tokenizer_is_complete(s) == s.delim = Unset /\ ~Quoted(s)

IsName(t) == /\ t # <<>> /\ t[1] \notin Digits
             /\ \A i \in DOMAIN t: t[i] \in Letters \cup Digits \cup {"_"}
IsNumber(t) == t # <<>> /\ \A i \in DOMAIN t: t[i] \in Digits
IsAssignment(t) ==
  /\ \A i \in DOMAIN t: t[i] # " "
  /\ \E i \in DOMAIN t: /\ t[i] = "=" /\ \A j \in 1..(i - 1): t[j] # "="
                        /\ IsName(SubSeq(t, 1, i - 1))

(* Assignment comes last and overrides: a reserved word has no "=".         *)
FinalType(tokens, i) ==
  LET t == tokens[i]
      Redirects(u) == \/ u.type = "OPERATOR" /\ u.text \in {<<"<">>, <<">">>}
                      \/ u.type \in {"DLESS", "DGREAT", "DLESSDASH"}
  IN CASE t.type # "WORD" -> t.type
       [] IsAssignment(t.text) -> "ASSIGNMENT"
       [] t.text \in Keywords -> "KEYWORD"
       [] i < Len(tokens) /\ Redirects(tokens[i + 1]) /\ IsNumber(t.text) -> "IO_NUMBER"
       [] OTHER -> "WORD"

tokenizer_finalize(s) ==
  IF s.current # <<>> /\ s.after_heredoc_op THEN Abort(s)
  ELSE LET f == finalize_current_token(s)
       IN [f EXCEPT !.tokens = [i \in DOMAIN @ |-> [@[i] EXCEPT !.type = FinalType(f.tokens, i)]]]

-----------------------------------------------------------------------------
(* main.c                                                                  *)

KInit == shell = Fresh /\ alive = TRUE /\ shown = <<>> /\ typed = <<>> /\ kept = <<>>

(* The lines of this command, which begins when the last one was printed.   *)
Begins == shell = Fresh
Note(line) ==
  LET typedSoFar == IF Begins THEN <<>> ELSE typed
      keptSoFar == IF Begins THEN <<>> ELSE kept
  IN /\ typed' = IF Splits(shell, line) THEN Append(typedSoFar, line) ELSE typedSoFar
     /\ kept' = IF shell.delim # Unset /\ line # shell.delim
                THEN Append(keptSoFar, line) ELSE keptSoFar

Continue(s) ==
  /\ ~tokenizer_is_complete(s)
  /\ shell' = s /\ shown' = <<>> /\ UNCHANGED alive

Show(s) ==
  /\ tokenizer_is_complete(s)
  /\ ~tokenizer_finalize(s).aborted
  /\ shown' = tokenizer_finalize(s).tokens
  /\ shell' = Fresh /\ UNCHANGED alive

Stop == alive' = FALSE /\ UNCHANGED <<shell, shown>>

ReadLine(line) ==
  LET s == tokenizer_process_line(shell, line)
  IN /\ alive
     /\ Begins \/ (Len(typed) + Len(kept) < MaxLines /\ Len(shell.tokens) <= MaxTokens)
     /\ Note(line)
     /\ \/ ~s.aborted /\ Continue(s)
        \/ ~s.aborted /\ Show(s)
        \/ s.aborted /\ Stop
        \/ ~s.aborted /\ tokenizer_is_complete(s) /\ tokenizer_finalize(s).aborted /\ Stop

(* The end of the input: an open quote or here-document goes with it.       *)
EndOfInput == alive /\ alive' = FALSE /\ UNCHANGED <<shell, shown, typed, kept>>

KNext == EndOfInput \/ \E line \in CommandLines: ReadLine(line)

-----------------------------------------------------------------------------
(* Properties                                                              *)

KTypeOK ==
  /\ alive \in BOOLEAN
  /\ shell.in_quotes \in BOOLEAN /\ shell.in_dquotes \in BOOLEAN
  /\ shell.escaped \in BOOLEAN /\ shell.after_heredoc_op \in BOOLEAN
  /\ ~shell.aborted
  /\ shell.content = Unset <=> shell.delim = Unset
  /\ Range(typed) \cup Range(kept) \subseteq CommandLines

(* The characters of words: neither blanks nor those with a meaning for the *)
(* tokenizer, of which token_tests.txt expects that quotes and operators are *)
(* not in a word and the code leaves them there.                            *)
OperatorCharacters == UNION {Range(t): t \in Operators}
OfWords(t) ==
  SelectSeq(t, LAMBDA c: c \notin {" ", "newline", "backslash", "quote", "dquote"} \cup OperatorCharacters)
Texts(tokens) == FlattenSeq([i \in DOMAIN tokens |-> tokens[i].text])
Occurrences(c, t) == Len(SelectSeq(t, LAMBDA d: d = c))

(* The tokens besides the operators.                                        *)
Remaining ==
  IF Begins THEN Texts(SelectSeq(shown, LAMBDA t: t.type \notin OperatorTypes))
  ELSE Texts(SelectSeq(shell.tokens, LAMBDA t: t.type \notin OperatorTypes))
       \o shell.current \o (IF shell.content = Unset THEN <<>> ELSE shell.content)

(* No word is lost or comes twice: however quotes, escapes, comments,        *)
(* operators and lines follow one another, tokenizer_process_input and       *)
(* tokenizer_finalize bring every character of a word into one token that is *)
(* no operator, in its place; tokenizer_process_line keeps the lines of a    *)
(* here-document the same way.  A line that begins with "<<" is not among    *)
(* those split: what follows the operator on it is dropped.                  *)
NothingTypedIsLost ==
  alive =>
    LET given == OfWords(FlattenSeq(typed))
        lines == OfWords(FlattenSeq(kept))
        found == OfWords(Remaining)
    IN /\ kept = <<>> => found = given
       /\ \A c \in Range(given) \cup Range(lines) \cup Range(found):
            Occurrences(c, found) = Occurrences(c, given) + Occurrences(c, lines)
=============================================================================
