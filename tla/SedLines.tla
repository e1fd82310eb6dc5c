------------------------------- MODULE SedLines -------------------------------
(***************************************************************************)
(* What parse_script of level1/sed.c keeps of a script.  A line of the      *)
(* script is a sequence of commands, which ";" separates; the text of a, i  *)
(* and c belongs to the line of the command, which is the only one there.   *)
(* After a command the rest of the line that the parser is at is passed     *)
(* over: the commands after ";", but after a text, where it is at the start *)
(* of one, the whole next line, which has no text of its own.  The comments *)
(* at sed.c:538 and 558 and the manual say that these are read.             *)
(***************************************************************************)
EXTENDS Naturals, Sequences, SequencesExt

PassedOver(lines) ==
  LET after[k \in DOMAIN lines] ==
        k > 1 /\ ~after[k - 1] /\ lines[k - 1] # <<>> /\ lines[k - 1][1].op \in {"a", "i", "c"}
  IN  {k \in DOMAIN lines : after[k]}

ParseScript(lines) ==
  FlattenSeq([k \in DOMAIN lines |->
    IF k \in PassedOver(lines) \/ lines[k] = <<>> THEN <<>> ELSE <<lines[k][1]>>])
=============================================================================
