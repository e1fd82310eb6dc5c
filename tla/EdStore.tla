-------------------------------- MODULE EdStore --------------------------------
(***************************************************************************)
(* What an editor promises about the text it is given: it changes only by    *)
(* an editing command, and from then on the editor knows that it is not in    *)
(* the file; it is let go only once it is stored, or when the user said E or  *)
(* Q, or gave no further input, or when the program breaks down.              *)
(***************************************************************************)
EXTENDS Naturals, Sequences

CONSTANTS Text, FileName, NoName, Absent

VARIABLES text,     \* the text being edited
          files,    \* the files
          name,     \* the file the text belongs to
          clean,    \* the text may be let go
          letter,   \* the last command
          state     \* "open", "closed" or "broken"

vars == <<text, files, name, clean, letter, state>>

Init ==
  /\ files \in [FileName -> Seq(Text) \cup {Absent}]
  /\ \/ text = <<>> /\ name = NoName
     \/ name \in FileName /\ text = files[name]
  /\ clean = TRUE /\ letter = "" /\ state = "open"

\* any command that leaves text and files alone
Look == UNCHANGED <<text, files, name, clean, state>>

Edit ==
  /\ text' \in Seq(Text) /\ clean' = FALSE
  /\ UNCHANGED <<files, name, state>>

Save(f) ==
  /\ letter' = "w"
  /\ files' = [files EXCEPT ![f] = text]
  /\ name' = f /\ clean' = TRUE
  /\ UNCHANGED <<text, state>>

\* W adds lines of the text to the end of a file, which need not be its own
Extend(f) ==
  /\ letter' = "W"
  /\ files' = [files EXCEPT ![f] = files'[f]]
  /\ files'[f] \in Seq(Text)
  /\ files[f] # Absent => /\ Len(files[f]) <= Len(files'[f])
                          /\ SubSeq(files'[f], 1, Len(files[f])) = files[f]
  /\ UNCHANGED <<text, name, clean, state>>

Rename(f) == letter' = "f" /\ name' = f /\ UNCHANGED <<text, files, clean, state>>

\* another file in place of the text, or nothing when it cannot be read
Visit(f) ==
  /\ (letter' = "e" /\ clean) \/ letter' = "E"
  /\ \/ text' = files[f] /\ files[f] # Absent /\ name' = f
     \/ text' = <<>> /\ name' = NoName
  /\ clean' = TRUE /\ UNCHANGED <<files, state>>

Close ==
  /\ (letter' = "q" /\ clean) \/ letter' = "Q"
  /\ state' = "closed" /\ UNCHANGED <<text, files, name, clean>>

\* the program breaks down; it may still write one file
Break ==
  /\ state' = "broken"
  /\ \/ files' = files
     \/ \E f \in FileName : /\ files' = [files EXCEPT ![f] = files'[f]]
                           /\ files'[f] \in Seq(Text)
  /\ UNCHANGED <<text, name, clean>>

Next ==
  /\ state = "open"
  /\ \/ Look \/ Edit \/ Close \/ Break
     \/ \E f \in FileName : Save(f) \/ Extend(f) \/ Rename(f) \/ Visit(f)

Spec == Init /\ [][Next]_vars

=============================================================================
