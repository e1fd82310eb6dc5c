------------------------------- MODULE EdBuffer -------------------------------
(***************************************************************************)
(* The Editor structure of src/ed/ed.h and the functions of src/ed/ed.c    *)
(* that change it.  An operator takes the structure and returns it as the   *)
(* function leaves it; the loops that shift arrays are written as the       *)
(* arrays they leave behind, phase by phase.                                *)
(*                                                                         *)
(* Addresses are 0-based here, as in the C functions; a sequence is indexed *)
(* from 1, so the line at address i is lines[i + 1].  Operators are defined *)
(* for the arguments on which the C function has a defined result: Editor   *)
(* checks that before it applies them.                                      *)
(***************************************************************************)
EXTENDS EdAddress, FiniteSets

CONSTANTS Text,          \* the texts a line may hold
          Concat(_),     \* the text that join makes of a sequence of texts
          Mark,          \* the names of marks
          FileName,      \* the names of files
          NoName,        \* filename == NULL
          MaxLines       \* lines for which there is memory

ASSUME MaxLinesAssumption == MaxLines \in Nat
ASSUME TextAssumption == IsFiniteSet(Text)
ASSUME ConcatAssumption ==
  \A n \in 1..MaxLines : \A s \in [1..n -> Text] : Concat(s) \in Text
ASSUME NoNameAssumption == NoName \notin FileName

EditorType ==
  [lines : Seq(Text), current_line : Int, dirty : BOOLEAN,
   filename : FileName \cup {NoName}, marks : [Mark -> Int],
   undo_lines : Seq(Text), undo_current_line : Int, undo_valid : BOOLEAN]

InitEditor ==
  [lines |-> <<>>, current_line |-> -1, dirty |-> FALSE, filename |-> NoName,
   marks |-> [m \in Mark |-> -1],
   undo_lines |-> <<>>, undo_current_line |-> 0, undo_valid |-> FALSE]

Width(r) == r.end - r.start + 1

-----------------------------------------------------------------------------
(* Undo snapshot and marks                                                  *)

PrepareUndoMutant1(ed) ==      \* the current line is not saved
  [ed EXCEPT !.undo_lines = ed.lines, !.undo_valid = TRUE]

PrepareUndoMutant2(ed) ==      \* a snapshot counts as a change
  [ed EXCEPT !.undo_lines = ed.lines, !.undo_current_line = ed.current_line,
             !.undo_valid = TRUE, !.dirty = TRUE]

PrepareUndo(ed) ==
  [ed EXCEPT !.undo_lines = ed.lines,
             !.undo_current_line = ed.current_line,
             !.undo_valid = TRUE]

MarksAfterDelete(marks, start, k) ==
  [m \in Mark |-> IF marks[m] < start THEN marks[m]
                  ELSE IF marks[m] < start + k THEN -1
                  ELSE marks[m] - k]

MarksAfterInsertMutant(marks, pos, k) ==   \* a mark at the position stays
  [m \in Mark |-> IF marks[m] >= 0 /\ marks[m] > pos THEN marks[m] + k ELSE marks[m]]

MarksAfterInsert(marks, pos, k) ==
  [m \in Mark |-> IF marks[m] >= 0 /\ marks[m] >= pos THEN marks[m] + k
                                                      ELSE marks[m]]

-----------------------------------------------------------------------------
(* Arrays of lines                                                          *)

\* text put in one line at a time, the first at address pos
Splice(lines, pos, text) ==
  [i \in 1..Len(lines) + Len(text) |->
     IF i <= pos THEN lines[i]
     ELSE IF i <= pos + Len(text) THEN text[i - pos]
     ELSE lines[i - Len(text)]]

\* the k lines from address start shifted out
Cut(lines, start, k) ==
  [i \in 1..Len(lines) - k |-> IF i <= start THEN lines[i] ELSE lines[i + k]]

-----------------------------------------------------------------------------
(* append_line, insert_line: text is what is typed before the "."           *)

AppendLine(ed, addr, text) ==
  LET n == Len(ed.lines)
      u == PrepareUndo(ed)
  IN  IF text # <<>>
        THEN [u EXCEPT !.lines = Splice(ed.lines, addr + 1, text),
                       !.current_line = addr + Len(text),
                       !.dirty = TRUE,
                       !.marks = MarksAfterInsert(ed.marks, addr + 1, Len(text))]
        ELSE [u EXCEPT !.current_line = IF addr + 1 < n THEN addr + 1
                                        ELSE IF n > 0 THEN addr ELSE @]

InsertLine(ed, addr, text) ==
  LET u == PrepareUndo(ed)
  IN  IF text # <<>>
        THEN [u EXCEPT !.lines = Splice(ed.lines, addr, text),
                       !.current_line = addr + Len(text) - 1,
                       !.dirty = TRUE,
                       !.marks = MarksAfterInsert(ed.marks, addr, Len(text))]
        ELSE [u EXCEPT !.current_line = addr]

(* read_file_at_address, once the file is open; content is its lines        *)
ReadFileAtAddressMutant(ed, addr, content) ==   \* what is read is taken as stored
  IF content # <<>> THEN [AppendLine(ed, addr, content) EXCEPT !.dirty = ed.dirty]
                    ELSE PrepareUndo(ed)

ReadFileAtAddress(ed, addr, content) ==
  IF content # <<>> THEN AppendLine(ed, addr, content) ELSE PrepareUndo(ed)

-----------------------------------------------------------------------------
(* delete_range, change_range                                               *)

DeleteRangeMutant(ed, r) ==    \* the current line may be the one after the last
  [PrepareUndo(ed) EXCEPT
     !.lines = Cut(ed.lines, r.start, Width(r)),
     !.current_line = r.start,
     !.dirty = TRUE,
     !.marks = MarksAfterDelete(ed.marks, r.start, Width(r))]

DeleteRange(ed, r) ==
  LET k == Width(r)
      n == Len(ed.lines) - k
  IN  [PrepareUndo(ed) EXCEPT
         !.lines = Cut(ed.lines, r.start, k),
         !.current_line = IF r.start < n THEN r.start ELSE n - 1,
         !.dirty = TRUE,
         !.marks = MarksAfterDelete(ed.marks, r.start, k)]

ChangeRange(ed, r, text) ==
  LET d == DeleteRange(PrepareUndo(ed), r)
      n == Len(d.lines)
  IN  InsertLine(d, IF r.start > n THEN n ELSE r.start, text)

-----------------------------------------------------------------------------
(* move_range: the lines saved aside, the source closed up, room made at the *)
(* destination, the lines put back, each in place and over the full array    *)

MoveLines(lines, r, dest) ==
  LET n == Len(lines)
      k == Width(r)
      adjusted == IF dest > r.end THEN dest - k ELSE dest
      closed == [i \in 1..n |-> IF i > r.start /\ i <= n - k
                                  THEN lines[i + k] ELSE lines[i]]
      opened == [i \in 1..n |-> IF i > adjusted + 1 + k
                                  THEN closed[i - k] ELSE closed[i]]
  IN  [i \in 1..n |-> IF i > adjusted + 1 /\ i <= adjusted + 1 + k
                        THEN lines[r.start + (i - adjusted - 1)]
                        ELSE opened[i]]

MarksAfterMove(marks, r, dest) ==
  LET k == Width(r)
      adjusted == IF dest > r.end THEN dest - k ELSE dest
      forward  == r.start < adjusted + 1
  IN  [m \in Mark |->
         LET x == marks[m]
         IN  IF x < 0 THEN x
             ELSE IF x \in r.start..r.end THEN adjusted + 1 + (x - r.start)
             ELSE IF forward /\ x > r.end /\ x <= dest THEN x - k
             ELSE IF ~forward /\ x >= adjusted + 1 /\ x < r.start THEN x + k
             ELSE x]

MoveRange(ed, r, dest) ==
  LET k == Width(r)
      adjusted == IF dest > r.end THEN dest - k ELSE dest
  IN  [PrepareUndo(ed) EXCEPT
         !.lines = MoveLines(ed.lines, r, dest),
         !.current_line = adjusted + k,
         !.dirty = TRUE,
         !.marks = MarksAfterMove(ed.marks, r, dest)]

-----------------------------------------------------------------------------
(* copy_range: room made after the destination, then the source copied line *)
(* by line from where it lies now.  CopyLines(lines, r, dest, c) is the      *)
(* array after c lines are copied; slots not yet written keep what they held *)
(* (nothing is known of those past the old end).  When the copy of the next  *)
(* line fails, the slot after these c holds NULL instead: see CopyFails.     *)

CopySlotsMutant(lines, r, dest, c) ==   \* lines after dest are read where they were
  LET k == Width(r)
      opened == [i \in 1..Len(lines) + k |-> IF i > dest + 1 + k THEN lines[i - k]
                                             ELSE IF i <= Len(lines) THEN lines[i] ELSE <<>>]
  IN  [i \in 1..Len(lines) + k |-> IF i > dest + 1 /\ i <= dest + 1 + c
                                     THEN opened[r.start + (i - dest - 2) + 1]
                                     ELSE opened[i]]

CopySlots(lines, r, dest, c) ==
  LET n == Len(lines)
      k == Width(r)
      opened == [i \in 1..n + k |-> IF i > dest + 1 + k THEN lines[i - k]
                                    ELSE IF i <= n THEN lines[i] ELSE <<>>]
      Source(i) == LET src == r.start + (i - dest - 2)
                   IN  IF src > dest THEN src + k ELSE src
  IN  [i \in 1..n + k |-> IF i > dest + 1 /\ i <= dest + 1 + c
                            THEN opened[Source(i) + 1]
                            ELSE opened[i]]

CopyRange(ed, r, dest) ==
  LET n == Len(ed.lines)
      k == Width(r)
  IN  [PrepareUndo(ed) EXCEPT
         !.lines = IF k > 0 THEN CopySlots(ed.lines, r, dest, k)
                            ELSE SubSeq(ed.lines, 1, n + k),
         !.current_line = dest + k,
         !.dirty = TRUE,
         !.marks = MarksAfterInsert(ed.marks, dest + 1, k)]

-----------------------------------------------------------------------------
(* join_range: the marks are left alone                                      *)

JoinRange(ed, r) ==
  LET u == PrepareUndo(ed)
      joined == Concat(SubSeq(ed.lines, r.start + 1, r.end + 1))
  IN  IF r.start = r.end
        THEN [u EXCEPT !.current_line = r.start]
        ELSE [u EXCEPT !.lines = [Cut(ed.lines, r.start + 1, r.end - r.start)
                                    EXCEPT ![r.start + 1] = joined],
                       !.current_line = r.start,
                       !.dirty = TRUE]

-----------------------------------------------------------------------------
(* substitute_range.  A substitution is what it does to one line: match is   *)
(* the set of the texts the pattern matches, once[t] the text bre_substitute *)
(* makes of t, global the g flag.                                            *)

Substitution == [match : SUBSET Text, once : [Text -> Text], global : BOOLEAN]

Rewrite(sub, t) == IF t \in sub.match THEN sub.once[t] ELSE t

\* the texts the g loop passes through when it starts from t
Reached(sub, t) ==
  {u \in Text : \A S \in SUBSET Text :
                  (t \in S /\ \A v \in S : Rewrite(sub, v) \in S) => u \in S}

\* the loop ends at a text that the pattern does not match or the
\* replacement does not change, and not at all when it reaches none
Final(sub, t) == {u \in Reached(sub, t) : Rewrite(sub, u) = u}

Diverges(sub, t) == sub.global /\ Final(sub, t) = {}

NewText(sub, t) == IF sub.global THEN CHOOSE u \in Final(sub, t) : TRUE
                                 ELSE Rewrite(sub, t)

Changes(sub, t) == IF sub.global THEN Rewrite(sub, t) # t ELSE t \in sub.match

SubstituteLines(lines, r, sub) ==
  [i \in 1..Len(lines) |-> IF i - 1 \in r.start..r.end
                             THEN NewText(sub, lines[i]) ELSE lines[i]]

AnyChanges(lines, r, sub) ==
  \E i \in r.start..r.end : Changes(sub, lines[i + 1])

SubstituteRange(ed, r, sub) ==
  IF AnyChanges(ed.lines, r, sub)
    THEN [PrepareUndo(ed) EXCEPT !.lines = SubstituteLines(ed.lines, r, sub),
                                 !.current_line = r.end,
                                 !.dirty = TRUE]
    ELSE PrepareUndo(ed)

-----------------------------------------------------------------------------
(* u, and load_file into the structure free_editor and init_editor left      *)

UndoMutant(ed) ==              \* the current line stays
  [ed EXCEPT !.lines = ed.undo_lines, !.undo_lines = <<>>,
             !.undo_current_line = 0, !.undo_valid = FALSE, !.dirty = TRUE]

Undo(ed) ==
  [ed EXCEPT !.lines = ed.undo_lines,
             !.current_line = ed.undo_current_line,
             !.undo_lines = <<>>,
             !.undo_current_line = 0,
             !.undo_valid = FALSE,
             !.dirty = TRUE]

LoadFile(ed, name, content) ==
  [ed EXCEPT !.lines = ed.lines \o content,
             !.current_line = Len(ed.lines) + Len(content) - 1,
             !.filename = name]

=============================================================================
