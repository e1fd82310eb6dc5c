---------------------------- MODULE EdBuffer_proofs ----------------------------
(***************************************************************************)
(* Every function of ed.c that changes the Editor structure leaves it       *)
(* consistent: its arrays are arrays of lines that fit the memory, and its   *)
(* current line, like the one saved for u, is in bounds.                     *)
(***************************************************************************)
EXTENDS EdBuffer, SequenceTheorems, TLAPS

-----------------------------------------------------------------------------
(* What the address parsers may return, whatever they are given.              *)

\* 0 or a line of the buffer, and a place between i and the end of the line typed
Sound(a, s, i, last) == a.line \in 0..last /\ a.rest \in i..Len(s) + 1

\* Only the tokens of the line have a kind of their own.
LEMMA KindInLine ==
  ASSUME NEW T, NEW s \in Seq(T), NEW i \in Nat, Kind(s, i) # "end"
  PROVE  i \in 1..Len(s)
BY DEF Kind

\* Every way parse_one_address ends is sound.
LEMMA EndsAreSound ==
  ASSUME NEW T, NEW s \in Seq(T), NEW i \in 1..Len(s) + 1, NEW last \in Nat
  PROVE  /\ Sound(NoAddress(i), s, i, last)
         /\ Sound(BadAddress(i), s, i, last)
         /\ \A n : \A rest \in i..Len(s) + 1 : Sound(Checked(n, last, i, rest), s, i, last)
BY DEF Sound, NoAddress, BadAddress, AddressOf, AddressAllowed, Checked

\* The signed number before a base is read to a place in the line.
LEMMA OffsetAtIsSound ==
  ASSUME NEW T, NEW s \in Seq(T), NEW i \in 1..Len(s) + 1
  PROVE  OffsetAt(s, i).rest \in i..Len(s) + 1
<1>1. \A k \in Nat : Kind(s, k) # "end" => k \in 1..Len(s)
  BY KindInLine
<1>2. QED
  BY <1>1 DEF OffsetAt

\* An address read from its offset on is sound.
LEMMA BaseAtIsSound ==
  ASSUME NEW T, NEW s \in Seq(T), NEW i \in 1..Len(s) + 1,
         NEW o, o.rest \in i..Len(s) + 1,
         NEW current, NEW last \in Nat, NEW marks
  PROVE  Sound(BaseAt(s, i, o, current, last, marks), s, i, last)
<1> DEFINE j == o.rest
<1>1. Kind(s, j) # "end" => j + 1 \in i..Len(s) + 1
  BY KindInLine
<1> HIDE DEF j
<1>2. j \in i..Len(s) + 1
  BY DEF j
<1>3. QED
  BY <1>1, <1>2, EndsAreSound DEF BaseAt, j

\* parse_one_address returns 0 or a line of the buffer, and its pointer neither
\* goes back nor passes the terminating NUL.
LEMMA ParseOneAddressIsSound ==
  ASSUME NEW T, NEW s \in Seq(T), NEW i \in 1..Len(s) + 1,
         NEW current, NEW last \in Nat, NEW marks
  PROVE  Sound(ParseOneAddress(s, i, current, last, marks), s, i, last)
BY EndsAreSound, OffsetAtIsSound, BaseAtIsSound DEF ParseOneAddress

\* What parse_ed_address returns when it returns an address.
SoundResult(p, s, last) ==
  /\ p.addr1 \in 0..last \cup {1}
  /\ p.addr2 \in 0..last
  /\ p.rest \in 1..Len(s) + 1

LEMMA SkipBlankIsSound ==
  ASSUME NEW T, NEW s \in Seq(T), NEW i \in 1..Len(s) + 1
  PROVE  SkipBlank(s, i) \in i..Len(s) + 1
<1>1. CASE Kind(s, i) = "blank"
  <2>1. i \in 1..Len(s)
    BY <1>1, KindInLine
  <2>2. QED
    BY <1>1, <2>1 DEF SkipBlank
<1>2. CASE Kind(s, i) # "blank"
  BY <1>2 DEF SkipBlank
<1>3. QED
  BY <1>1, <1>2

\* What follows a comma gives lines of the buffer, or the 1 put for a first address
\* that is missing, and the place of the command.
LEMMA SecondAddressIsSound ==
  ASSUME NEW T, NEW s \in Seq(T), NEW last \in Nat,
         NEW a1, a1.line \in 0..last,
         NEW a2, a2.line \in 0..last, a2.rest \in 1..Len(s) + 1,
         SecondAddress(s, a1, a2, last).ok
  PROVE  SoundResult(SecondAddress(s, a1, a2, last), s, last)
<1>1. a2.res # "error"
  BY DEF SecondAddress, SyntaxError
<1>2. SkipBlank(s, a2.rest) \in 1..Len(s) + 1
  BY SkipBlankIsSound
<1>3. QED
  BY <1>1, <1>2 DEF SecondAddress, SoundResult, Parsed

\* The same of one address, whether another follows it or not.
LEMMA FirstAddressIsSound ==
  ASSUME NEW T, NEW s \in Seq(T), NEW current, NEW last \in Nat, NEW marks,
         NEW a1, a1.line \in 0..last, a1.rest \in 1..Len(s) + 1,
         FirstAddress(s, a1, current, last, marks).ok
  PROVE  SoundResult(FirstAddress(s, a1, current, last, marks), s, last)
<1> DEFINE j  == SkipBlank(s, a1.rest)
           k  == SkipBlank(s, j + 1)
           a2 == ParseOneAddress(s, k, current, last, marks)
           p  == FirstAddress(s, a1, current, last, marks)
<1>1. j \in 1..Len(s) + 1
  BY SkipBlankIsSound
<1>2. a1.res # "error"
  BY DEF FirstAddress, SyntaxError
<1>3. CASE Kind(s, j) # ","
  <2>1. p = Parsed(a1.line, a1.line, FALSE, j)
    BY <1>2, <1>3 DEF FirstAddress
  <2> HIDE DEF j, p
  <2>2. QED
    BY <1>1, <2>1 DEF SoundResult, Parsed, p
<1>4. CASE Kind(s, j) = ","
  <2>1. j \in 1..Len(s)
    <3>1. Kind(s, j) # "end"
      BY <1>4
    <3>2. QED
      BY <1>1, <3>1, KindInLine
  <2>2. k \in 1..Len(s) + 1
    BY <2>1, SkipBlankIsSound
  <2>3. a2.line \in 0..last /\ a2.rest \in 1..Len(s) + 1
    BY <2>2, ParseOneAddressIsSound DEF Sound
  <2>4. p = SecondAddress(s, a1, a2, last)
    BY <1>2, <1>4 DEF FirstAddress
  <2> HIDE DEF a2
  <2>5. QED
    BY <2>3, <2>4, SecondAddressIsSound
<1>5. QED
  BY <1>3, <1>4

\* parse_ed_address returns lines of the buffer, or 0, or the 1 it puts for a first
\* address that is missing, and the place of the command in the line.
LEMMA ParseEdAddressIsSound ==
  ASSUME NEW T, NEW s \in Seq(T), NEW current, NEW last \in Nat, NEW marks,
         ParseEdAddress(s, current, last, marks).ok
  PROVE  SoundResult(ParseEdAddress(s, current, last, marks), s, last)
<1> DEFINE i  == SkipBlank(s, 1)
           a1 == ParseOneAddress(s, i, current, last, marks)
           p  == ParseEdAddress(s, current, last, marks)
<1>1. i \in 1..Len(s) + 1
  BY SkipBlankIsSound
<1>2. a1.line \in 0..last /\ a1.rest \in 1..Len(s) + 1
  BY <1>1, ParseOneAddressIsSound DEF Sound
<1>3. CASE Kind(s, i) \in {"end", "#"}
  <2>1. p = Parsed(0, 0, FALSE, i)
    BY <1>3 DEF ParseEdAddress
  <2> HIDE DEF i, p
  <2>2. QED
    BY <1>1, <2>1 DEF SoundResult, Parsed, p
<1>4. CASE Kind(s, i) \notin {"end", "#"}
  <2>1. p = FirstAddress(s, a1, current, last, marks)
    BY <1>4 DEF ParseEdAddress
  <2> HIDE DEF a1
  <2>2. QED
    BY <1>2, <2>1, FirstAddressIsSound
<1>5. QED
  BY <1>3, <1>4

\* The destination of m and t, and the address of =, is a line of the buffer
\* whatever the search found: parse_address checks it last.
LEMMA ParseAddressIsInBuffer ==
  ASSUME NEW T, NEW s \in Seq(T), s # <<>>, NEW U, NEW lines \in Seq(U),
         NEW current_line \in Int, NEW marks
  PROVE  ParseAddress(lines, current_line, marks, s)
           \in {NoLine, PastEndLine, current_line} \cup 0..Len(lines) - 1
<1> DEFINE i     == SkipBlank(s, 1)
           last  == Len(lines)
           one   == ParseOneAddress(s, i, Current1(current_line), last, marks)
           found == SearchPattern(lines, current_line, s[i].pat, Kind(s, i) = "/")
           from  == FromFound(s, i, found, last, marks)
<1>1. \A n : LineInBuffer(n, last) \in {NoLine} \cup 0..last - 1
  BY DEF LineInBuffer
<1>2. from \in {NoLine, PastEndLine} \cup 0..last - 1
  BY <1>1 DEF FromFound
<1> HIDE DEF i, last, one, found, from
<1>3. ParseAddress(lines, current_line, marks, s) =
        IF Kind(s, i) = "end" THEN current_line
        ELSE IF Kind(s, i) \in {"/", "?"} THEN from
        ELSE IF one.res = "line" THEN LineInBuffer(one.line, last) ELSE NoLine
  BY DEF ParseAddress, i, last, one, found, from
<1>4. QED
  BY <1>1, <1>2, <1>3 DEF last

-----------------------------------------------------------------------------
(* The structure.                                                             *)

\* a line of a buffer of n lines, the place after the last one, or -1 for none
InBounds(c, n) == c \in (IF n = 0 THEN -1 ELSE 0)..n

\* a consistent structure
Good(e) ==
  /\ e \in EditorType
  /\ Len(e.lines) <= MaxLines
  /\ Len(e.undo_lines) <= MaxLines
  /\ InBounds(e.current_line, Len(e.lines))
  /\ e.undo_valid => InBounds(e.undo_current_line, Len(e.undo_lines))

\* Text put in at a place of the buffer gives a buffer longer by the text (append_line).
LEMMA SpliceIsSeq ==
  ASSUME NEW lines \in Seq(Text), NEW text \in Seq(Text), NEW pos \in 0..Len(lines)
  PROVE  /\ Splice(lines, pos, text) \in Seq(Text)
         /\ Len(Splice(lines, pos, text)) = Len(lines) + Len(text)
<1>1. \A i \in 1..Len(lines) + Len(text) :
   (IF i <= pos THEN lines[i]
     ELSE IF i <= pos + Len(text) THEN text[i - pos]
     ELSE lines[i - Len(text)]) \in Text
  OBVIOUS
<1>2. QED
  BY <1>1 DEF Splice

\* what prepare_undo and a change make of e
After(e, lines, cur, dirty, marks) ==
  [lines |-> lines, current_line |-> cur, dirty |-> dirty, filename |-> e.filename,
   marks |-> marks, undo_lines |-> e.lines, undo_current_line |-> e.current_line,
   undo_valid |-> TRUE]

\* A buffer with its own new current line, and the snapshot of a consistent structure,
\* is consistent.
LEMMA AfterIsGood ==
  ASSUME NEW e, Good(e), NEW lines \in Seq(Text), Len(lines) <= MaxLines,
         NEW cur, InBounds(cur, Len(lines)), NEW d \in BOOLEAN, NEW marks \in [Mark -> Int]
  PROVE  Good(After(e, lines, cur, d, marks))
BY DEF After, Good, InBounds, EditorType

\* Moved marks are still marks.
LEMMA MarksAreInts ==
  ASSUME NEW marks \in [Mark -> Int], NEW a \in Int, NEW k \in Int
  PROVE  /\ MarksAfterInsert(marks, a, k) \in [Mark -> Int]
         /\ MarksAfterDelete(marks, a, k) \in [Mark -> Int]
BY DEF MarksAfterInsert, MarksAfterDelete

\* append_line, at a line of the buffer, at its end or (with no text) past it.
LEMMA AppendLineIsGood ==
  ASSUME NEW e, Good(e), NEW addr \in 0..Len(e.lines) \cup {-1}, NEW text \in Seq(Text),
         Len(e.lines) + Len(text) <= MaxLines, text # <<>> => addr + 1 <= Len(e.lines)
  PROVE  Good(AppendLine(e, addr, text))
<1>0. e.lines \in Seq(Text) /\ e.marks \in [Mark -> Int] /\ e \in EditorType /\ e.dirty \in BOOLEAN
  BY DEF Good, EditorType
<1>2. CASE text # <<>>
  <2> DEFINE lines == Splice(e.lines, addr + 1, text)
             marks == MarksAfterInsert(e.marks, addr + 1, Len(text))
  <2>1. Len(text) \in Nat \ {0} /\ Len(e.lines) \in Nat
    BY <1>0, <1>2
  <2>2. AppendLine(e, addr, text) = After(e, lines, addr + Len(text), TRUE, marks)
    BY <1>2, <1>0 DEF AppendLine, After, PrepareUndo, EditorType
  <2>3. InBounds(addr + Len(text), Len(e.lines) + Len(text))
    BY <2>1, <1>2 DEF InBounds
  <2>4. lines \in Seq(Text) /\ Len(lines) = Len(e.lines) + Len(text)
    <3>1. addr + 1 \in 0..Len(e.lines)
      BY <1>2, <2>1
    <3>2. QED BY <3>1, <1>0, SpliceIsSeq
  <2>5. marks \in [Mark -> Int]
    BY <1>0, <2>1, MarksAreInts
  <2> HIDE DEF lines, marks
  <2>6. QED
    BY <1>0, <2>2, <2>3, <2>4, <2>5, AfterIsGood
<1>3. CASE text = <<>>
  <2> DEFINE cur == IF addr + 1 < Len(e.lines) THEN addr + 1 ELSE IF Len(e.lines) > 0 THEN addr ELSE e.current_line
  <2>1. AppendLine(e, addr, text) = After(e, e.lines, cur, e.dirty, e.marks)
    BY <1>3, <1>0 DEF AppendLine, After, PrepareUndo, EditorType
  <2>2. InBounds(cur, Len(e.lines)) /\ Len(e.lines) <= MaxLines
    BY <1>0 DEF InBounds, Good
  <2> HIDE DEF cur
  <2>3. QED
    BY <1>0, <2>1, <2>2, AfterIsGood
<1>4. QED
  BY <1>2, <1>3

\* The fields of a consistent structure that the operations read.
LEMMA FieldsOf ==
  ASSUME NEW e, Good(e)
  PROVE  /\ e \in EditorType /\ e.lines \in Seq(Text) /\ Len(e.lines) \in 0..MaxLines
         /\ e.marks \in [Mark -> Int] /\ e.dirty \in BOOLEAN
         /\ InBounds(e.current_line, Len(e.lines))
BY MaxLinesAssumption DEF Good, EditorType

\* insert_line, which may leave the current line just after the last line.
LEMMA InsertLineIsGood ==
  ASSUME NEW e, Good(e), NEW addr \in 0..Len(e.lines), NEW text \in Seq(Text),
         Len(e.lines) + Len(text) <= MaxLines
  PROVE  Good(InsertLine(e, addr, text))
<1>0. e.lines \in Seq(Text) /\ e.marks \in [Mark -> Int] /\ e \in EditorType /\ e.dirty \in BOOLEAN
      /\ Len(e.lines) <= MaxLines
  BY FieldsOf
<1>2. CASE text # <<>>
  <2> DEFINE lines == Splice(e.lines, addr, text)
             marks == MarksAfterInsert(e.marks, addr, Len(text))
  <2>1. Len(text) \in Nat \ {0} /\ Len(e.lines) \in Nat
    BY <1>0, <1>2
  <2>2. InsertLine(e, addr, text) = After(e, lines, addr + Len(text) - 1, TRUE, marks)
    BY <1>2, <1>0 DEF InsertLine, After, PrepareUndo, EditorType
  <2>3. InBounds(addr + Len(text) - 1, Len(e.lines) + Len(text))
    BY <2>1, <1>2 DEF InBounds
  <2>4. lines \in Seq(Text) /\ Len(lines) = Len(e.lines) + Len(text)
    BY <1>0, SpliceIsSeq
  <2>5. marks \in [Mark -> Int]
    BY <1>0, <2>1, MarksAreInts
  <2> HIDE DEF lines, marks
  <2>6. QED
    BY <1>0, <2>2, <2>3, <2>4, <2>5, AfterIsGood
<1>3. CASE text = <<>>
  <2>1. InsertLine(e, addr, text) = After(e, e.lines, addr, e.dirty, e.marks)
    BY <1>3, <1>0 DEF InsertLine, After, PrepareUndo, EditorType
  <2>2. InBounds(addr, Len(e.lines))
    BY <1>0 DEF InBounds
  <2>3. QED
    BY <1>0, <2>1, <2>2, AfterIsGood
<1>4. QED
  BY <1>2, <1>3

\* Lines taken out of a buffer leave a buffer (delete_range).
LEMMA CutIsSeq ==
  ASSUME NEW lines \in Seq(Text), NEW start \in Nat, NEW k \in 0..Len(lines)
  PROVE  /\ Cut(lines, start, k) \in Seq(Text)
         /\ Len(Cut(lines, start, k)) = Len(lines) - k
BY DEF Cut

\* delete_range, of a range whose ends are in order or that is empty.
LEMMA DeleteRangeIsGood ==
  ASSUME NEW e, Good(e), NEW r, InBuffer(r, Len(e.lines)), Width(r) >= 0
  PROVE  /\ Good(DeleteRange(e, r))
         /\ Len(DeleteRange(e, r).lines) = Len(e.lines) - Width(r)
         /\ r.start <= Len(e.lines) - Width(r)
<1> DEFINE k == Width(r)
           n == Len(e.lines) - k
           lines == Cut(e.lines, r.start, k)
           cur == IF r.start < n THEN r.start ELSE n - 1
           marks == MarksAfterDelete(e.marks, r.start, k)
<1>0. e.lines \in Seq(Text) /\ e.marks \in [Mark -> Int] /\ e \in EditorType /\ e.dirty \in BOOLEAN
      /\ Len(e.lines) <= MaxLines /\ MaxLines \in Nat
  BY FieldsOf, MaxLinesAssumption
<1>1. r.start \in Nat /\ k \in 0..Len(e.lines) /\ n \in Nat /\ r.start <= n /\ n <= MaxLines
  BY <1>0 DEF InBuffer, Width
<1>2. lines \in Seq(Text) /\ Len(lines) = n
  BY <1>0, <1>1, CutIsSeq
<1>3. InBounds(cur, n)
  BY <1>1 DEF InBounds
<1>4. marks \in [Mark -> Int]
  BY <1>0, <1>1, MarksAreInts
<1>5. DeleteRange(e, r) = After(e, lines, cur, TRUE, marks)
  <2>1. DeleteRange(e, r) = [PrepareUndo(e) EXCEPT !.lines = lines, !.current_line = cur,
                                                   !.dirty = TRUE, !.marks = marks]
    BY DEF DeleteRange
  <2> HIDE DEF k, n, lines, cur, marks
  <2>2. QED
    BY <1>0, <2>1 DEF After, PrepareUndo, EditorType
<1>6. DeleteRange(e, r).lines = lines
  BY <1>5 DEF After
<1> HIDE DEF k, n, lines, cur, marks
<1>7. Good(DeleteRange(e, r))
  BY <1>0, <1>1, <1>2, <1>3, <1>4, <1>5, AfterIsGood
<1>8. QED
  BY <1>1, <1>2, <1>6, <1>7 DEF k, n

\* prepare_undo.
LEMMA PrepareUndoIsGood ==
  ASSUME NEW e, Good(e)
  PROVE  Good(PrepareUndo(e)) /\ PrepareUndo(e).lines = e.lines
BY DEF Good, PrepareUndo, EditorType, InBounds

\* change_range, of a range whose ends are in order or that is empty.
LEMMA ChangeRangeIsGood ==
  ASSUME NEW e, Good(e), NEW r, InBuffer(r, Len(e.lines)), Width(r) >= 0, NEW text \in Seq(Text),
         Len(DeleteRange(e, r).lines) + Len(text) <= MaxLines
  PROVE  Good(ChangeRange(e, r, text))
<1> DEFINE d == DeleteRange(PrepareUndo(e), r)
<1>1. Good(PrepareUndo(e)) /\ PrepareUndo(e).lines = e.lines
  BY PrepareUndoIsGood
<1>2. Good(d) /\ Len(d.lines) = Len(e.lines) - Width(r) /\ r.start <= Len(d.lines)
  BY <1>1, DeleteRangeIsGood
<1>3. Len(DeleteRange(e, r).lines) = Len(e.lines) - Width(r)
  BY DeleteRangeIsGood
<1>4. r.start \in 0..Len(d.lines) 
  BY <1>2, FieldsOf DEF InBuffer
<1>5. ChangeRange(e, r, text) = InsertLine(d, r.start, text)
  <2> HIDE DEF d
  <2>1. ~(r.start > Len(d.lines))
    BY <1>4, <1>2, FieldsOf
  <2>2. QED 
    BY <2>1 DEF ChangeRange, d
<1> HIDE DEF d
<1>6. QED
  BY <1>2, <1>3, <1>4, <1>5, InsertLineIsGood

\* The three loops of move_range read and write lines of the buffer only.
LEMMA MoveLinesIsSeq ==
  ASSUME NEW lines \in Seq(Text), NEW r, InBuffer(r, Len(lines)), Width(r) >= 0,
         NEW dest \in 0..Len(lines)-1
  PROVE  MoveLines(lines, r, dest) \in Seq(Text) /\ Len(MoveLines(lines, r, dest)) = Len(lines)
<1> DEFINE n == Len(lines)
           k == Width(r)
           adjusted == IF dest > r.end THEN dest - k ELSE dest
           closed == [i \in 1..n |-> IF i > r.start /\ i <= n - k
                                  THEN lines[i + k] ELSE lines[i]]
           opened == [i \in 1..n |-> IF i > adjusted + 1 + k
                                  THEN closed[i - k] ELSE closed[i]]
           moved == [i \in 1..n |-> IF i > adjusted + 1 /\ i <= adjusted + 1 + k
                        THEN lines[r.start + (i - adjusted - 1)]
                        ELSE opened[i]]
<1>0. n \in Nat /\ lines \in [1..n -> Text]
  OBVIOUS
<1>1. r.start \in 0..n-1 /\ r.end \in 0..n-1 /\ k \in 0..n /\ k = r.end - r.start + 1
  BY DEF InBuffer, Width
<1>2. adjusted \in Int /\ adjusted >= -1
  BY <1>1
<1> HIDE DEF k, adjusted, n
<1>3. closed \in [1..n -> Text]
  BY <1>0, <1>1
<1> HIDE DEF closed
<1>4. opened \in [1..n -> Text]
  BY <1>0, <1>1, <1>2, <1>3
<1> HIDE DEF opened
<1>5. moved \in [1..n -> Text]
  BY <1>0, <1>1, <1>2, <1>4, SMTT(40)
<1>6. MoveLines(lines, r, dest) = moved
  BY DEF MoveLines, moved, opened, closed, adjusted, n, k
<1>7. QED
  BY <1>0, <1>5, <1>6 DEF n

\* move_range, to a line outside the range.
LEMMA MoveRangeIsGood ==
  ASSUME NEW e, Good(e), NEW r, InBuffer(r, Len(e.lines)), Width(r) >= 0,
         NEW dest \in 0..Len(e.lines)-1, dest \notin r.start..r.end
  PROVE  Good(MoveRange(e, r, dest))
<1> DEFINE k == Width(r)
           adjusted == IF dest > r.end THEN dest - k ELSE dest
           lines == MoveLines(e.lines, r, dest)
           marks == MarksAfterMove(e.marks, r, dest)
<1>0. e.lines \in Seq(Text) /\ e.marks \in [Mark -> Int] /\ e \in EditorType /\ e.dirty \in BOOLEAN
      /\ Len(e.lines) <= MaxLines /\ Len(e.lines) \in Nat
  BY FieldsOf, MaxLinesAssumption
<1>1. r.start \in 0..Len(e.lines)-1 /\ r.end \in 0..Len(e.lines)-1
      /\ k \in 0..Len(e.lines) /\ k = r.end - r.start + 1
  BY <1>0 DEF InBuffer, Width
<1>2. lines \in Seq(Text) /\ Len(lines) = Len(e.lines)
  BY <1>0, MoveLinesIsSeq
<1>3. adjusted + k \in 0..Len(e.lines) - 1 /\ adjusted \in Int
  <2> HIDE DEF k
  <2>1. CASE dest > r.end
    BY <1>0, <1>1, <2>1
  <2>2. CASE dest < r.start /\ ~(dest > r.end)
    BY <1>0, <1>1, <2>2, SMTT(40)
  <2>3. CASE dest >= r.start /\ dest <= r.end
    BY <1>1, <2>3
  <2>4. QED
    BY <1>1, <2>1, <2>2, <2>3
<1>4. InBounds(adjusted + k, Len(lines))
  <2> HIDE DEF adjusted, k
  <2>1. QED BY <1>0, <1>2, <1>3 DEF InBounds
<1>5. marks \in [Mark -> Int]
  <2>1. \A m \in Mark : e.marks[m] \in Int
    BY <1>0
  <2>2. QED
    BY <2>1, <1>1, SMTT(40) DEF MarksAfterMove
<1>6. MoveRange(e, r, dest) = [PrepareUndo(e) EXCEPT !.lines = lines, !.current_line = adjusted + k,
                                                   !.dirty = TRUE, !.marks = marks]
  BY DEF MoveRange
<1> HIDE DEF k, adjusted, lines, marks
<1>7. MoveRange(e, r, dest) = After(e, lines, adjusted + k, TRUE, marks)
  BY <1>0, <1>6 DEF After, PrepareUndo, EditorType
<1>8. QED
  BY <1>0, <1>2, <1>4, <1>5, <1>7, AfterIsGood

\* The loop of copy_range reads lines of the buffer only, where they lie once room is
\* made, and with every line copied no slot is left without one.
LEMMA CopySlotsAreText ==
  ASSUME NEW lines \in Seq(Text), NEW r, InBuffer(r, Len(lines)), Width(r) > 0,
         NEW dest \in 0..Len(lines)-1, NEW copied \in 0..Width(r)
  PROVE  /\ CopySlots(lines, r, dest, copied) =
              [i \in 1..Len(lines) + Width(r) |-> CopySlots(lines, r, dest, copied)[i]]
         /\ \A i \in 1..Len(lines) + Width(r) :
              (i <= Len(lines) \/ copied = Width(r)) =>
                CopySlots(lines, r, dest, copied)[i] \in Text
<1> DEFINE n == Len(lines)
           k == Width(r)
           opened == [i \in 1..n + k |-> IF i > dest + 1 + k THEN lines[i - k]
                                    ELSE IF i <= n THEN lines[i] ELSE <<>>]
           Source(i) == LET src == r.start + (i - dest - 2)
                        IN  IF src > dest THEN src + k ELSE src
           slots == [i \in 1..n + k |-> IF i > dest + 1 /\ i <= dest + 1 + copied
                            THEN opened[Source(i) + 1]
                            ELSE opened[i]]
<1>0. n \in Nat /\ lines \in [1..n -> Text] /\ dest \in 0..n-1
  OBVIOUS
<1>1. /\ r.start \in 0..n-1 /\ r.end \in 0..n-1 /\ k \in 1..n /\ k = r.end - r.start + 1
      /\ copied \in 0..k
  BY DEF InBuffer, Width
<1> HIDE DEF k, n
<1>2. \A i \in 1..n + k : (i <= n \/ i < dest + 2 \/ i > dest + 1 + k) => opened[i] \in Text
  <2> SUFFICES ASSUME NEW i \in 1..n + k, i <= n \/ i > dest + 1 + k
               PROVE  opened[i] \in Text
    BY <1>0, <1>1
  <2>1. CASE i > dest + 1 + k
    BY <1>0, <1>1, <2>1, SMTT(40)
  <2>2. CASE i <= n
    <3>1. lines[i] \in Text
      BY <1>0, <2>2
    <3>2. QED
      BY <1>0, <1>1, <2>1, <2>2, <3>1
  <2>3. QED
    BY <2>1, <2>2
<1>3. \A i \in 1..n + k : (i > dest + 1 /\ i <= dest + 1 + copied) =>
        /\ Source(i) + 1 \in 1..n + k
        /\ Source(i) + 1 < dest + 2 \/ Source(i) + 1 > dest + 1 + k
  <2> SUFFICES ASSUME NEW i \in 1..n + k, i > dest + 1, i <= dest + 1 + copied
               PROVE  /\ Source(i) + 1 \in 1..n + k
                      /\ Source(i) + 1 < dest + 2 \/ Source(i) + 1 > dest + 1 + k
    OBVIOUS
  <2> DEFINE src == r.start + (i - dest - 2)
  <2>1. src \in 0..n - 1
    BY <1>0, <1>1, SMTT(40)
  <2>2. Source(i) + 1 = IF src > dest THEN src + k + 1 ELSE src + 1
    <3>1. Source(i) = IF src > dest THEN src + k ELSE src
      OBVIOUS
    <3> HIDE DEF src, Source
    <3>2. QED
      BY <1>0, <1>1, <2>1, <3>1
  <2> DEFINE place == Source(i) + 1
  <2> HIDE DEF src, place
  <2>3. place = IF src > dest THEN src + k + 1 ELSE src + 1
    BY <2>2 DEF place
  <2>4. place \in 1..n + k /\ (place < dest + 2 \/ place > dest + 1 + k)
    BY <1>0, <1>1, <2>1, <2>3, SMTT(40)
  <2>5. QED
    BY <2>4 DEF place
<1> HIDE DEF opened, Source
<1>4. \A i \in 1..n + k : (i <= n \/ copied = k) => slots[i] \in Text
  <2> SUFFICES ASSUME NEW i \in 1..n + k, i <= n \/ copied = k
               PROVE  slots[i] \in Text
    OBVIOUS
  <2>1. CASE i > dest + 1 /\ i <= dest + 1 + copied
    BY <1>2, <1>3, <2>1
  <2>2. CASE ~(i > dest + 1 /\ i <= dest + 1 + copied)
    <3>1. i <= n \/ i < dest + 2 \/ i > dest + 1 + k
      BY <1>0, <1>1, <2>2
    <3>2. QED
      BY <1>2, <2>2, <3>1
  <2>3. QED
    BY <2>1, <2>2
<1>5. CopySlots(lines, r, dest, copied) = slots
  BY DEF CopySlots, slots, opened, Source, n, k
<1>6. slots = [i \in 1..n + k |-> slots[i]]
  OBVIOUS
<1> HIDE DEF slots
<1>7. QED
  BY <1>4, <1>5, <1>6 DEF n, k

\* What copy_range makes is a buffer, longer by the range.
LEMMA CopySlotsIsSeq ==
  ASSUME NEW lines \in Seq(Text), NEW r, InBuffer(r, Len(lines)), Width(r) > 0,
         NEW dest \in 0..Len(lines)-1
  PROVE  /\ CopySlots(lines, r, dest, Width(r)) \in Seq(Text)
         /\ Len(CopySlots(lines, r, dest, Width(r))) = Len(lines) + Width(r)
<1> DEFINE k == Width(r)
           slots == CopySlots(lines, r, dest, k)
<1>1. k \in Nat /\ Len(lines) + k \in Nat
  BY DEF InBuffer, Width
<1>2. slots = [i \in 1..Len(lines) + k |-> slots[i]] /\ \A i \in 1..Len(lines) + k : slots[i] \in Text
  BY <1>1, CopySlotsAreText
<1> HIDE DEF k, slots
<1>3. slots \in [1..Len(lines) + k -> Text]
  BY <1>2
<1>4. slots \in Seq(Text) /\ Len(slots) = Len(lines) + k
  BY <1>1, <1>3
<1>5. QED
  BY <1>4 DEF k, slots

\* copy_range, also of a range of negative width when the destination is the last line.
LEMMA CopyRangeIsGood ==
  ASSUME NEW e, Good(e), NEW r, InBuffer(r, Len(e.lines)), NEW dest \in 0..Len(e.lines)-1,
         Width(r) >= 0 \/ dest = Len(e.lines) - 1, Len(e.lines) + Width(r) <= MaxLines
  PROVE  Good(CopyRange(e, r, dest))
<1> DEFINE k == Width(r)
           n == Len(e.lines)
           lines == IF k > 0 THEN CopySlots(e.lines, r, dest, k) ELSE SubSeq(e.lines, 1, n + k)
           marks == MarksAfterInsert(e.marks, dest + 1, k)
<1>0. e.lines \in Seq(Text) /\ e.marks \in [Mark -> Int] /\ e \in EditorType /\ e.dirty \in BOOLEAN
      /\ n <= MaxLines /\ n \in Nat
  BY FieldsOf, MaxLinesAssumption
<1>1. /\ k \in Int /\ n + k \in Nat /\ n + k >= 1 /\ k <= n
      /\ k >= 0 \/ dest = n - 1
  BY <1>0 DEF InBuffer, Width
<1>2. lines \in Seq(Text) /\ Len(lines) = n + k
  <2>1. CASE k > 0
    BY <1>0, <2>1, CopySlotsIsSeq
  <2>2. CASE ~(k > 0)
    <3>1. \A i \in 1..n + k : e.lines[i] \in Text
      <4> HIDE DEF k
      <4>1. QED BY <1>0, <1>1, <2>2
    <3>2. SubSeq(e.lines, 1, n + k) \in Seq(Text) /\ Len(SubSeq(e.lines, 1, n + k)) = n + k
      <4> HIDE DEF k, n
      <4>1. QED BY <1>1, <3>1, SubSeqProperties
    <3>3. QED
      BY <2>2, <3>2
  <2>3. QED
    BY <1>1, <2>1, <2>2
<1>3. InBounds(dest + k, n + k)
  <2> HIDE DEF k
  <2>1. QED BY <1>0, <1>1 DEF InBounds
<1>4. marks \in [Mark -> Int]
  <2> HIDE DEF k
  <2>1. QED BY <1>0, <1>1, MarksAreInts
<1>5. CopyRange(e, r, dest) = [PrepareUndo(e) EXCEPT !.lines = lines, !.current_line = dest + k,
                                                   !.dirty = TRUE, !.marks = marks]
  BY DEF CopyRange
<1> HIDE DEF k, lines, marks
<1>6. CopyRange(e, r, dest) = After(e, lines, dest + k, TRUE, marks)
  BY <1>0, <1>5 DEF After, PrepareUndo, EditorType
<1>7. QED
  BY <1>0, <1>2, <1>3, <1>4, <1>6, AfterIsGood DEF k

\* join_range, of a range whose ends are in order.
LEMMA JoinRangeIsGood ==
  ASSUME NEW e, Good(e), NEW r, InBuffer(r, Len(e.lines)), Width(r) >= 1
  PROVE  Good(JoinRange(e, r))
<1> DEFINE k == r.end - r.start
           n == Len(e.lines)
           cut == Cut(e.lines, r.start + 1, k)
           part == SubSeq(e.lines, r.start + 1, r.end + 1)
           lines == [cut EXCEPT ![r.start + 1] = Concat(part)]
<1>0. e.lines \in Seq(Text) /\ e.marks \in [Mark -> Int] /\ e \in EditorType /\ e.dirty \in BOOLEAN
      /\ n <= MaxLines /\ n \in Nat /\ MaxLines \in Nat
  BY FieldsOf, MaxLinesAssumption
<1>1. r.start \in 0..n-1 /\ r.end \in r.start..n-1 /\ k \in 0..n-1
  BY <1>0 DEF InBuffer, Width
<1>2. InBounds(r.start, n) /\ InBounds(r.start, n - k)
  BY <1>0, <1>1 DEF InBounds
<1>3. CASE r.start = r.end
  <2>1. JoinRange(e, r) = After(e, e.lines, r.start, e.dirty, e.marks)
    BY <1>0, <1>3 DEF JoinRange, After, PrepareUndo, EditorType
  <2>2. QED
    BY <1>0, <1>2, <2>1, AfterIsGood
<1>4. CASE r.start # r.end
  <2>1. cut \in Seq(Text) /\ Len(cut) = n - k
    <3> HIDE DEF k
    <3>1. r.start + 1 \in Nat /\ k \in 0..Len(e.lines)
      BY <1>0, <1>1
    <3>2. QED
      BY <1>0, <3>1, CutIsSeq
  <2>2. part \in Seq(Text) /\ Len(part) = k + 1
    <3>1. \A i \in r.start + 1..r.end + 1 : e.lines[i] \in Text
      BY <1>0, <1>1
    <3> DEFINE a == r.start + 1
               b == r.end + 1
    <3>2. a \in Int /\ b \in Int /\ a <= b /\ b - a + 1 = k + 1
      BY <1>1
    <3> HIDE DEF a, b, k
    <3>3. QED
      BY <3>1, <3>2, SubSeqProperties DEF a, b
  <2>3. Concat(part) \in Text
    <3>1. part \in [1..k + 1 -> Text] /\ k + 1 \in 1..MaxLines
      <4> HIDE DEF part, k
      <4>1. QED BY <1>0, <1>1, <2>2, LenProperties
    <3>2. QED
      BY <3>1, ConcatAssumption
  <2>4. lines \in Seq(Text) /\ Len(lines) = n - k
    <3>1. r.start + 1 \in 1..Len(cut)
      <4> HIDE DEF cut
      <4>1. QED BY <1>0, <1>1, <2>1
    <3>2. QED
      <4> HIDE DEF cut, part
      <4>1. QED BY <2>1, <2>3, <3>1, ExceptSeq
  <2>5. JoinRange(e, r) = [PrepareUndo(e) EXCEPT !.lines = lines, !.current_line = r.start, !.dirty = TRUE]
    BY <1>4 DEF JoinRange
  <2> HIDE DEF lines, cut, part
  <2>6. JoinRange(e, r) = After(e, lines, r.start, TRUE, e.marks)
    BY <1>0, <2>5 DEF After, PrepareUndo, EditorType
  <2>7. n - k <= MaxLines
    BY <1>0, <1>1
  <2>8. QED
    BY <1>0, <1>2, <2>4, <2>6, <2>7, AfterIsGood
<1>5. QED
  BY <1>3, <1>4

\* A substitution that comes to an end gives a line.
LEMMA NewTextIsText ==
  ASSUME NEW sub \in Substitution, NEW t \in Text, ~Diverges(sub, t)
  PROVE  NewText(sub, t) \in Text
<1>1. Rewrite(sub, t) \in Text
  BY DEF Rewrite, Substitution
<1>2. CASE sub.global
  <2>1. Final(sub, t) # {} /\ Final(sub, t) \subseteq Text
    BY <1>2 DEF Diverges, Final, Reached
  <2>2. (CHOOSE u \in Final(sub, t) : TRUE) \in Final(sub, t)
    BY <2>1
  <2>3. QED
    BY <1>2, <2>1, <2>2 DEF NewText
<1>3. QED
  BY <1>1, <1>2 DEF NewText

\* substitute_range, of a range in any order.
LEMMA SubstituteRangeIsGood ==
  ASSUME NEW e, Good(e), NEW r, InBuffer(r, Len(e.lines)), NEW sub \in Substitution,
         \A i \in r.start..r.end : ~Diverges(sub, e.lines[i + 1])
  PROVE  Good(SubstituteRange(e, r, sub))
<1> DEFINE lines == SubstituteLines(e.lines, r, sub)
<1>0. e.lines \in Seq(Text) /\ e.marks \in [Mark -> Int] /\ e \in EditorType /\ e.dirty \in BOOLEAN
      /\ Len(e.lines) <= MaxLines /\ Len(e.lines) \in Nat
  BY FieldsOf
<1>1. r.start \in Int /\ r.end \in 0..Len(e.lines)-1
  BY DEF InBuffer
<1>2. lines \in Seq(Text) /\ Len(lines) = Len(e.lines)
  <2>1. \A i \in 1..Len(e.lines) :
          (IF i - 1 \in r.start..r.end THEN NewText(sub, e.lines[i]) ELSE e.lines[i]) \in Text
    <3> SUFFICES ASSUME NEW i \in 1..Len(e.lines), i - 1 \in r.start..r.end
                 PROVE  NewText(sub, e.lines[i]) \in Text
      BY <1>0
    <3>1. ~Diverges(sub, e.lines[(i - 1) + 1]) /\ (i - 1) + 1 = i
      BY <1>0
    <3>2. e.lines[i] \in Text
      BY <1>0
    <3>3. QED
      BY <3>1, <3>2, NewTextIsText
  <2>2. QED
    BY <1>0, <2>1 DEF SubstituteLines
<1>3. InBounds(r.end, Len(e.lines))
  BY <1>0, <1>1 DEF InBounds
<1>4. CASE AnyChanges(e.lines, r, sub)
  <2> HIDE DEF lines
  <2>1. SubstituteRange(e, r, sub) = After(e, lines, r.end, TRUE, e.marks)
    BY <1>0, <1>4 DEF SubstituteRange, After, PrepareUndo, EditorType, lines
  <2>2. QED
    BY <1>0, <1>2, <1>3, <2>1, AfterIsGood
<1>5. CASE ~AnyChanges(e.lines, r, sub)
  BY <1>5, PrepareUndoIsGood DEF SubstituteRange
<1>6. QED
  BY <1>4, <1>5

\* u with a valid snapshot.
LEMMA UndoIsGood ==
  ASSUME NEW e, Good(e), e.undo_valid
  PROVE  Good(Undo(e))
<1>1. e \in EditorType
  BY DEF Good
<1>2. Undo(e) \in EditorType
  \* the provers take constants of the right type better than values
  <2> DEFINE none == <<>>
             zero == 0
             x == [e EXCEPT !.lines = e.undo_lines, !.current_line = e.undo_current_line,
                            !.undo_lines = none]
             y == [x EXCEPT !.undo_current_line = zero, !.undo_valid = FALSE, !.dirty = TRUE]
  <2>1. none \in Seq(Text) /\ zero \in Int
    OBVIOUS
  <2>2. Undo(e) = y
    BY DEF Undo
  <2> HIDE DEF none, zero
  <2>3. x \in EditorType
    BY <1>1, <2>1 DEF EditorType
  <2> HIDE DEF x
  <2>4. y \in EditorType
    BY <2>1, <2>3 DEF EditorType
  <2>5. QED
    BY <2>2, <2>4
<1>3. /\ Undo(e).lines = e.undo_lines /\ Undo(e).current_line = e.undo_current_line
      /\ Undo(e).undo_lines = <<>> /\ Undo(e).undo_valid = FALSE
  BY <1>1 DEF Undo, EditorType
<1>4. Len(<<>>) = 0
  OBVIOUS
<1>5. QED
  BY <1>2, <1>3, <1>4, MaxLinesAssumption DEF Good

\* init_editor.
LEMMA InitEditorIsGood == Good(InitEditor)
BY MaxLinesAssumption DEF InitEditor, Good, EditorType, InBounds

\* load_file into a new structure.
LEMMA LoadFileIsGood ==
  ASSUME NEW name \in FileName, NEW content \in Seq(Text), Len(content) <= MaxLines
  PROVE  Good(LoadFile(InitEditor, name, content))
<1>1. <<>> \o content = content /\ Len(content) \in Nat
  OBVIOUS
<1>2. /\ InitEditor \in EditorType /\ InitEditor.lines = <<>> /\ InitEditor.undo_lines = <<>>
      /\ InitEditor.undo_valid = FALSE /\ Len(<<>>) = 0
  BY DEF InitEditor, EditorType
<1> DEFINE x == LoadFile(InitEditor, name, content)
<1>3. x = [InitEditor EXCEPT !.lines = content, !.current_line = Len(content) - 1,
                              !.filename = name]
  BY <1>1, <1>2 DEF LoadFile
<1>6. /\ x \in EditorType /\ x.lines = content /\ x.current_line = Len(content) - 1
      /\ x.undo_lines = <<>> /\ x.undo_valid = FALSE
  <2> DEFINE c == Len(content) - 1
             y == [InitEditor EXCEPT !.lines = content, !.current_line = c,
                                     !.filename = name]
  <2>0. c \in Int
    BY <1>1
  <2> HIDE DEF c
  <2>4. y \in EditorType
    BY <1>2, <2>0 DEF EditorType
  <2>1. /\ y \in EditorType /\ y.lines = content /\ y.current_line = c
        /\ y.undo_lines = InitEditor.undo_lines /\ y.undo_valid = InitEditor.undo_valid
    BY <1>2, <2>4 DEF EditorType
  <2> HIDE DEF x, y
  <2>2. x = y
    BY <1>3 DEF y, c
  <2>3. QED
    BY <1>2, <2>1, <2>2 DEF c
<1>4. InBounds(Len(content) - 1, Len(content))
  BY <1>1 DEF InBounds
<1> HIDE DEF x
<1>5. Good(x)
  BY <1>2, <1>4, <1>6, MaxLinesAssumption DEF Good
<1>7. QED
  BY <1>5 DEF x

\* read_file_at_address.
LEMMA ReadFileAtAddressIsGood ==
  ASSUME NEW e, Good(e), NEW addr \in 0..Len(e.lines) \cup {-1}, NEW content \in Seq(Text),
         Len(e.lines) + Len(content) <= MaxLines, content # <<>> => addr + 1 <= Len(e.lines)
  PROVE  Good(ReadFileAtAddress(e, addr, content))
BY AppendLineIsGood, PrepareUndoIsGood DEF ReadFileAtAddress

\* An address that sets the current line.
LEMMA CurrentLineIsGood ==
  ASSUME NEW e, Good(e), NEW cur, InBounds(cur, Len(e.lines))
  PROVE  Good([e EXCEPT !.current_line = cur])
<1> DEFINE x == [e EXCEPT !.current_line = cur]
<1>1. cur \in Int
  BY DEF InBounds
<1>2. x \in EditorType
  BY <1>1 DEF Good, EditorType
<1>3. /\ x.lines = e.lines /\ x.current_line = cur
      /\ x.undo_lines = e.undo_lines /\ x.undo_valid = e.undo_valid
      /\ x.undo_current_line = e.undo_current_line
  BY DEF Good, EditorType
<1> HIDE DEF x
<1>4. Good(x)
  BY <1>2, <1>3 DEF Good
<1>5. QED
  BY <1>4 DEF x

\* f, and w once the file is written.
LEMMA NamingIsGood ==
  ASSUME NEW e, Good(e), NEW f \in FileName, NEW d \in BOOLEAN
  PROVE  /\ Good([e EXCEPT !.filename = f])
         /\ Good([e EXCEPT !.dirty = d, !.filename = f])
BY DEF Good, EditorType

\* k.
LEMMA MarkingIsGood ==
  ASSUME NEW e, Good(e), NEW m \in Mark, NEW i \in 0..Len(e.lines) - 1
  PROVE  Good([e EXCEPT !.marks[m] = i, !.current_line = i])
<1> DEFINE x == [e EXCEPT !.marks[m] = i, !.current_line = i]
<1>1. i \in Int /\ InBounds(i, Len(e.lines))
  BY FieldsOf DEF InBounds
<1>2. x \in EditorType
  BY <1>1 DEF Good, EditorType
<1>3. /\ x.lines = e.lines /\ x.current_line = i
      /\ x.undo_lines = e.undo_lines /\ x.undo_valid = e.undo_valid
      /\ x.undo_current_line = e.undo_current_line
  BY DEF Good, EditorType
<1> HIDE DEF x
<1>4. Good(x)
  BY <1>1, <1>2, <1>3 DEF Good
<1>5. QED
  BY <1>4 DEF x

-----------------------------------------------------------------------------
(* The loops that shift lines, which work in place and in phases              *)

\* The lines of a range.
LEMMA PartIsSeq ==
  ASSUME NEW lines \in Seq(Text), NEW a \in 0..Len(lines)-1, NEW b \in a..Len(lines)-1
  PROVE  LET part == SubSeq(lines, a + 1, b + 1)
         IN  /\ part \in Seq(Text) /\ Len(part) = b - a + 1
             /\ \A i \in 1..b - a + 1 : part[i] = lines[a + i]
<1> DEFINE m == a + 1
           n == b + 1
           part == SubSeq(lines, m, n)
<1>1. /\ m \in Int /\ n \in Int /\ m <= n /\ n - m + 1 = b - a + 1
      /\ \A i \in m..n : lines[i] \in Text
  OBVIOUS
<1>2. \A i \in 1..b - a + 1 : m + i - 1 = a + i
  OBVIOUS
<1> HIDE DEF m, n
<1>3. part \in Seq(Text) /\ Len(part) = n - m + 1 /\ \A i \in 1..n - m + 1 : part[i] = lines[m + i - 1]
  BY <1>1, SubSeqProperties
<1> HIDE DEF part
<1>4. part \in Seq(Text) /\ Len(part) = b - a + 1 /\ \A i \in 1..b - a + 1 : part[i] = lines[a + i]
  BY <1>1, <1>2, <1>3
<1>5. QED
  BY <1>4 DEF part, m, n

\* copy_range puts the range in after the destination.
LEMMA CopyIsSplice ==
  ASSUME NEW lines \in Seq(Text), NEW a \in 0..Len(lines)-1, NEW b \in a..Len(lines)-1,
         NEW dest \in 0..Len(lines)-1
  PROVE  LET r == [start |-> a, end |-> b]
         IN  CopySlots(lines, r, dest, Width(r)) =
               Splice(lines, dest + 1, SubSeq(lines, a + 1, b + 1))
<1> DEFINE n == Len(lines)
           r == [start |-> a, end |-> b]
           k == Width(r)
           part == SubSeq(lines, a + 1, b + 1)
           opened == [i \in 1..n + k |-> IF i > dest + 1 + k THEN lines[i - k]
                                    ELSE IF i <= n THEN lines[i] ELSE <<>>]
           Source(i) == LET src == r.start + (i - dest - 2)
                        IN  IF src > dest THEN src + k ELSE src
           Slot(i) == IF i > dest + 1 /\ i <= dest + 1 + k
                        THEN opened[Source(i) + 1] ELSE opened[i]
           Put(i) == IF i <= dest + 1 THEN lines[i]
                     ELSE IF i <= dest + 1 + k THEN part[i - (dest + 1)]
                     ELSE lines[i - k]
<1>1. /\ n \in Nat /\ dest \in 0..n-1 /\ a \in 0..n-1 /\ b \in a..n-1
      /\ k = b - a + 1 /\ k \in 1..n
  BY DEF Width
<1>2. Len(part) = k /\ \A i \in 1..k : part[i] = lines[a + i]
  BY <1>1, PartIsSeq
<1>3. CopySlots(lines, r, dest, k) = [i \in 1..n + k |-> Slot(i)]
  BY DEF CopySlots
<1>4. Splice(lines, dest + 1, part) = [i \in 1..n + k |-> Put(i)]
  BY <1>2 DEF Splice
<1>5. ASSUME NEW i \in 1..n + k
      PROVE  Slot(i) = Put(i)
  <2> HIDE DEF part, k, n
  <2>1. CASE i <= dest + 1
    BY <1>1, <2>1, SMTT(40)
  <2>2. CASE i > dest + 1 + k
    BY <1>1, <2>2
  <2>3. CASE i > dest + 1 /\ i <= dest + 1 + k
    <3> DEFINE src == a + (i - dest - 2)
               place == IF src > dest THEN src + k + 1 ELSE src + 1
    <3>1. src \in 0..n - 1 /\ i - (dest + 1) \in 1..k /\ a + (i - (dest + 1)) = src + 1
      BY <1>1, <2>3
    <3>2. Source(i) + 1 = place
      <4>1. Source(i) = IF src > dest THEN src + k ELSE src
        OBVIOUS
      <4> HIDE DEF src, Source
      <4>2. QED
        BY <1>1, <3>1, <4>1
    <3>3. opened[place] = lines[src + 1]
      <4> HIDE DEF src
      <4>1. CASE src > dest
        BY <1>1, <3>1, <4>1
      <4>2. CASE src <= dest
        BY <1>1, <3>1, <4>2
      <4>3. QED
        BY <1>1, <3>1, <4>1, <4>2
    <3>4. Slot(i) = opened[place]
      <4> HIDE DEF Source, opened, place
      <4>1. QED
        BY <2>3, <3>2
    <3>5. Put(i) = lines[src + 1]
      <4> DEFINE q == i - (dest + 1)
      <4>1. q \in 1..k /\ a + q = src + 1
        BY <3>1
      <4>2. Put(i) = part[q]
        BY <1>1, <2>3
      <4> HIDE DEF src, q
      <4>3. QED
        BY <1>2, <4>1, <4>2
    <3>6. QED
      BY <3>3, <3>4, <3>5
  <2>4. QED
    BY <1>1, <2>1, <2>2, <2>3
<1> HIDE DEF Slot, Put, part, k, r, n
<1>6. [i \in 1..n + k |-> Slot(i)] = [i \in 1..n + k |-> Put(i)]
  BY <1>5
<1>7. CopySlots(lines, r, dest, k) = Splice(lines, dest + 1, part)
  BY <1>3, <1>4, <1>6
<1>8. QED
  BY <1>7 DEF part, k, r

\* move_range takes the range out and puts it in after the destination.
LEMMA MoveIsSplice ==
  ASSUME NEW lines \in Seq(Text), NEW a \in 0..Len(lines)-1, NEW b \in a..Len(lines)-1,
         NEW dest \in 0..Len(lines)-1, dest \notin a..b
  PROVE  LET r == [start |-> a, end |-> b]
         IN  MoveLines(lines, r, dest) =
               Splice(Cut(lines, a, Width(r)),
                      (IF dest > b THEN dest - Width(r) ELSE dest) + 1,
                      SubSeq(lines, a + 1, b + 1))
<1> DEFINE n == Len(lines)
           r == [start |-> a, end |-> b]
           k == Width(r)
           adjusted == IF dest > r.end THEN dest - k ELSE dest
           part == SubSeq(lines, a + 1, b + 1)
           cut == Cut(lines, a, k)
           closed == [i \in 1..n |-> IF i > r.start /\ i <= n - k
                                  THEN lines[i + k] ELSE lines[i]]
           opened == [i \in 1..n |-> IF i > adjusted + 1 + k
                                  THEN closed[i - k] ELSE closed[i]]
           Slot(i) == IF i > adjusted + 1 /\ i <= adjusted + 1 + k
                        THEN lines[r.start + (i - adjusted - 1)] ELSE opened[i]
           Put(i) == IF i <= adjusted + 1 THEN cut[i]
                     ELSE IF i <= adjusted + 1 + k THEN part[i - (adjusted + 1)]
                     ELSE cut[i - k]
<1>1. /\ n \in Nat /\ dest \in 0..n-1 /\ a \in 0..n-1 /\ b \in a..n-1
      /\ k = b - a + 1 /\ k \in 1..n
  BY DEF Width
<1>2. Len(part) = k /\ \A i \in 1..k : part[i] = lines[a + i]
  BY <1>1, PartIsSeq
<1>3. cut = [i \in 1..n - k |-> IF i <= a THEN lines[i] ELSE lines[i + k]]
  BY DEF Cut
<1>4. Len(cut) + k = n
  <2>1. Len(cut) = n - k
    <3>1. a \in Nat /\ k \in 0..Len(lines)
      BY <1>1
    <3> HIDE DEF k
    <3>2. QED
      BY <3>1, CutIsSeq
  <2> HIDE DEF cut, k, n
  <2>2. QED
    BY <1>1, <2>1
<1>5. MoveLines(lines, r, dest) = [i \in 1..n |-> Slot(i)]
  BY DEF MoveLines
<1>6. Splice(cut, adjusted + 1, part) = [i \in 1..n |-> Put(i)]
  <2> HIDE DEF cut, part, k, adjusted
  <2>1. QED
    BY <1>2, <1>4 DEF Splice
<1>7. \/ adjusted \in 0..a - 1
      \/ adjusted \in a..n - k - 1
  <2> HIDE DEF n, k
  <2>1. QED
    BY <1>1
<1>8. ASSUME NEW i \in 1..n
      PROVE  Slot(i) = Put(i)
  <2> HIDE DEF part, k, n, adjusted, cut
  <2>1. CASE i <= adjusted + 1
    <3>1. opened[i] = closed[i] /\ i <= n - k
      BY <1>1, <1>7, <2>1
    <3>2. closed[i] = cut[i]
      BY <1>1, <1>3, <1>7, <2>1, <3>1
    <3> HIDE DEF opened, closed
    <3>3. QED
      BY <1>1, <1>7, <2>1, <3>1, <3>2
  <2>2. CASE i > adjusted + 1 + k
    <3>1. opened[i] = closed[i - k] /\ i - k \in 1..n - k
      BY <1>1, <1>7, <2>2
    <3>2. closed[i - k] = cut[i - k]
      BY <1>1, <1>3, <3>1
    <3> HIDE DEF opened, closed
    <3>3. QED
      BY <1>1, <1>7, <2>2, <3>1, <3>2
  <2>3. CASE i > adjusted + 1 /\ i <= adjusted + 1 + k
    <3> DEFINE q == i - (adjusted + 1)
    <3>1. q \in 1..k /\ a + (i - adjusted - 1) = a + q
      BY <1>1, <1>7, <2>3
    <3>2. Slot(i) = lines[a + q]
      BY <2>3, <3>1
    <3>3. Put(i) = part[q]
      BY <1>1, <1>7, <2>3
    <3> HIDE DEF q
    <3>4. QED
      BY <1>2, <3>1, <3>2, <3>3
  <2>4. QED
    BY <1>1, <1>7, <2>1, <2>2, <2>3
<1> HIDE DEF Slot, Put, part, k, r, n, cut, adjusted
<1>9. [i \in 1..n |-> Slot(i)] = [i \in 1..n |-> Put(i)]
  BY <1>8
<1>10. MoveLines(lines, r, dest) = Splice(cut, adjusted + 1, part)
  BY <1>5, <1>6, <1>9
<1>11. QED
  BY <1>10 DEF part, k, r, cut, adjusted

=============================================================================
