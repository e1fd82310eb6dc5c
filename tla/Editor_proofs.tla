----------------------------- MODULE Editor_proofs -----------------------------
(***************************************************************************)
(* Theorems about the editor, for every set of commands and files and every *)
(* size of memory.                                                         *)
(*                                                                         *)
(* IInv is the inductive invariant behind all of them: the types, and the   *)
(* bounds of the current line.  An operation is only defined on a current   *)
(* line in bounds, and only keeps it there on arrays of lines; u makes the   *)
(* snapshot the buffer, so the snapshot is bounded too, and so are the      *)
(* frames of global commands, which hold the commands to execute.          *)
(*                                                                         *)
(* What follows it is about steps: undo and failure, the promise of         *)
(* EdStore, the lines a global command has chosen, the file saved in an     *)
(* emergency, and the marks.                                               *)
(***************************************************************************)
EXTENDS Editor, EdBuffer_proofs, FiniteSetTheorems, WellFoundedInduction

Status == {"running", "exited", "aborted", "looping", "undefined"}

\* a state of the editor but for the work and the commands that are left
State(e, d, s, f) == Good(e) /\ d \in Disk /\ s \in Status /\ f \in BOOLEAN

\* a command writes one file at most
OneFile ==
  \/ disk' = disk
  \/ \E f \in FileName : /\ disk' = [disk EXCEPT ![f] = disk'[f]]
                          /\ disk'[f] \in Seq(Text) /\ Len(disk'[f]) <= MaxFile

\* the invariant but for the work and the commands that are left, now and after a step
Safe     == State(ed, disk, status, failed)
SafeNext == State(ed', disk', status', failed') /\ OneFile

\* The fields of a command are of the types its letter calls for.
LEMMA CommandFields ==
  ASSUME NEW c \in CommandType
  PROVE  /\ c.addr \in Seq(Token)
         /\ c.op \in Letter
         /\ c.op \in {"a", "i", "c"} => c.text \in Seq(Text)
         /\ c.op \in {"m", "t"} => c.dest \in Seq(Token)
         /\ c.op = "k" => c.mark \in Mark
         /\ c.op \in {"f", "w", "W", "e", "E", "r"} => c.file \in FileName \cup {NoName}
         /\ c.op = "s" => c.sub \in Substitution
         /\ c.op \in {"g", "v"} => c.list \in BOOLEAN /\ c.cmds \in Seq(Command)
<1> USE DEF CommandType
<1>1. c.addr \in Seq(Token)
  OBVIOUS
<1>2. c.op \in Letter
  BY DEF Letter
<1>3. c.op \in {"a", "i", "c"} => c.text \in Seq(Text)
  OBVIOUS
<1>4. c.op \in {"m", "t"} => c.dest \in Seq(Token)
  OBVIOUS
<1>5. c.op = "k" => c.mark \in Mark
  OBVIOUS
<1>6. c.op \in {"f", "w", "W", "e", "E", "r"} => c.file \in FileName \cup {NoName}
  OBVIOUS
<1>7. c.op = "s" => c.sub \in Substitution
  OBVIOUS
<1>8. c.op \in {"g", "v"} => c.list \in BOOLEAN /\ c.cmds \in Seq(Command)
  OBVIOUS
<1>9. QED
  BY <1>1, <1>2, <1>3, <1>4, <1>5, <1>6, <1>7, <1>8

\* The buffer fits the memory and the current line is in bounds.
LEMMA LenN ==
  ASSUME Safe
  PROVE  N \in 0..MaxLines /\ InBounds(ed.current_line, N)
BY FieldsOf DEF Safe, State, N

\* The addresses execute_command reads are 0 or lines of the buffer, or the 1 put for a
\* missing first address.
LEMMA ParseIsSound ==
  ASSUME NEW c \in CommandType, Safe, Reads(c)
  PROVE  /\ Parse(c).addr1 \in 0..N \cup {1}
         /\ Parse(c).addr2 \in 0..N
<1> DEFINE s == c.addr \o (IF c.op = "" THEN <<>> ELSE <<Sym("op")>>)
           T == Token \cup {Sym("op")}
<1>1. s \in Seq(T)
  <2>1. c.addr \in Seq(T)
    BY CommandFields
  <2>2. <<>> \in Seq(T) /\ <<Sym("op")>> \in Seq(T)
    OBVIOUS
  <2> HIDE DEF T
  <2>3. QED
    BY <2>1, <2>2, ConcatProperties
<1>2. Parse(c) = ParseEdAddress(s, Current1(ed.current_line), N, ed.marks)
  BY DEF Parse
<1>3. ParseEdAddress(s, Current1(ed.current_line), N, ed.marks).ok
  BY <1>2 DEF Reads
<1>4. N \in Nat
  BY LenN
<1> HIDE DEF s, T
<1>5. QED
  BY <1>1, <1>2, <1>3, <1>4, ParseEdAddressIsSound DEF SoundResult

\* A command may end with any consistent structure, with "?", or with the program.
LEMMA EndsAreSafe ==
  ASSUME Safe
  PROVE  /\ \A e : Good(e) /\ (Do(e) \/ Fail(e)) => SafeNext
         /\ Error \/ Exit \/ Undefined \/ Loop => SafeNext
BY DEF Safe, SafeNext, OneFile, State, Do, Fail, Error, Exit, Undefined, Loop, Status

\* What is written to a file is lines.
LEMMA OnDiskIsSeq ==
  ASSUME NEW lines \in Seq(Text)
  PROVE  OnDisk(lines) \in Seq(Text) /\ Len(OnDisk(lines)) <= MaxFile
<1> DEFINE n == IF Len(lines) <= MaxFile THEN Len(lines) ELSE MaxFile
<1>1. n \in Nat /\ n <= MaxFile /\ \A i \in 1..n : lines[i] \in Text
  BY BoundsAssumption
<1> HIDE DEF n
<1>2. SubSeq(lines, 1, n) \in Seq(Text) /\ Len(SubSeq(lines, 1, n)) <= MaxFile
  BY <1>1, SubSeqProperties
<1>3. QED
  BY <1>2 DEF OnDisk, n

\* critical_error may write a file and changes nothing else.
LEMMA CriticalErrorIsSafe ==
  ASSUME Safe, NEW kept \in Seq(Text), NEW name \in FileName \cup {NoName},
         CriticalError(name, kept)
  PROVE  SafeNext
<1>1. status' \in Status /\ Good(ed') /\ failed' \in BOOLEAN
  BY DEF CriticalError, Safe, State, Status
<1>2. disk' \in Disk /\ OneFile
  <2>1. OnDisk(kept) \in Seq(Text) /\ Len(OnDisk(kept)) <= MaxFile
    BY OnDiskIsSeq
  <2>2. disk \in [FileName -> Seq(Text) \cup {Absent}]
    BY DEF Safe, State, Disk
  <2>3. CASE disk' = disk
    BY <2>2, <2>3 DEF Disk, OneFile
  <2>4. ASSUME NEW f \in FileName, disk' = [disk EXCEPT ![f] = OnDisk(kept)]
        PROVE  disk' \in Disk /\ OneFile
    <3>1. disk'[f] = OnDisk(kept)
      BY <2>2, <2>4
    <3>2. QED
      BY <2>1, <2>2, <2>4, <3>1 DEF Disk, OneFile
  <2>5. QED
    BY <2>3, <2>4 DEF CriticalError
<1>3. QED
  BY <1>1, <1>2 DEF SafeNext, State

\* The lines critical_error finds when the memory fails while text is read.
LEMMA PartialIsSeq ==
  ASSUME NEW lines \in Seq(Text), NEW pos \in 0..Len(lines), NEW text \in Seq(Text),
         Len(lines) <= MaxLines, ~Fits(Len(lines), Len(text))
  PROVE  Partial(lines, pos, text) \in Seq(Text)
<1> DEFINE n == MaxLines - Len(lines)
<1>1. n \in Int /\ \A i \in 1..n : text[i] \in Text
  BY MaxLinesAssumption DEF Fits
<1> HIDE DEF n
<1>2. SubSeq(text, 1, n) \in Seq(Text)
  BY <1>1, SubSeqProperties
<1>3. QED
  BY <1>2, SpliceIsSeq DEF Partial, n

\* The buffer and its file name.
LEMMA FilenameType ==
  ASSUME Safe
  PROVE  ed.filename \in FileName \cup {NoName} /\ ed.lines \in Seq(Text) /\ Len(ed.lines) = N
BY DEF Safe, State, Good, EditorType, N

\* A single address is a line of the buffer, or the current line.
LEMMA AddrIsNear ==
  ASSUME NEW c \in CommandType, Safe, Reads(c)
  PROVE  AddrOf(c) \in Int /\ AddrOf(c) <= N /\ (AddrOf(c) = N => N = 0 \/ Parse(c).addr1 = 0)
BY ParseIsSound, LenN DEF AddrOf, InBounds

\* An address alone.
LEMMA BareAddressIsSafe ==
  ASSUME NEW c \in CommandType, Safe, BareAddress(c)
  PROVE  SafeNext
<1>1. CASE Do(ed) \/ Error
  BY <1>1, EndsAreSafe DEF Safe, State
<1>2. CASE Parse(c).addr1 \in 1..N /\ Do([ed EXCEPT !.current_line = Parse(c).addr1 - 1])
  <2>1. InBounds(Parse(c).addr1 - 1, N)
    BY <1>2, LenN DEF InBounds
  <2>2. Good([ed EXCEPT !.current_line = Parse(c).addr1 - 1])
    BY <2>1, FilenameType, CurrentLineIsGood DEF Safe, State
  <2>3. QED
    BY <1>2, <2>2, EndsAreSafe
<1>3. QED
  BY <1>1, <1>2 DEF BareAddress

\* What commands on a range know of it: both ends are lines, in any order.
LEMMA RangeIsInBuffer ==
  ASSUME NEW c, Safe, Ranged(c)
  PROVE  LET r == LineRangeOf(c)
         IN  /\ InBuffer(r, Len(ed.lines)) /\ Good(ed)
             /\ r.start \in 0..N-1 /\ r.end \in 0..N-1 /\ Width(r) \in Int
             /\ N \in 1..MaxLines /\ N = Len(ed.lines)
<1>1. InBuffer(LineRangeOf(c), N) /\ N \in 0..MaxLines /\ N = Len(ed.lines) /\ Good(ed)
  BY LenN, FilenameType DEF Ranged, Safe, State
<1>2. QED
  BY <1>1 DEF InBuffer, Width

\* p n l.
LEMMA ShowRangeIsSafe ==
  ASSUME NEW c \in CommandType, Safe, ShowRange(c)
  PROVE  SafeNext
<1> DEFINE r == LineRangeOf(c)
<1>1. Ranged(c) /\ Do([ed EXCEPT !.current_line = r.end])
  BY DEF ShowRange
<1>2. InBounds(r.end, Len(ed.lines)) /\ Good(ed)
  BY <1>1, RangeIsInBuffer DEF InBounds
<1>3. Good([ed EXCEPT !.current_line = r.end])
  BY <1>2, CurrentLineIsGood
<1>4. QED
  BY <1>1, <1>3, EndsAreSafe

\* d.
LEMMA DeleteIsSafe ==
  ASSUME NEW c \in CommandType, Safe, Delete(c)
  PROVE  SafeNext
<1> DEFINE r == LineRangeOf(c)
<1>1. Ranged(c) /\ InBuffer(r, Len(ed.lines)) /\ Good(ed)
  BY RangeIsInBuffer DEF Delete
<1>2. CASE Width(r) >= 0 /\ Do(DeleteRange(ed, r))
  BY <1>1, <1>2, DeleteRangeIsGood, EndsAreSafe
<1>3. CASE Undefined
  BY <1>3, EndsAreSafe
<1>4. QED
  BY <1>2, <1>3 DEF Delete

\* c.
LEMMA ChangeIsSafe ==
  ASSUME NEW c \in CommandType, Safe, Change(c)
  PROVE  SafeNext
<1> DEFINE r == LineRangeOf(c)
           d == DeleteRange(ed, r)
<1>1. Ranged(c) /\ InBuffer(r, Len(ed.lines)) /\ Good(ed) /\ r.start \in Nat
      /\ c.text \in Seq(Text)
  BY RangeIsInBuffer, CommandFields DEF Change
<1>2. CASE Width(r) < 0 /\ Undefined
  BY <1>2, EndsAreSafe
<1>3. CASE Width(r) >= 0 /\ Fits(Len(d.lines), Len(c.text)) /\ Do(ChangeRange(ed, r, c.text))
  BY <1>1, <1>3, ChangeRangeIsGood, EndsAreSafe DEF Fits
<1>4. CASE Width(r) >= 0 /\ ~Fits(Len(d.lines), Len(c.text))
           /\ CriticalError(ed.filename, Partial(d.lines, r.start, c.text))
  <2>1. Good(d) /\ r.start <= Len(d.lines)
    BY <1>1, <1>4, DeleteRangeIsGood
  <2> HIDE DEF d
  <2>2. d.lines \in Seq(Text) /\ r.start \in 0..Len(d.lines) /\ Len(d.lines) <= MaxLines
    BY <1>1, <2>1, FieldsOf
  <2>3. Partial(d.lines, r.start, c.text) \in Seq(Text)
    BY <1>1, <1>4, <2>2, PartialIsSeq
  <2>4. QED
    BY <1>4, <2>3, FilenameType, CriticalErrorIsSafe
<1>5. QED
  BY <1>2, <1>3, <1>4 DEF Change

\* j.
LEMMA JoinIsSafe ==
  ASSUME NEW c \in CommandType, Safe, Join(c)
  PROVE  SafeNext
<1> DEFINE r == LineRangeOf(c)
<1>1. Ranged(c) /\ InBuffer(r, Len(ed.lines)) /\ Good(ed)
  BY RangeIsInBuffer DEF Join
<1>2. CASE Width(r) >= 1 /\ Do(JoinRange(ed, r))
  BY <1>1, <1>2, JoinRangeIsGood, EndsAreSafe
<1>3. CASE Undefined
  BY <1>3, EndsAreSafe
<1>4. QED
  BY <1>2, <1>3 DEF Join

\* m.
LEMMA MoveIsSafe ==
  ASSUME NEW c \in CommandType, Safe, Move(c)
  PROVE  SafeNext
<1> DEFINE r == LineRangeOf(c)
           dest == Destination(c)
<1>1. Ranged(c) /\ InBuffer(r, Len(ed.lines)) /\ Good(ed) /\ dest \in 0..Len(ed.lines) - 1
  BY RangeIsInBuffer, FilenameType DEF Move
<1>2. CASE Fail(PrepareUndo(ed))
  BY <1>1, <1>2, PrepareUndoIsGood, EndsAreSafe
<1>3. CASE dest \notin r.start..r.end /\ Width(r) >= 0 /\ Do(MoveRange(ed, r, dest))
  BY <1>1, <1>3, MoveRangeIsGood, EndsAreSafe
<1>4. CASE CriticalError(ed.filename, ed.lines)
  BY <1>4, FilenameType, CriticalErrorIsSafe
<1>5. QED
  BY <1>2, <1>3, <1>4 DEF Move

\* t may be undefined when a copy fails, or the program ends: with no file, or with one
\* that holds slots of the array.
LEMMA FailedCopyEnds ==
  ASSUME NEW r, NEW dest, NEW copied, CopyFails(r, dest, copied)
  PROVE  \/ Undefined
         \/ CriticalError(ed.filename, ed.lines)
         \/ CriticalError(ed.filename, SubSeq(CopySlots(ed.lines, r, dest, copied), 1, N))
BY DEF CopyFails, CriticalError

\* t.
LEMMA CopyIsSafe ==
  ASSUME NEW c \in CommandType, Safe, Copy(c)
  PROVE  SafeNext
<1> DEFINE r == LineRangeOf(c)
           dest == Destination(c)
           n == Len(ed.lines)
<1>1. /\ Ranged(c) /\ InBuffer(r, n) /\ Good(ed) /\ dest \in 0..n - 1
      /\ Width(r) \in Int /\ n = N /\ n \in Nat
  BY RangeIsInBuffer DEF Copy
<1>2. CASE Undefined
  BY <1>2, EndsAreSafe
<1>3. CASE CriticalError(ed.filename, ed.lines)
  BY <1>3, FilenameType, CriticalErrorIsSafe
<1>4. CASE (Width(r) >= 0 \/ dest = N - 1) /\ Fits(N, Width(r)) /\ Do(CopyRange(ed, r, dest))
  BY <1>1, <1>4, CopyRangeIsGood, EndsAreSafe DEF Fits
<1>5. ASSUME NEW copied \in 0..Width(r) - 1,
             CriticalError(ed.filename, SubSeq(CopySlots(ed.lines, r, dest, copied), 1, N))
      PROVE  SafeNext
  <2> DEFINE slots == CopySlots(ed.lines, r, dest, copied)
  <2>1. Width(r) > 0 /\ copied \in 0..Width(r)
    BY <1>1
  <2>2. \A i \in 1..n : slots[i] \in Text
    <3>1. ed.lines \in Seq(Text)
      BY FilenameType
    <3>2. \A i \in 1..n + Width(r) : i <= n => slots[i] \in Text
      BY <1>1, <2>1, <3>1, CopySlotsAreText
    <3> HIDE DEF slots, r, n
    <3>3. QED
      BY <1>1, <2>1, <3>2
  <2> HIDE DEF slots
  <2>3. SubSeq(slots, 1, N) \in Seq(Text)
    BY <1>1, <2>2, SubSeqProperties
  <2>4. QED
    BY <1>5, <2>3, FilenameType, CriticalErrorIsSafe DEF slots
<1>6. QED
  BY <1>2, <1>3, <1>4, <1>5, FailedCopyEnds DEF Copy

\* s.
LEMMA SubstituteIsSafe ==
  ASSUME NEW c \in CommandType, Safe, Substitute(c)
  PROVE  SafeNext
<1> DEFINE r == LineRangeOf(c)
           diverges == \E i \in r.start..r.end : Diverges(c.sub, ed.lines[i + 1])
<1>1. Ranged(c) /\ InBuffer(r, Len(ed.lines)) /\ Good(ed) /\ c.sub \in Substitution
  BY RangeIsInBuffer, CommandFields DEF Substitute
<1>2. CASE Loop
  BY <1>2, EndsAreSafe
<1>3. CASE ~diverges /\ (Do(SubstituteRange(ed, r, c.sub)) \/ Fail(SubstituteRange(ed, r, c.sub)))
  BY <1>1, <1>3, SubstituteRangeIsGood, EndsAreSafe
<1>4. QED
  BY <1>2, <1>3 DEF Substitute

\* a.
LEMMA AppendTextIsSafe ==
  ASSUME NEW c \in CommandType, Safe, AppendText(c)
  PROVE  SafeNext
<1> DEFINE addr == IF AddrOf(c) < 0 THEN N - 1 ELSE AddrOf(c)
<1>1. /\ Good(ed) /\ N = Len(ed.lines) /\ N \in 0..MaxLines /\ ed.lines \in Seq(Text)
      /\ c.text \in Seq(Text) /\ Len(c.text) \in Nat
  BY LenN, FilenameType, CommandFields DEF AppendText, Safe, State
<1>2. addr \in 0..N \cup {-1}
  BY <1>1, AddrIsNear DEF AppendText
<1> HIDE DEF addr
<1>3. CASE Undefined
  BY <1>3, EndsAreSafe
<1>4. CASE /\ c.text = <<>> \/ addr + 1 <= N
           /\ Fits(N, Len(c.text)) /\ Do(AppendLine(ed, addr, c.text))
  BY <1>1, <1>2, <1>4, AppendLineIsGood, EndsAreSafe DEF Fits
<1>5. CASE /\ c.text = <<>> \/ addr + 1 <= N
           /\ ~Fits(N, Len(c.text))
           /\ CriticalError(ed.filename, Partial(ed.lines, addr + 1, c.text))
  <2> DEFINE k == Len(c.text)
  <2>0. k \in Nat /\ N \in 0..MaxLines /\ ~(N + k <= MaxLines)
    BY <1>1, <1>5 DEF Fits
  <2> HIDE DEF k
  <2>1. k # 0
    BY <2>0, MaxLinesAssumption
  <2>2. addr + 1 \in 0..Len(ed.lines)
    BY <1>1, <1>2, <1>5, <2>1 DEF k
  <2>3. Partial(ed.lines, addr + 1, c.text) \in Seq(Text)
    BY <1>1, <1>5, <2>2, PartialIsSeq
  <2>4. QED
    BY <1>5, <2>3, FilenameType, CriticalErrorIsSafe
<1>6. QED
  BY <1>3, <1>4, <1>5 DEF AppendText, addr

\* i.
LEMMA InsertTextIsSafe ==
  ASSUME NEW c \in CommandType, Safe, InsertText(c)
  PROVE  SafeNext
<1> DEFINE addr == IF AddrOf(c) < 0 THEN 0 ELSE AddrOf(c)
<1>1. /\ Good(ed) /\ N = Len(ed.lines) /\ N \in 0..MaxLines /\ ed.lines \in Seq(Text)
      /\ c.text \in Seq(Text) /\ Len(c.text) \in Nat
  BY LenN, FilenameType, CommandFields DEF InsertText, Safe, State
<1>2. addr \in 0..N
  BY <1>1, AddrIsNear DEF InsertText
<1> HIDE DEF addr
<1>3. CASE Fits(N, Len(c.text)) /\ Do(InsertLine(ed, addr, c.text))
  BY <1>1, <1>2, <1>3, InsertLineIsGood, EndsAreSafe DEF Fits
<1>4. CASE ~Fits(N, Len(c.text)) /\ CriticalError(ed.filename, Partial(ed.lines, addr, c.text))
  <2>1. Partial(ed.lines, addr, c.text) \in Seq(Text)
    BY <1>1, <1>2, <1>4, PartialIsSeq
  <2>2. QED
    BY <1>4, <2>1, FilenameType, CriticalErrorIsSafe
<1>5. QED
  BY <1>3, <1>4 DEF InsertText, addr

\* k.
LEMMA SetMarkIsSafe ==
  ASSUME NEW c \in CommandType, Safe, SetMark(c)
  PROVE  SafeNext
<1>1. c.mark \in Mark /\ Good(ed) /\ N = Len(ed.lines)
  BY CommandFields, FilenameType DEF SetMark, Safe, State
<1>2. CASE AddrOf(c) \in 0..N-1 /\ Do([ed EXCEPT !.marks[c.mark] = AddrOf(c),
                                                 !.current_line = AddrOf(c)])
  BY <1>1, <1>2, MarkingIsGood, EndsAreSafe
<1>3. CASE Error
  BY <1>3, EndsAreSafe
<1>4. QED
  BY <1>2, <1>3 DEF SetMark

\* u.
LEMMA UndoIsSafe ==
  ASSUME NEW c \in CommandType, Safe, UndoCommand(c)
  PROVE  SafeNext
<1>1. CASE ed.undo_valid /\ Do(Undo(ed))
  BY <1>1, UndoIsGood, EndsAreSafe DEF Safe, State
<1>2. CASE Error
  BY <1>2, EndsAreSafe
<1>3. QED
  BY <1>1, <1>2 DEF UndoCommand

\* = H P h # q Q
LEMMA StillIsSafe ==
  ASSUME NEW c, Safe, PrintNumber(c) \/ Other(c) \/ Quit(c) \/ ForcedQuit(c)
  PROVE  SafeNext
<1>1. Do(ed) \/ Error \/ Exit
  BY DEF PrintNumber, Other, Quit, ForcedQuit
<1>2. QED
  BY <1>1, EndsAreSafe DEF Safe, State

\* f.
LEMMA SetFilenameIsSafe ==
  ASSUME NEW c \in CommandType, Safe, SetFilename(c)
  PROVE  SafeNext
<1>1. c.file \in FileName \cup {NoName} /\ Good(ed)
  BY CommandFields DEF SetFilename, Safe, State
<1>2. CASE c.file # NoName /\ Do([ed EXCEPT !.filename = c.file])
  BY <1>1, <1>2, NamingIsGood, EndsAreSafe
<1>3. CASE Do(ed) \/ Error
  BY <1>1, <1>3, EndsAreSafe
<1>4. QED
  BY <1>2, <1>3 DEF SetFilename

\* What the files hold.
LEMMA DiskType ==
  ASSUME Safe, NEW f \in FileName
  PROVE  /\ disk[f] \in Seq(Text) \cup {Absent}
         /\ disk[f] # Absent => Len(disk[f]) \in Nat
         /\ \A lines \in Seq(Text) : /\ [disk EXCEPT ![f] = lines] \in Disk
                                     /\ Len(lines) <= MaxFile /\ disk' = [disk EXCEPT ![f] = lines] => OneFile
<1>1. disk \in [FileName -> Seq(Text) \cup {Absent}]
  BY DEF Safe, State, Disk
<1>2. ASSUME NEW lines \in Seq(Text), Len(lines) <= MaxFile, disk' = [disk EXCEPT ![f] = lines]
      PROVE OneFile
  <2>1. disk'[f] = lines
    BY <1>1, <1>2
  <2>2. QED
    BY <1>2, <2>1 DEF OneFile
<1>3. QED
  BY <1>1, <1>2 DEF Disk

\* w.
LEMMA WriteIsSafe ==
  ASSUME NEW c \in CommandType, Safe, Write(c)
  PROVE  SafeNext
<1> DEFINE target == IF c.file # NoName THEN c.file ELSE ed.filename
<1>1. target \in FileName \cup {NoName} /\ Good(ed)
  BY CommandFields, FilenameType DEF Write, Safe, State
<1> HIDE DEF target
<1>2. CASE Error
  BY <1>2, EndsAreSafe
<1>3. CASE /\ target # NoName
           /\ disk' = [disk EXCEPT ![target] = OnDisk(ed.lines)]
           /\ ed' = [ed EXCEPT !.dirty = FALSE, !.filename = target]
           /\ failed' = FALSE /\ UNCHANGED status
  <2>1. Good(ed')
    <3> DEFINE d == FALSE
    <3>1. d \in BOOLEAN /\ ed' = [ed EXCEPT !.dirty = d, !.filename = target]
      BY <1>3
    <3> HIDE DEF d
    <3>2. Good([ed EXCEPT !.dirty = d, !.filename = target])
      BY <1>1, <1>3, <3>1, NamingIsGood
    <3>3. QED
      BY <3>1, <3>2
  <2>2. disk' \in Disk /\ OneFile
    BY <1>1, <1>3, FilenameType, OnDiskIsSeq, DiskType
  <2>3. QED
    BY <1>3, <2>1, <2>2 DEF Safe, SafeNext, State
<1>4. QED
  BY <1>2, <1>3 DEF Write, target

\* W.
LEMMA WriteAppendIsSafe ==
  ASSUME NEW c \in CommandType, Safe, WriteAppend(c)
  PROVE  SafeNext
<1> DEFINE r == WholeRange(Parse(c), N)
           old == IF disk[c.file] = Absent THEN <<>> ELSE disk[c.file]
           a == r.start + 1
           b == r.end + 1
           part == SubSeq(ed.lines, a, b)
<1>1. CASE Error
  BY <1>1, EndsAreSafe
<1>2. CASE /\ c.file # NoName /\ InBuffer(r, N)
           /\ disk' = [disk EXCEPT ![c.file] = OnDisk(old \o part)]
           /\ failed' = FALSE /\ UNCHANGED <<ed, status>>
  <2>1. c.file \in FileName
    BY <1>2, CommandFields DEF WriteAppend
  <2>2. old \in Seq(Text)
    BY <2>1, DiskType
  <2>3. a \in Int /\ b \in Int /\ \A i \in a..b : ed.lines[i] \in Text
    BY <1>2, FilenameType, LenN DEF InBuffer
  <2> HIDE DEF r, a, b, old
  <2>4. part \in Seq(Text)
    BY <2>3, SubSeqProperties
  <2> HIDE DEF part
  <2>5. OnDisk(old \o part) \in Seq(Text) /\ Len(OnDisk(old \o part)) <= MaxFile
    BY <2>2, <2>4, ConcatProperties, OnDiskIsSeq
  <2>6. disk' \in Disk /\ OneFile
    BY <1>2, <2>1, <2>5, DiskType
  <2>7. QED
    BY <1>2, <2>6 DEF Safe, SafeNext, State
<1>3. QED
  BY <1>1, <1>2 DEF WriteAppend

\* e E.
LEMMA EditIsSafe ==
  ASSUME NEW c \in CommandType, Safe, Edit(c)
  PROVE  SafeNext
<1>1. CASE Error \/ Undefined
  BY <1>1, EndsAreSafe
<1>2. CASE Fail(InitEditor)
  BY <1>2, InitEditorIsGood, EndsAreSafe
<1>3. ASSUME c.file # NoName, disk[c.file] # Absent
      PROVE  c.file \in FileName /\ disk[c.file] \in Seq(Text) /\ Len(disk[c.file]) \in Nat
  BY <1>3, CommandFields, DiskType DEF Edit
<1>4. CASE /\ c.file # NoName /\ disk[c.file] # Absent /\ Fits(0, Len(disk[c.file]))
           /\ Do(LoadFile(InitEditor, c.file, disk[c.file]))
  BY <1>3, <1>4, LoadFileIsGood, EndsAreSafe DEF Fits
<1>5. CASE /\ c.file # NoName /\ disk[c.file] # Absent /\ ~Fits(0, Len(disk[c.file]))
           /\ CriticalError(NoName, Partial(<<>>, 0, disk[c.file]))
  <2> DEFINE none == <<>>
  <2>1. none \in Seq(Text) /\ Len(none) = 0
    OBVIOUS
  <2> HIDE DEF none
  <2>2. Partial(none, 0, disk[c.file]) \in Seq(Text)
    <3>1. /\ 0 \in 0..Len(none) /\ Len(none) <= MaxLines
          /\ ~Fits(Len(none), Len(disk[c.file]))
      BY <1>5, <2>1, MaxLinesAssumption
    <3>2. QED
      BY <1>3, <1>5, <2>1, <3>1, PartialIsSeq
  <2>3. QED
    BY <1>5, <2>2, CriticalErrorIsSafe DEF none
<1>6. QED
  BY <1>1, <1>2, <1>4, <1>5 DEF Edit

\* r.
LEMMA ReadIsSafe ==
  ASSUME NEW c \in CommandType, Safe, Read(c)
  PROVE  SafeNext
<1> DEFINE addr == IF Parse(c).addr1 = 0 THEN N - 1 ELSE Parse(c).addr1 - 1
           content == disk[c.file]
<1>1. Good(ed) /\ N = Len(ed.lines) /\ N \in 0..MaxLines /\ ed.lines \in Seq(Text)
  BY LenN, FilenameType DEF Safe, State
<1>2. addr \in 0..N \cup {-1}
  BY <1>1, ParseIsSound DEF Read
<1> HIDE DEF addr
<1>3. CASE Error \/ Undefined
  BY <1>3, EndsAreSafe
<1>4. CASE Fail(PrepareUndo(ed))
  BY <1>1, <1>4, PrepareUndoIsGood, EndsAreSafe
<1>5. CASE c.file # NoName /\ content # Absent /\ ~(addr + 1 > N /\ content # <<>>)
  <2>1. content \in Seq(Text) /\ Len(content) \in Nat
    BY <1>5, CommandFields, DiskType DEF Read
  <2> HIDE DEF content
  <2>2. CASE Fits(N, Len(content)) /\ Do(ReadFileAtAddress(ed, addr, content))
    BY <1>1, <1>2, <1>5, <2>1, <2>2, ReadFileAtAddressIsGood, EndsAreSafe DEF Fits
  <2>3. CASE ~Fits(N, Len(content)) /\ CriticalError(ed.filename, Partial(ed.lines, addr + 1, content))
    <3>1. Len(content) # 0
      BY <1>1, <2>1, <2>3 DEF Fits
    <3>2. addr + 1 \in 0..Len(ed.lines)
      BY <1>1, <1>2, <1>5, <2>1, <3>1
    <3>3. Partial(ed.lines, addr + 1, content) \in Seq(Text)
      BY <1>1, <2>1, <2>3, <3>2, PartialIsSeq
    <3>4. QED
      BY <2>3, <3>3, FilenameType, CriticalErrorIsSafe
  <2>4. CASE Error \/ Undefined \/ Fail(PrepareUndo(ed))
    BY <1>3, <1>4, <2>4
  <2>5. QED
    BY <1>5, <2>2, <2>3, <2>4 DEF Read, addr, content
<1>6. QED
  BY <1>3, <1>4, <1>5 DEF Read, addr

\* Every command but g and v.
LEMMA SimpleIsSafe ==
  ASSUME NEW c \in CommandType, Safe, Simple(c)
  PROVE  SafeNext
<1>1. CASE Unreadable(c) \/ OutOfRange(c) \/ NoDestination(c)
  <2>1. Error \/ Undefined
    BY <1>1 DEF Unreadable, OutOfRange, NoDestination
  <2>2. QED
    BY <2>1, EndsAreSafe
<1>2. CASE BareAddress(c) \/ ShowRange(c) \/ Delete(c) \/ Change(c) \/ Join(c)
  BY <1>2, BareAddressIsSafe, ShowRangeIsSafe, DeleteIsSafe, ChangeIsSafe, JoinIsSafe
<1>3. CASE Move(c) \/ Copy(c) \/ Substitute(c) \/ AppendText(c) \/ InsertText(c)
  BY <1>3, MoveIsSafe, CopyIsSafe, SubstituteIsSafe, AppendTextIsSafe, InsertTextIsSafe
<1>4. CASE SetMark(c) \/ UndoCommand(c) \/ PrintNumber(c) \/ Other(c) \/ Quit(c) \/ ForcedQuit(c)
  BY <1>4, SetMarkIsSafe, UndoIsSafe, StillIsSafe
<1>5. CASE SetFilename(c) \/ Write(c) \/ WriteAppend(c) \/ Edit(c) \/ Read(c)
  BY <1>5, SetFilenameIsSafe, WriteIsSafe, WriteAppendIsSafe, EditIsSafe, ReadIsSafe
<1>6. QED
  BY <1>1, <1>2, <1>3, <1>4, <1>5 DEF Simple

-----------------------------------------------------------------------------
(* Global commands                                                           *)

LEMMA TargetsAreInBuffer ==
  ASSUME NEW c, Safe, InBuffer(GlobalRange(Parse(c), N), N)
  PROVE  Targets(c, GlobalRange(Parse(c), N)) \in SUBSET (0..MaxLines)
BY LenN, MaxLinesAssumption DEF Targets, InBuffer

\* g v.
LEMMA GlobalIsSafe ==
  ASSUME NEW c \in CommandType, NEW rest \in Seq(Frame), Safe, Global(c, rest)
  PROVE  SafeNext /\ work' \in Seq(Frame)
<1> DEFINE r == GlobalRange(Parse(c), N)
           frame == [todo |-> Targets(c, r), line |-> 0, cmds |-> c.cmds,
                     list |-> c.list, pc |-> Len(c.cmds) + 1,
                     base |-> ed.lines, chosen |-> Targets(c, r)]
<1>1. c.op \in {"g", "v"}
  BY DEF Global
<1>2. CASE Error /\ work' = rest
  BY <1>2, EndsAreSafe
<1>3. CASE CriticalError(ed.filename, ed.lines) /\ work' = <<>>
  BY <1>3, FilenameType, CriticalErrorIsSafe
<1>4. CASE InBuffer(r, N) /\ Do(ed) /\ work' = <<frame>> \o rest
  <2>1. Targets(c, r) \in SUBSET (0..MaxLines)
    BY <1>4, TargetsAreInBuffer
  <2>2. c.cmds \in Seq(Command) /\ c.list \in BOOLEAN /\ Len(c.cmds) + 1 \in Nat \ {0}
    BY <1>1, CommandFields
  <2>3. frame \in Frame
    BY <2>1, <2>2, FilenameType, MaxLinesAssumption DEF Frame
  <2> HIDE DEF frame
  <2>4. <<frame>> \o rest \in Seq(Frame)
    BY <2>3, ConcatProperties
  <2>5. QED
    BY <1>4, <2>4, EndsAreSafe DEF Safe, State
<1>5. QED
  BY <1>2, <1>3, <1>4 DEF Global

\* execute_command.
LEMMA ExecuteIsSafe ==
  ASSUME NEW c \in CommandType, NEW rest \in Seq(Frame), Safe, Execute(c, rest)
  PROVE  SafeNext /\ work' \in Seq(Frame) /\ last' \in Letter
<1>1. last' \in Letter
  BY CommandFields DEF Execute
<1>2. CASE Simple(c) /\ work' = IF status' \in {"running", "looping"} THEN rest ELSE <<>>
  <2>1. work' \in Seq(Frame)
    BY <1>2
  <2>2. QED
    BY <1>1, <1>2, <2>1, SimpleIsSafe
<1>3. CASE Global(c, rest)
  BY <1>1, <1>3, GlobalIsSafe
<1>4. QED
  BY <1>1, <1>2, <1>3 DEF Execute

\* A set of lines that is not empty has a last one.
LEMMA HasLast ==
  ASSUME NEW m \in Nat, NEW S \in SUBSET (0..m), S # {}
  PROVE  \E i \in S : \A k \in S : i >= k
<1> DEFINE R == {ss \in Nat \X Nat : ss[1] < ss[2]}
           T == {m - i : i \in S}
<1>1. IsWellFoundedOn(R, Nat)
  BY NatLessThanWellFounded DEF OpToRel
<1>2. T \subseteq Nat
  <2>1. \A i \in S : m - i \in Nat
    OBVIOUS
  <2>2. QED
    BY <2>1
<1>3. T # {}
  OBVIOUS
<1> HIDE DEF R, T
<1>4. PICK x \in T : \A y \in T : ~(<<y, x>> \in R)
  BY <1>1, <1>2, <1>3, WFMin
<1>5. \A y \in T : ~(y < x)
  BY <1>2, <1>4 DEF R
<1>6. PICK i \in S : x = m - i
  BY DEF T
<1>7. \A k \in S : ~(m - k < m - i)
  BY <1>5, <1>6 DEF T
<1>8. QED
  BY <1>7

\* The loop over the lines of a global command takes one of them.
LEMMA NextTargetIsATarget ==
  ASSUME NEW f \in Frame, f.todo # {}
  PROVE  NextTarget(f) \in f.todo /\ NextTarget(f) \in 0..MaxLines
<1>1. f.todo \in SUBSET (0..MaxLines)
  BY DEF Frame
<1>2. \E i \in f.todo : \A k \in f.todo : i >= k
  BY <1>1, MaxLinesAssumption, HasLast
<1>3. QED
  BY <1>1, <1>2 DEF NextTarget

\* The global command being executed.
LEMMA FrameOfWork ==
  ASSUME work \in Seq(Frame), work # <<>>
  PROVE  Head(work) \in Frame /\ Tail(work) \in Seq(Frame)
BY HeadTailProperties

\* A global command sets the current line to a line that may be gone: it is clamped.
LEMMA SelectTargetIsSafe ==
  ASSUME Safe, work \in Seq(Frame), SelectTarget
  PROVE  SafeNext /\ work' \in Seq(Frame)
<1> DEFINE f == Head(work)
           t == NextTarget(f)
           skipped == f.list /\ N = 0
           pc == IF skipped THEN f.pc ELSE 1
           clamped == IF t >= N THEN N - 1 ELSE t
           g == StartOn(f, t, pc)
<1>1. f \in Frame /\ Tail(work) \in Seq(Frame) /\ f.todo # {}
  BY FrameOfWork DEF SelectTarget
<1>2. t \in 0..MaxLines /\ t + 1 \in Nat
  BY <1>1, NextTargetIsATarget
<1>3. g \in Frame
  <2>1. pc \in Nat \ {0}
    BY <1>1 DEF Frame
  <2> HIDE DEF t, pc, f
  <2>2. [f EXCEPT !.todo = @ \ {t}, !.line = t + 1, !.pc = pc] \in Frame
    BY <1>1, <1>2, <2>1 DEF Frame
  <2>3. QED
    BY <2>2 DEF StartOn
<1>4. work' \in Seq(Frame)
  <2>1. work' = <<g>> \o Tail(work)
    BY DEF SelectTarget
  <2> HIDE DEF g
  <2>2. QED
    BY <1>1, <1>3, <2>1, ConcatProperties
<1>5. Good(ed')
  <2>1. CASE ed' = ed
    BY <2>1 DEF Safe, State
  <2>2. CASE N > 0 /\ ed' = [ed EXCEPT !.current_line = clamped]
    <3>1. InBounds(clamped, N)
      <4> HIDE DEF t
      <4>1. QED
        BY <1>2, <2>2, LenN DEF InBounds
    <3> HIDE DEF clamped
    <3>2. Good([ed EXCEPT !.current_line = clamped])
      BY <3>1, FilenameType, CurrentLineIsGood DEF Safe, State
    <3>3. QED
      BY <2>2, <3>2
  <2>3. QED
    BY <2>1, <2>2 DEF SelectTarget
<1>6. QED
  BY <1>4, <1>5 DEF SelectTarget, Safe, SafeNext, OneFile, State

\* The line number put before a command.
LEMMA NumberedIsACommand ==
  ASSUME NEW c \in CommandType, NEW n \in Nat
  PROVE  /\ [c EXCEPT !.addr = <<Num(n)>> \o @] \in CommandType
         /\ [c EXCEPT !.addr = <<Num(n)>> \o @].op = c.op
<1> DEFINE addr == <<Num(n)>> \o c.addr
<1>1. addr \in Seq(Token)
  <2>1. Num(n) \in Token
    BY DEF Num, Token
  <2>2. <<Num(n)>> \in Seq(Token) /\ c.addr \in Seq(Token)
    BY <2>1, CommandFields
  <2>3. QED
    BY <2>2, ConcatProperties
<1> HIDE DEF addr
<1> DEFINE d == [c EXCEPT !.addr = addr]
<1>2. d \in CommandType
  <2> DEFINE A == Seq(Token)
             T == Seq(Text)
             C == Seq(Command)
  <2> HIDE DEF A, T, C
  <2>0. addr \in A
    BY <1>1 DEF A
  <2>1. CASE c \in [op : {"", "p", "n", "l", "d", "j", "=", "u", "q", "Q", "H", "P", "h", "#"},
                    addr : A]
    BY <2>0, <2>1 DEF CommandType, A
  <2>2. CASE c \in [op : {"a", "i", "c"}, addr : A, text : T]
    BY <2>0, <2>2 DEF CommandType, A, T
  <2>3. CASE c \in [op : {"m", "t"}, addr : A, dest : A]
    BY <2>0, <2>3 DEF CommandType, A
  <2>4. CASE c \in [op : {"k"}, addr : A, mark : Mark]
    BY <2>0, <2>4 DEF CommandType, A
  <2>5. CASE c \in [op : {"f", "w", "W", "e", "E", "r"}, addr : A,
                    file : FileName \cup {NoName}]
    BY <2>0, <2>5 DEF CommandType, A
  <2>6. CASE c \in [op : {"s"}, addr : A, sub : Substitution]
    BY <2>0, <2>6 DEF CommandType, A
  <2>7. CASE c \in [op : {"g", "v"}, addr : A, pat : SUBSET Text, list : BOOLEAN, cmds : C]
    BY <2>0, <2>7 DEF CommandType, A, C
  <2>8. QED
    BY <2>1, <2>2, <2>3, <2>4, <2>5, <2>6, <2>7 DEF CommandType, A, T, C
<1>3. [c EXCEPT !.addr = addr].op = c.op
  BY DEF CommandType
<1>4. QED
  BY <1>2, <1>3 DEF addr

\* Text read from the input for a command.
LEMMA WithTextIsACommand ==
  ASSUME NEW c \in CommandType, c.op \in {"a", "i", "c"}, NEW t \in Seq(Text)
  PROVE  [c EXCEPT !.text = t] \in CommandType
BY DEF CommandType

\* The commands are of their type.
LEMMA CommandsAreTyped == \A c \in Command : c \in CommandType
BY CommandAssumption DEF WellFormed

\* What a global command executes is a command.
LEMMA NextCommandIsACommand ==
  ASSUME NEW f \in Frame, f.pc <= Len(f.cmds), NEW d \in NextCommand(f)
  PROVE  d \in CommandType
<1> DEFINE c == f.cmds[f.pc]
           numbered == IF f.list \/ Nests(f) THEN c ELSE [c EXCEPT !.addr = <<Num(f.line)>> \o @]
<1>1. c \in CommandType
  BY CommandsAreTyped DEF Frame
<1>2. numbered \in CommandType /\ numbered.op = c.op
  BY <1>1, NumberedIsACommand DEF Frame
<1>3. Inputs \subseteq Seq(Text)
  BY CommandsAreTyped, CommandFields DEF Inputs
<1>4. CASE d = numbered
  BY <1>2, <1>4
<1>5. ASSUME c.op \in {"a", "i", "c"}, NEW t \in Inputs, d = [numbered EXCEPT !.text = t]
      PROVE  d \in CommandType
  <2> HIDE DEF numbered
  <2>1. QED
    BY <1>2, <1>3, <1>5, WithTextIsACommand
<1>6. QED
  BY <1>4, <1>5 DEF NextCommand

\* A command under a global one.
LEMMA ExecuteNestedIsSafe ==
  ASSUME Safe, work \in Seq(Frame), ExecuteNested
  PROVE  SafeNext /\ work' \in Seq(Frame) /\ last' \in Letter
<1> DEFINE f == Head(work)
           g == [f EXCEPT !.pc = @ + 1]
<1>1. f \in Frame /\ Tail(work) \in Seq(Frame) /\ f.pc <= Len(f.cmds)
  BY FrameOfWork DEF ExecuteNested
<1>2. <<g>> \o Tail(work) \in Seq(Frame)
  <2>1. g \in Frame
    <3> DEFINE pc == f.pc + 1
    <3>1. pc \in Nat \ {0}
      BY <1>1, SMTT(30) DEF Frame
    <3> HIDE DEF f, pc
    <3>2. [f EXCEPT !.pc = pc] \in Frame
      BY <1>1, <3>1 DEF Frame
    <3>3. QED
      BY <3>2 DEF pc
  <2> HIDE DEF g
  <2>2. QED
    BY <1>1, <2>1, ConcatProperties
<1>3. PICK c \in NextCommand(f) : Execute(c, <<g>> \o Tail(work))
  BY DEF ExecuteNested
<1>4. c \in CommandType
  BY <1>1, NextCommandIsACommand
<1> HIDE DEF f, g
<1>5. QED
  BY <1>2, <1>3, <1>4, ExecuteIsSafe

-----------------------------------------------------------------------------

(* The inductive invariant                                                   *)

IInv == Safe /\ work \in Seq(Frame) /\ last \in Letter /\ left \in 0..MaxCommands

\* main, with or without a file.
LEMMA InitIsSafe == Init => IInv
<1> SUFFICES ASSUME Init PROVE IInv
  OBVIOUS
<1>1. disk \in Disk
  BY ContentsAssumption DEF Init, Disk
<1>2. Good(ed)
  <2>1. CASE ed = InitEditor
    BY <2>1, InitEditorIsGood
  <2>2. ASSUME NEW f \in FileName, disk[f] # Absent, Fits(0, Len(disk[f])),
               ed = LoadFile(InitEditor, f, disk[f])
        PROVE  Good(ed)
    <3>1. disk[f] \in Seq(Text) /\ Len(disk[f]) \in Nat
      BY <1>1, <2>2 DEF Disk
    <3>2. QED
      BY <2>2, <3>1, LoadFileIsGood DEF Fits
  <2>3. QED
    BY <2>1, <2>2 DEF Init
<1>3. Safe
  BY <1>1, <1>2 DEF Init, Safe, State, Status
<1>4. work \in Seq(Frame)
  <2>1. work = <<>>
    BY DEF Init
  <2>2. QED
    BY <2>1
<1>5. last \in Letter
  <2>1. last = ""
    BY DEF Init
  <2>2. QED
    BY <2>1 DEF Letter
<1>6. left \in 0..MaxCommands
  <2>1. left = MaxCommands
    BY DEF Init
  <2>2. QED
    BY <2>1, BoundsAssumption
<1>7. QED
  BY <1>3, <1>4, <1>5, <1>6 DEF IInv

\* Every step of the editor keeps the invariant.
LEMMA NextIsSafe == IInv /\ [Next]_vars => IInv'
<1> SUFFICES ASSUME IInv, [Next]_vars PROVE IInv'
  OBVIOUS
<1> USE DEF IInv
<1>1. CASE Type
  <2> PICK c \in Typed : Execute(c, <<>>)
    BY <1>1 DEF Type
  <2>1. c \in CommandType
    BY CommandAssumption, CommandsAreTyped
  <2>2. <<>> \in Seq(Frame)
    OBVIOUS
  <2>3. SafeNext /\ work' \in Seq(Frame) /\ last' \in Letter
    BY <2>1, <2>2, ExecuteIsSafe
  <2>4. left' \in 0..MaxCommands
    BY <1>1, BoundsAssumption DEF Type
  <2>5. QED
    BY <2>3, <2>4 DEF Safe, SafeNext
<1>2. CASE SelectTarget
  <2>1. SafeNext /\ work' \in Seq(Frame)
    BY <1>2, SelectTargetIsSafe
  <2>2. QED
    BY <1>2, <2>1 DEF SelectTarget, Safe, SafeNext
<1>3. CASE ExecuteNested
  <2>1. SafeNext /\ work' \in Seq(Frame) /\ last' \in Letter
    BY <1>3, ExecuteNestedIsSafe
  <2>2. left' = left
    BY <1>3 DEF ExecuteNested
  <2>3. QED
    BY <2>1, <2>2 DEF Safe, SafeNext
<1>4. CASE EndGlobal
  <2>1. work' \in Seq(Frame)
    BY <1>4, FrameOfWork DEF EndGlobal
  <2>2. QED
    BY <1>4, <2>1 DEF EndGlobal, Safe, State
<1>5. CASE EndOfInput
  BY <1>5 DEF EndOfInput, Exit, Safe, State, Status, Letter
<1>6. CASE UNCHANGED vars
  BY <1>6 DEF vars, Safe, State
<1>7. QED
  BY <1>1, <1>2, <1>3, <1>4, <1>5, <1>6 DEF Next, NestedStep, Ended

\* The invariant holds throughout.
LEMMA Invariance == Spec => []IInv
<1>1. QED
  BY InitIsSafe, NextIsSafe, PTL DEF Spec

\* The invariant gives the types...
LEMMA SafeIsTyped == IInv => TypeOK
BY DEF IInv, Safe, State, Good, Status, TypeOK, N

\* ... and the bounds of the current line.
LEMMA SafeIsInBounds == IInv => CursorInBounds
BY DEF IInv, Safe, State, Good, InBounds, CursorInBounds, N

\* Whatever is typed, the buffer stays an array of lines that fits the memory, and every
\* other variable keeps its type: an operation of ed.c
\* that gets as far as its loops reads lines of the buffer only.
THEOREM TypeCorrect == Spec => []TypeOK
<1>1. QED
  BY Invariance, SafeIsTyped, PTL

\* Whatever is typed, in commands and under global commands, the current line is a line
\* of the buffer or the place after its last one, and so is the one u restores: no function
\* needs a bound on it that another function does not establish.
THEOREM CursorStaysInBounds == Spec => []CursorInBounds
<1>1. QED
  BY Invariance, SafeIsInBounds, PTL

\* In every buffer the editor comes to hold, move_range and copy_range take the range
\* out and put it in after the destination, although they work in place.
THEOREM ShiftsAlwaysSplice == Spec => []ShiftsAreSplices
<1>1. IInv => ShiftsAreSplices
  <2> SUFFICES ASSUME IInv, NEW a \in 0..N-1, NEW b \in 0..N-1, NEW dest \in 0..N-1, a <= b
               PROVE  LET r    == [start |-> a, end |-> b]
                          part == SubSeq(ed.lines, a + 1, b + 1)
                      IN  /\ CopySlots(ed.lines, r, dest, Width(r)) =
                               Splice(ed.lines, dest + 1, part)
                          /\ dest \notin a..b =>
                               MoveLines(ed.lines, r, dest) =
                                 Splice(Cut(ed.lines, a, Width(r)),
                                        (IF dest > b THEN dest - Width(r) ELSE dest) + 1, part)
    BY DEF ShiftsAreSplices
  <2>1. ed.lines \in Seq(Text) /\ N = Len(ed.lines) /\ N \in Nat
    BY FilenameType, LenN DEF IInv
  <2>2. b \in a..Len(ed.lines) - 1
    BY <2>1
  <2>3. QED
    BY <2>1, <2>2, CopyIsSplice, MoveIsSplice
<1>2. QED
  BY <1>1, Invariance, PTL

-----------------------------------------------------------------------------
(* Undo and failure                                                          *)

\* x can be taken back to e by one u
Back(e, x) ==
  /\ x.undo_valid
  /\ x.undo_lines = e.lines
  /\ x.undo_current_line = e.current_line

\* Every function of ed.c but change_range, whose snapshot is that of insert_line, saves
\* the structure it is given.
LEMMA OperationsSave ==
  ASSUME NEW e \in EditorType
  PROVE  /\ Back(e, PrepareUndo(e))
         /\ \A addr, text : Back(e, AppendLine(e, addr, text))
         /\ \A addr, text : Back(e, InsertLine(e, addr, text))
         /\ \A addr, text : Back(e, ReadFileAtAddress(e, addr, text))
         /\ \A r : Back(e, DeleteRange(e, r))
         /\ \A r, dest : Back(e, MoveRange(e, r, dest))
         /\ \A r, dest : Back(e, CopyRange(e, r, dest))
         /\ \A r : Back(e, JoinRange(e, r))
         /\ \A r, sub : Back(e, SubstituteRange(e, r, sub))
<1>1. Back(e, PrepareUndo(e))
  BY DEF Back, PrepareUndo, EditorType
<1>4. ASSUME NEW addr, NEW text PROVE Back(e, AppendLine(e, addr, text))
  BY DEF AppendLine, Back, PrepareUndo, EditorType
<1>5. ASSUME NEW addr, NEW text PROVE Back(e, InsertLine(e, addr, text))
  BY DEF InsertLine, Back, PrepareUndo, EditorType
<1>6. ASSUME NEW r PROVE Back(e, DeleteRange(e, r))
  BY DEF DeleteRange, Back, PrepareUndo, EditorType
<1>7. ASSUME NEW r, NEW dest PROVE Back(e, MoveRange(e, r, dest))
  BY DEF MoveRange, Back, PrepareUndo, EditorType
<1>8. ASSUME NEW r, NEW dest PROVE Back(e, CopyRange(e, r, dest))
  BY DEF CopyRange, Back, PrepareUndo, EditorType
<1>9. ASSUME NEW r PROVE Back(e, JoinRange(e, r))
  BY DEF JoinRange, Back, PrepareUndo, EditorType
<1>10. ASSUME NEW r, NEW sub PROVE Back(e, SubstituteRange(e, r, sub))
  BY DEF SubstituteRange, Back, PrepareUndo, EditorType
<1>11. \A addr, text : Back(e, ReadFileAtAddress(e, addr, text))
  BY <1>1, <1>4 DEF ReadFileAtAddress
<1>12. QED
  BY <1>1, <1>4, <1>5, <1>6, <1>7, <1>8, <1>9, <1>10, <1>11

\* Changing the current line, a mark, the name or the dirty flag leaves the lines alone.
LEMMA SettingsKeepLines ==
  ASSUME NEW e \in EditorType
  PROVE  /\ \A i : [e EXCEPT !.current_line = i].lines = e.lines
         /\ \A f : [e EXCEPT !.filename = f].lines = e.lines
         /\ \A d, f : [e EXCEPT !.dirty = d, !.filename = f].lines = e.lines
         /\ \A m, i, j : [e EXCEPT !.marks[m] = i, !.current_line = j].lines = e.lines
BY DEF EditorType

\* The commands that set a field or write a file leave the lines alone.
LEMMA StillKeepsLines ==
  ASSUME NEW c, ed \in EditorType,
         BareAddress(c) \/ ShowRange(c) \/ SetMark(c) \/ SetFilename(c) \/ Write(c)
  PROVE  ed'.lines = ed.lines
<1>1. CASE BareAddress(c)
  <2>1. ASSUME NEW i, ed' = [ed EXCEPT !.current_line = i] PROVE ed'.lines = ed.lines
    BY <2>1, SettingsKeepLines
  <2>2. QED
    BY <1>1, <2>1 DEF BareAddress, Do, Error, Fail
<1>2. CASE ShowRange(c)
  BY <1>2, SettingsKeepLines DEF ShowRange, Do
<1>3. CASE SetMark(c)
  <2>1. ASSUME NEW m, NEW i, ed' = [ed EXCEPT !.marks[m] = i, !.current_line = i]
        PROVE  ed'.lines = ed.lines
    BY <2>1, SettingsKeepLines
  <2>2. QED
    BY <1>3, <2>1 DEF SetMark, Do, Error, Fail
<1>4. CASE SetFilename(c)
  <2>1. ASSUME NEW f, ed' = [ed EXCEPT !.filename = f] PROVE ed'.lines = ed.lines
    BY <2>1, SettingsKeepLines
  <2>2. QED
    BY <1>4, <2>1 DEF SetFilename, Do, Error, Fail
<1>5. CASE Write(c)
  <2>1. ASSUME NEW f, ed' = [ed EXCEPT !.dirty = FALSE, !.filename = f]
        PROVE  ed'.lines = ed.lines
    BY <2>1, SettingsKeepLines
  <2>2. QED
    BY <1>5, <2>1 DEF Write, Error, Fail
<1>6. QED
  BY <1>1, <1>2, <1>3, <1>4, <1>5

\* A command that changes lines, of those that are not exempt, saves the structure first.
LEMMA SimpleSaves ==
  ASSUME NEW c, Safe, Simple(c), c.op \notin {"c", "u", "e", "E"}
  PROVE  ed'.lines = ed.lines \/ Back(ed, ed')
<1>1. ed \in EditorType
  BY DEF Safe, State, Good
<1>2. CASE ed' = ed
  BY <1>2
<1>3. CASE BareAddress(c) \/ ShowRange(c) \/ SetMark(c) \/ SetFilename(c) \/ Write(c)
  BY <1>1, <1>3, StillKeepsLines
<1>4. CASE Delete(c) \/ Join(c) \/ Move(c) \/ Copy(c)
  BY <1>1, <1>2, <1>4, OperationsSave
     DEF Delete, Join, Move, Copy, CopyFails, Do, Fail, Undefined, CriticalError
<1>5. CASE Substitute(c) \/ AppendText(c) \/ InsertText(c) \/ Read(c)
  BY <1>1, <1>2, <1>5, OperationsSave
     DEF Substitute, AppendText, InsertText, Read, Do, Error, Fail, Undefined, Loop, CriticalError
<1>6. CASE Unreadable(c) \/ OutOfRange(c) \/ NoDestination(c) \/ PrintNumber(c) \/ Other(c)
             \/ Quit(c) \/ ForcedQuit(c) \/ WriteAppend(c)
  BY <1>2, <1>6 DEF Unreadable, OutOfRange, NoDestination, PrintNumber, Other, Quit, ForcedQuit,
                    WriteAppend, Do, Error, Fail, Undefined, Exit
<1>7. CASE Change(c) \/ UndoCommand(c) \/ Edit(c)
  BY <1>7 DEF Change, UndoCommand, Edit
<1>8. QED
  BY <1>3, <1>4, <1>5, <1>6, <1>7 DEF Simple

\* A global command changes no line by itself.
LEMMA ExecuteSaves ==
  ASSUME NEW c, NEW rest, Safe, Execute(c, rest), last' \notin {"c", "u", "e", "E"}
  PROVE  ed'.lines = ed.lines \/ Back(ed, ed')
<1>1. CASE Simple(c)
  BY <1>1, SimpleSaves DEF Execute
<1>2. CASE Global(c, rest)
  BY <1>2 DEF Global, Do, Error, Fail, CriticalError
<1>3. QED
  BY <1>1, <1>2 DEF Execute

\* Whatever one command other than c, u, e and E does to the lines, at the prompt or under
\* a global command, the snapshot it leaves is the buffer before it: prepare_undo is called
\* before the first change on every path, and not again after it.
THEOREM CommandsAreUndone == Spec => OneCommandIsUndone
<1>1. IInv /\ [Next]_vars =>
        [(last' \notin {"u", "e", "E", "c"} /\ ed'.lines # ed.lines) => UndoTakesBack]_vars
  <2> SUFFICES ASSUME Safe, Next, last' \notin {"u", "e", "E", "c"}
               PROVE  ed'.lines = ed.lines \/ Back(ed, ed')
    BY DEF IInv, Back, UndoTakesBack, vars
  <2>1. CASE Type
    BY <2>1, ExecuteSaves DEF Type
  <2>2. CASE SelectTarget
    BY <2>2, SettingsKeepLines DEF SelectTarget, Safe, State, Good
  <2>3. CASE ExecuteNested
    BY <2>3, ExecuteSaves DEF ExecuteNested
  <2>4. CASE EndGlobal \/ EndOfInput \/ Ended
    BY <2>4 DEF EndGlobal, EndOfInput, Ended, Exit, vars
  <2>5. QED
    BY <2>1, <2>2, <2>3, <2>4 DEF Next, NestedStep
<1>2. QED
  BY <1>1, Invariance, PTL DEF Spec, OneCommandIsUndone

\* What a command that prints "?" has made of the structure.
Harmless(e, x) ==
  \A field \in {"lines", "current_line", "marks", "dirty", "filename"} : x[field] = e[field]

\* The snapshot is taken beside the buffer.
LEMMA PrepareUndoIsHarmless ==
  ASSUME NEW e \in EditorType
  PROVE  Harmless(e, PrepareUndo(e)) /\ Harmless(e, e)
BY DEF Harmless, PrepareUndo, EditorType

\* A command that prints "?" has at most taken its snapshot.
LEMMA FailedSimpleIsHarmless ==
  ASSUME NEW c, Safe, Simple(c), failed', c.op \notin {"e", "E"}
  PROVE  Harmless(ed, ed')
<1>1. ed' = ed => Harmless(ed, ed')
  BY DEF Harmless
<1>2. ed' = PrepareUndo(ed) => Harmless(ed, ed')
  BY PrepareUndoIsHarmless DEF Safe, State, Good
<1>3. \A e : ~Do(e)
  BY DEF Do
<1>4. CASE BareAddress(c) \/ ShowRange(c) \/ SetMark(c) \/ SetFilename(c)
  BY <1>1, <1>3, <1>4 DEF BareAddress, ShowRange, SetMark, SetFilename, Error, Fail
<1>5. CASE Delete(c) \/ Change(c) \/ Join(c) \/ Move(c) \/ Copy(c)
  BY <1>1, <1>2, <1>3, <1>5
     DEF Delete, Change, Join, Move, Copy, CopyFails, Fail, Undefined, CriticalError
<1>6. CASE Substitute(c)
  BY <1>1, <1>2, <1>3, <1>6 DEF Substitute, Fail, Loop, SubstituteRange
<1>7. CASE AppendText(c) \/ InsertText(c) \/ Read(c)
  BY <1>1, <1>2, <1>3, <1>7 DEF AppendText, InsertText, Read, Error, Fail, Undefined, CriticalError
<1>8. CASE Unreadable(c) \/ OutOfRange(c) \/ NoDestination(c) \/ PrintNumber(c) \/ Other(c)
             \/ Quit(c) \/ ForcedQuit(c) \/ UndoCommand(c)
  BY <1>1, <1>3, <1>8 DEF Unreadable, OutOfRange, NoDestination, PrintNumber, Other, Quit,
                          ForcedQuit, UndoCommand, Error, Fail, Undefined, Exit
<1>9. CASE Write(c) \/ WriteAppend(c) \/ Edit(c)
  BY <1>1, <1>9 DEF Write, WriteAppend, Edit, Error, Fail
<1>10. QED
  BY <1>4, <1>5, <1>6, <1>7, <1>8, <1>9 DEF Simple

\* Whatever is typed, a command that prints "?" has changed neither the buffer nor the
\* current line, the marks, the dirty flag or the file name, e and E excepted.
THEOREM FailuresAreHarmless == Spec => FailureIsHarmless
<1>1. IInv /\ [Next]_vars =>
        [(failed' /\ last' \notin {"e", "E"} /\ ed' # ed /\ work' = <<>>) =>
           \A field \in {"lines", "current_line", "marks", "dirty", "filename"} :
             ed'[field] = ed[field]]_vars
  <2> SUFFICES ASSUME Safe, Next, failed', last' \notin {"e", "E"}, ed' # ed, work' = <<>>,
                      work \in Seq(Frame)
               PROVE  Harmless(ed, ed')
    BY DEF IInv, Harmless, vars
  <2>1. ASSUME NEW c, NEW rest, Execute(c, rest) PROVE Harmless(ed, ed')
    <3>1. CASE Simple(c)
      BY <2>1, <3>1, FailedSimpleIsHarmless DEF Execute
    <3>2. CASE Global(c, rest)
      BY <3>2 DEF Global, Do, Error, Fail, CriticalError
    <3>3. QED
      BY <2>1, <3>1, <3>2 DEF Execute
  <2>2. ~SelectTarget
    <3>1. ASSUME NEW g PROVE <<g>> \o Tail(work) # <<>> \/ ~SelectTarget
      BY FrameOfWork DEF SelectTarget
    <3>2. QED
      BY <3>1 DEF SelectTarget
  <2>3. ~(EndGlobal \/ EndOfInput \/ Ended)
    BY DEF EndGlobal, EndOfInput, Ended, Exit, vars
  <2>4. QED
    BY <2>1, <2>2, <2>3 DEF Next, NestedStep, Type, ExecuteNested
<1>2. QED
  BY <1>1, Invariance, PTL DEF Spec, FailureIsHarmless

-----------------------------------------------------------------------------
(* The editor keeps the promise of EdStore.  The promise is about files that  *)
(* have room for the buffer, and that do not outgrow what they may hold.      *)

ThereIsRoom == MaxLines <= MaxFile /\ \A x \in Contents : Len(x) <= MaxFile

FilesFit == \A f \in FileName : disk[f] # Absent => Len(disk[f]) <= MaxFile

\* An operation leaves the name, and whenever it changes the lines it marks them changed.
Admits(e, x) ==
  /\ x.filename = e.filename
  /\ x.dirty = TRUE \/ (x.lines = e.lines /\ x.dirty = e.dirty)

\* So do all functions of ed.c that edit.
LEMMA OperationsAdmit ==
  ASSUME NEW e \in EditorType
  PROVE  /\ Admits(e, e) /\ Admits(e, PrepareUndo(e)) /\ Admits(e, Undo(e))
         /\ \A addr, text : Admits(e, AppendLine(e, addr, text))
         /\ \A addr, text : Admits(e, InsertLine(e, addr, text))
         /\ \A addr, text : Admits(e, ReadFileAtAddress(e, addr, text))
         /\ \A r : Admits(e, DeleteRange(e, r))
         /\ \A r, text : Admits(e, ChangeRange(e, r, text))
         /\ \A r, dest : Admits(e, MoveRange(e, r, dest))
         /\ \A r, dest : Admits(e, CopyRange(e, r, dest))
         /\ \A r : Admits(e, JoinRange(e, r))
         /\ \A r, sub : Admits(e, SubstituteRange(e, r, sub))
         /\ \A i : Admits(e, [e EXCEPT !.current_line = i])
         /\ \A m, i : Admits(e, [e EXCEPT !.marks[m] = i, !.current_line = i])
<1>1. Admits(e, e) /\ Admits(e, PrepareUndo(e)) /\ Admits(e, Undo(e))
  BY DEF Admits, PrepareUndo, Undo, EditorType
<1>2. \A addr, text : Admits(e, AppendLine(e, addr, text))
  BY DEF AppendLine, Admits, PrepareUndo, EditorType
<1>3. \A addr, text : Admits(e, InsertLine(e, addr, text))
  BY DEF InsertLine, Admits, PrepareUndo, EditorType
<1>4. \A addr, text : Admits(e, ReadFileAtAddress(e, addr, text))
  BY <1>1, <1>2 DEF ReadFileAtAddress
<1>5. \A r : Admits(e, DeleteRange(e, r))
  BY DEF DeleteRange, Admits, PrepareUndo, EditorType
<1>6. ASSUME NEW r, NEW text PROVE Admits(e, ChangeRange(e, r, text))
  BY DEF ChangeRange, InsertLine, DeleteRange, Admits, PrepareUndo, EditorType
<1>7. \A r, dest : Admits(e, MoveRange(e, r, dest))
  BY DEF MoveRange, Admits, PrepareUndo, EditorType
<1>8. \A r, dest : Admits(e, CopyRange(e, r, dest))
  BY DEF CopyRange, Admits, PrepareUndo, EditorType
<1>9. \A r : Admits(e, JoinRange(e, r))
  BY DEF JoinRange, Admits, PrepareUndo, EditorType
<1>10. \A r, sub : Admits(e, SubstituteRange(e, r, sub))
  BY DEF SubstituteRange, Admits, PrepareUndo, EditorType
<1>11. \A i : Admits(e, [e EXCEPT !.current_line = i])
  BY DEF Admits, EditorType
<1>12. \A m, i : Admits(e, [e EXCEPT !.marks[m] = i, !.current_line = i])
  BY DEF Admits, EditorType
<1>13. QED
  BY <1>1, <1>2, <1>3, <1>4, <1>5, <1>6, <1>7, <1>8, <1>9, <1>10, <1>11, <1>12

\* What a step of the editor is of the store: an edit or a look...
LEMMA AdmittedSteps ==
  ASSUME Safe, SafeNext, status = "running", Admits(ed, ed'), UNCHANGED <<disk, status>>
  PROVE  Store!Next
<1>1. ed'.lines \in Seq(Text)
  BY DEF SafeNext, State, Good, EditorType
<1>2. CASE ed'.dirty = TRUE
  BY <1>1, <1>2 DEF Admits, Store!Next, Store!Edit
<1>3. CASE ed'.lines = ed.lines /\ ed'.dirty = ed.dirty
  BY <1>3 DEF Admits, Store!Next, Store!Look
<1>4. QED
  BY <1>2, <1>3 DEF Admits

\* ... or a breakdown.
LEMMA BreakingSteps ==
  ASSUME SafeNext, status = "running", NEW name, NEW kept,
         Undefined \/ Loop \/ CriticalError(name, kept)
  PROVE  Store!Next
BY DEF Undefined, Loop, CriticalError, SafeNext, OneFile, Store!Next, Store!Break

\* What w stores is the buffer.
LEMMA StoredWhole ==
  ASSUME Safe, ThereIsRoom
  PROVE  OnDisk(ed.lines) = ed.lines
<1>1. ed.lines \in Seq(Text) /\ Len(ed.lines) <= MaxLines /\ Len(ed.lines) \in Nat
  BY FieldsOf DEF Safe, State
<1>2. OnDisk(ed.lines) = SubSeq(ed.lines, 1, Len(ed.lines))
  BY <1>1, BoundsAssumption, MaxLinesAssumption DEF OnDisk, ThereIsRoom
<1>3. SubSeq(ed.lines, 1, Len(ed.lines)) = ed.lines
  BY <1>1
<1>4. QED
  BY <1>2, <1>3

\* What W leaves of a file is what it held and a part of what was added, as room permits.
LEMMA StoredInPart ==
  ASSUME NEW old \in Seq(Text), NEW part \in Seq(Text), Len(old) <= MaxFile
  PROVE  LET new == OnDisk(old \o part)
         IN  new \in Seq(Text) /\ Len(old) <= Len(new) /\ Len(new) <= MaxFile
             /\ SubSeq(new, 1, Len(old)) = old
<1> DEFINE all == old \o part
           n == IF Len(all) <= MaxFile THEN Len(all) ELSE MaxFile
           new == SubSeq(all, 1, n)
           k == Len(old)
<1>1. all \in Seq(Text) /\ k \in Nat /\ k <= Len(all) /\ Len(all) \in Nat
      /\ \A i \in 1..k : all[i] = old[i]
  OBVIOUS
<1>2. n \in Nat /\ k <= n /\ n <= MaxFile /\ n <= Len(all)
  BY <1>1, BoundsAssumption
<1> HIDE DEF all, n
<1>3. new \in Seq(Text) /\ Len(new) = n /\ \A i \in 1..n : new[i] = all[i]
  BY <1>1, <1>2
<1> HIDE DEF new
<1>4. SubSeq(new, 1, k) = old
  <2>1. SubSeq(new, 1, k) \in Seq(Text) /\ Len(SubSeq(new, 1, k)) = k
        /\ \A i \in 1..k : SubSeq(new, 1, k)[i] = new[i]
    BY <1>1, <1>2, <1>3
  <2>2. \A i \in 1..k : SubSeq(new, 1, k)[i] = old[i]
    BY <1>1, <1>2, <1>3, <2>1
  <2>3. QED
    BY <2>1, <2>2
<1>5. OnDisk(old \o part) = new
  BY DEF OnDisk, new, n, all
<1>6. QED
  BY <1>2, <1>3, <1>4, <1>5

\* w and W.
LEMMA WritingSteps ==
  ASSUME NEW c \in CommandType, Safe, SafeNext, ThereIsRoom, FilesFit, status = "running",
         Write(c) \/ WriteAppend(c), last' = c.op
  PROVE  Store!Next
<1>1. ed \in EditorType /\ Admits(ed, ed)
  BY OperationsAdmit DEF Safe, State, Good
<1>2. CASE Error
  BY <1>1, <1>2, AdmittedSteps DEF Error, Fail
<1>3. CASE Write(c) /\ ~Error
  <2> DEFINE target == IF c.file # NoName THEN c.file ELSE ed.filename
  <2>1. /\ c.op = "w" /\ target # NoName
        /\ disk' = [disk EXCEPT ![target] = OnDisk(ed.lines)]
        /\ ed' = [ed EXCEPT !.dirty = FALSE, !.filename = target] /\ status' = status
    BY <1>3 DEF Write
  <2>2. target \in FileName
    BY <2>1, CommandFields, FilenameType
  <2> HIDE DEF target
  <2>3. disk' = [disk EXCEPT ![target] = ed.lines]
    BY <2>1, StoredWhole
  <2>4. ed'.lines = ed.lines /\ ed'.filename = target /\ ed'.dirty = FALSE
    BY <1>1, <2>1 DEF EditorType
  <2>5. Store!Save(target)
    BY <2>1, <2>3, <2>4 DEF Store!Save
  <2>6. QED
    BY <2>2, <2>5 DEF Store!Next
<1>4. CASE WriteAppend(c) /\ ~Error
  <2> DEFINE r == WholeRange(Parse(c), N)
             old == IF disk[c.file] = Absent THEN <<>> ELSE disk[c.file]
             a == r.start + 1
             b == r.end + 1
             part == SubSeq(ed.lines, a, b)
  <2>1. /\ c.op = "W" /\ c.file # NoName /\ InBuffer(r, N)
        /\ disk' = [disk EXCEPT ![c.file] = OnDisk(old \o part)] /\ UNCHANGED <<ed, status>>
    BY <1>4 DEF WriteAppend
  <2>2. c.file \in FileName
    BY <2>1, CommandFields
  <2>3. old \in Seq(Text) /\ Len(old) <= MaxFile /\ (disk[c.file] # Absent => old = disk[c.file])
    <3>1. Len(<<>>) = 0 /\ <<>> \in Seq(Text)
      OBVIOUS
    <3>2. QED
      BY <2>2, <3>1, DiskType, BoundsAssumption DEF FilesFit
  <2>4. a \in Int /\ b \in Int /\ \A i \in a..b : ed.lines[i] \in Text
    BY <2>1, FilenameType, LenN DEF InBuffer
  <2> HIDE DEF r, a, b, old
  <2>5. part \in Seq(Text)
    BY <2>4, SubSeqProperties
  <2> HIDE DEF part
  <2> DEFINE new == OnDisk(old \o part)
  <2>6. new \in Seq(Text) /\ Len(old) <= Len(new) /\ SubSeq(new, 1, Len(old)) = old
    BY <2>3, <2>5, StoredInPart
  <2>7. disk'[c.file] = new /\ disk' = [disk EXCEPT ![c.file] = disk'[c.file]]
    BY <2>1, <2>2 DEF Safe, State, Disk
  <2> HIDE DEF new
  <2>8. Store!Extend(c.file)
    BY <2>1, <2>3, <2>6, <2>7 DEF Store!Extend
  <2>9. QED
    BY <2>2, <2>8 DEF Store!Next
<1>5. QED
  BY <1>2, <1>3, <1>4

\* e and E.
LEMMA VisitingSteps ==
  ASSUME NEW c \in CommandType, Safe, SafeNext, status = "running", Edit(c), last' = c.op
  PROVE  Store!Next
<1>1. ed \in EditorType /\ Admits(ed, ed)
  BY OperationsAdmit DEF Safe, State, Good
<1>2. CASE Error
  BY <1>1, <1>2, AdmittedSteps DEF Error, Fail
<1>3. CASE Undefined \/ \E name, kept : CriticalError(name, kept)
  BY <1>3, BreakingSteps
<1>4. ASSUME c.file # NoName, c.op = "E" \/ (c.op = "e" /\ ~ed.dirty), UNCHANGED <<disk, status>>,
             ed'.dirty = FALSE,
             \/ ed'.lines = <<>> /\ ed'.filename = NoName
             \/ ed'.lines = disk[c.file] /\ disk[c.file] # Absent /\ ed'.filename = c.file
      PROVE  Store!Next
  <2>1. c.file \in FileName
    BY <1>4, CommandFields
  <2>2. Store!Visit(c.file)
    BY <1>4 DEF Store!Visit
  <2>3. QED
    BY <2>1, <2>2 DEF Store!Next
<1>5. CASE c.file # NoName /\ ~(c.op = "e" /\ ed.dirty) /\ Fail(InitEditor)
  BY <1>4, <1>5 DEF Fail, InitEditor, Edit
<1>6. CASE /\ c.file # NoName /\ ~(c.op = "e" /\ ed.dirty) /\ disk[c.file] # Absent
           /\ Do(LoadFile(InitEditor, c.file, disk[c.file]))
  <2>1. disk[c.file] \in Seq(Text)
    BY <1>6, CommandFields, DiskType DEF Edit
  <2>2. <<>> \o disk[c.file] = disk[c.file]
    BY <2>1
  <2>3. ed'.lines = disk[c.file] /\ ed'.filename = c.file /\ ed'.dirty = FALSE
    BY <1>6, <2>2 DEF Do, LoadFile, InitEditor
  <2>4. QED
    BY <1>4, <1>6, <2>3 DEF Do, Edit
<1>7. QED
  BY <1>2, <1>3, <1>5, <1>6 DEF Edit

\* Every command but g and v.
LEMMA SimpleKeepsPromise ==
  ASSUME NEW c \in CommandType, Safe, SafeNext, ThereIsRoom, FilesFit, status = "running",
         Simple(c), last' = c.op
  PROVE  Store!Next
<1>1. ed \in EditorType /\ Admits(ed, ed)
  BY OperationsAdmit DEF Safe, State, Good
<1>2. ASSUME NEW e, Admits(ed, e), Do(e) \/ Fail(e) PROVE Store!Next
  BY <1>2, AdmittedSteps DEF Do, Fail
<1>3. Error => Store!Next
  BY <1>1, <1>2 DEF Error
<1>4. CASE BareAddress(c) \/ ShowRange(c) \/ SetMark(c)
  <2>1. CASE BareAddress(c)
    BY <1>1, <1>2, <1>3, <2>1, OperationsAdmit DEF BareAddress
  <2>2. CASE ShowRange(c)
    BY <1>1, <1>2, <2>2, OperationsAdmit DEF ShowRange
  <2>3. CASE SetMark(c)
    BY <1>1, <1>2, <1>3, <2>3, OperationsAdmit DEF SetMark
  <2>4. QED
    BY <1>4, <2>1, <2>2, <2>3
<1>5. CASE Delete(c) \/ Change(c) \/ Join(c) \/ Move(c) \/ Copy(c)
  BY <1>1, <1>2, <1>5, OperationsAdmit, BreakingSteps, FailedCopyEnds
     DEF Delete, Change, Join, Move, Copy
<1>6. CASE Substitute(c) \/ AppendText(c) \/ InsertText(c) \/ Read(c)
  BY <1>1, <1>2, <1>3, <1>6, OperationsAdmit, BreakingSteps
     DEF Substitute, AppendText, InsertText, Read
<1>7. CASE Unreadable(c) \/ OutOfRange(c) \/ NoDestination(c) \/ PrintNumber(c) \/ Other(c)
             \/ UndoCommand(c)
  BY <1>1, <1>2, <1>3, <1>7, OperationsAdmit, BreakingSteps
     DEF Unreadable, OutOfRange, NoDestination, PrintNumber, Other, UndoCommand
<1>8. CASE Quit(c) \/ ForcedQuit(c)
  BY <1>3, <1>8 DEF Quit, ForcedQuit, Exit, Store!Next, Store!Close
<1>9. CASE SetFilename(c)
  <2>1. CASE c.file # NoName /\ Do([ed EXCEPT !.filename = c.file])
    <3>1. c.file \in FileName /\ c.op = "f"
      BY <1>9, <2>1, CommandFields DEF SetFilename
    <3>2. ed'.lines = ed.lines /\ ed'.filename = c.file /\ ed'.dirty = ed.dirty
          /\ UNCHANGED <<disk, status>>
      BY <1>1, <2>1 DEF Do, EditorType
    <3>3. Store!Rename(c.file)
      BY <3>1, <3>2 DEF Store!Rename
    <3>4. QED
      BY <3>1, <3>3 DEF Store!Next
  <2>2. CASE Do(ed) \/ Error
    BY <1>1, <1>2, <1>3, <2>2
  <2>3. QED
    BY <1>9, <2>1, <2>2 DEF SetFilename
<1>10. CASE Write(c) \/ WriteAppend(c)
  BY <1>10, WritingSteps
<1>11. CASE Edit(c)
  BY <1>11, VisitingSteps
<1>12. QED
  BY <1>4, <1>5, <1>6, <1>7, <1>8, <1>9, <1>10, <1>11 DEF Simple

LEMMA ExecuteKeepsPromise ==
  ASSUME NEW c \in CommandType, NEW rest, Safe, SafeNext, ThereIsRoom, FilesFit, status = "running",
         Execute(c, rest)
  PROVE  Store!Next
<1>1. CASE Simple(c)
  BY <1>1, SimpleKeepsPromise DEF Execute
<1>2. CASE Global(c, rest)
  <2>1. Do(ed) \/ Error \/ CriticalError(ed.filename, ed.lines)
    BY <1>2 DEF Global
  <2>2. Admits(ed, ed)
    BY DEF Admits
  <2>3. QED
    BY <2>1, <2>2, AdmittedSteps, BreakingSteps DEF Do, Error, Fail
<1>3. QED
  BY <1>1, <1>2 DEF Execute

LEMMA NextKeepsPromise ==
  ASSUME IInv, IInv', ThereIsRoom, FilesFit, [Next]_vars
  PROVE  FilesFit' /\ [Store!Next]_(Store!vars)
<1> USE DEF IInv
<1>1. ASSUME SafeNext PROVE FilesFit'
  <2>1. CASE disk' = disk
    BY <2>1 DEF FilesFit
  <2>2. ASSUME NEW f \in FileName, disk' = [disk EXCEPT ![f] = disk'[f]], Len(disk'[f]) <= MaxFile
        PROVE  FilesFit'
    <3>1. \A g \in FileName : g # f => disk'[g] = disk[g]
      BY <2>2 DEF Safe, State, Disk
    <3>2. QED
      BY <2>2, <3>1 DEF FilesFit
  <2>3. QED
    BY <1>1, <2>1, <2>2 DEF SafeNext, OneFile
<1>2. CASE Type
  <2>1. PICK c \in Typed : Execute(c, <<>>)
    BY <1>2 DEF Type
  <2>2. c \in CommandType /\ <<>> \in Seq(Frame) /\ status = "running"
    BY <1>2, CommandAssumption, CommandsAreTyped DEF Type
  <2>3. SafeNext
    BY <2>1, <2>2, ExecuteIsSafe
  <2>4. QED
    BY <1>1, <2>1, <2>2, <2>3, ExecuteKeepsPromise
<1>3. CASE ExecuteNested
  <2>1. SafeNext
    BY <1>3, ExecuteNestedIsSafe
  <2>2. PICK c \in NextCommand(Head(work)), rest \in {<<[Head(work) EXCEPT !.pc = @ + 1]>> \o Tail(work)} :
          Execute(c, rest)
    BY <1>3 DEF ExecuteNested
  <2>3. c \in CommandType
    BY <1>3, <2>2, FrameOfWork, NextCommandIsACommand DEF ExecuteNested
  <2>4. status = "running"
    BY <1>3 DEF ExecuteNested
  <2>5. QED
    BY <1>1, <2>1, <2>2, <2>3, <2>4, ExecuteKeepsPromise
<1>4. CASE SelectTarget
  <2>1. SafeNext
    BY <1>4, SelectTargetIsSafe
  <2>2. Admits(ed, ed') /\ status = "running" /\ UNCHANGED <<disk, status>>
    BY <1>4, OperationsAdmit DEF SelectTarget, Safe, State, Good
  <2>3. QED
    BY <1>1, <2>1, <2>2, AdmittedSteps
<1>5. CASE EndOfInput
  BY <1>5 DEF EndOfInput, Exit, FilesFit, Store!Next, Store!Close
<1>6. CASE EndGlobal \/ UNCHANGED vars
  BY <1>6 DEF EndGlobal, vars, FilesFit, Store!vars
<1>7. QED
  BY <1>2, <1>3, <1>4, <1>5, <1>6 DEF Next, NestedStep, Ended

LEMMA InitKeepsPromise ==
  ASSUME Init, ThereIsRoom
  PROVE  FilesFit /\ Store!Init
<1>1. FilesFit
  BY DEF Init, FilesFit, ThereIsRoom
<1>2. disk \in [FileName -> Seq(Text) \cup {Absent}]
  BY ContentsAssumption DEF Init
<1>3. ed.dirty = FALSE /\ \/ ed.lines = <<>> /\ ed.filename = NoName
                          \/ ed.filename \in FileName /\ ed.lines = disk[ed.filename]
  <2>1. CASE ed = InitEditor
    BY <2>1 DEF InitEditor
  <2>2. ASSUME NEW f \in FileName, disk[f] # Absent, ed = LoadFile(InitEditor, f, disk[f])
        PROVE  ed.dirty = FALSE /\ ed.filename = f /\ ed.lines = disk[f]
    <3>1. disk[f] \in Seq(Text)
      BY <1>2, <2>2
    <3>2. <<>> \o disk[f] = disk[f]
      BY <3>1
    <3>3. QED
      BY <2>2, <3>2 DEF LoadFile, InitEditor
  <2>3. QED
    BY <2>1, <2>2 DEF Init
<1>4. QED
  BY <1>1, <1>2, <1>3 DEF Init, Store!Init

\* Where the files have room for the buffer: text is lost only by E, Q, the end of the
\* input or a breakdown.  Every command that changes lines, typed or under global commands,
\* leaves the buffer dirty; only w, e and E make it clean; q and e need it clean; and what
\* w stores is the buffer.
THEOREM EditorKeepsThePromise == ThereIsRoom => (Spec => KeepsThePromise)
<1> SUFFICES ASSUME ThereIsRoom PROVE Spec => KeepsThePromise
  OBVIOUS
<1>1. Init => IInv /\ FilesFit /\ Store!Init
  BY InitIsSafe, InitKeepsPromise
<1>2. IInv /\ FilesFit /\ [Next]_vars => IInv' /\ FilesFit' /\ [Store!Next]_(Store!vars)
  BY NextIsSafe, NextKeepsPromise
<1>3. QED
  BY <1>1, <1>2, PTL DEF Spec, KeepsThePromise, Store!Spec

-----------------------------------------------------------------------------
(* Global commands stay on course.                                            *)

\* the lines before address n stay what and where they are
KeepsBefore(n, old, new) ==
  /\ n <= Len(new)
  /\ \A i \in 1..n : new[i] = old[i]

\* The two tokens of a line number before a command.
LEMMA TwoTokens ==
  ASSUME NEW x, NEW y
  PROVE  Len(<<x>> \o <<y>>) = 2 /\ (<<x>> \o <<y>>)[1] = x /\ (<<x>> \o <<y>>)[2] = y
<1> DEFINE T == {x, y}
<1>1. <<x>> \in Seq(T) /\ <<y>> \in Seq(T) /\ Len(<<x>>) = 1 /\ Len(<<y>>) = 1
  OBVIOUS
<1> HIDE DEF T
<1>2. QED
  BY <1>1, ConcatProperties

\* x is the token of line number n, not of 0
Numbered(x, n) == x.kind = "num" /\ x.val = n /\ ~x.lead

\* A line number is its address, for a parser that sees the tokens s.
LEMMA NumberIsRead ==
  ASSUME NEW s, NEW current, NEW marks, NEW k \in Nat, NEW n \in Nat, n # 0, n <= k, Len(s) = 2,
         Numbered(s[1], n), s[2].kind = "op"
  PROVE  ParseEdAddress(s, current, k, marks) = Parsed(n, n, FALSE, 2)
<1>1. Kind(s, 1) = "num" /\ Kind(s, 2) = "op"
  BY DEF Kind, Numbered
<1>2. SkipBlank(s, 1) = 1 /\ SkipBlank(s, 2) = 2
  BY <1>1 DEF SkipBlank
<1>3. ParseOneAddress(s, 1, current, k, marks) = AddressOf(n, 2)
  <2>1. OffsetAt(s, 1) = [amount |-> 0, rest |-> 1]
    BY <1>1 DEF OffsetAt
  <2>2. Checked(n + 0, k, 1, 2) = AddressOf(n, 2)
    BY DEF Checked, AddressAllowed
  <2>3. BaseAt(s, 1, [amount |-> 0, rest |-> 1], current, k, marks) = Checked(n + 0, k, 1, 2)
    BY <1>1 DEF BaseAt, Numbered
  <2>4. QED
    BY <1>1, <2>1, <2>2, <2>3 DEF ParseOneAddress
<1>4. FirstAddress(s, AddressOf(n, 2), current, k, marks) = Parsed(n, n, FALSE, 2)
  BY <1>1, <1>2 DEF FirstAddress, AddressOf
<1>5. QED
  BY <1>1, <1>2, <1>3, <1>4 DEF ParseEdAddress

\* The addresses that the dispatcher takes from one line number.
LEMMA NumberIsALine ==
  ASSUME NEW p, NEW n \in Nat, n # 0, NEW current, NEW m, p = Parsed(n, n, FALSE, 2)
  PROVE  p.addr1 = n /\ LineRange(p, current, m) = [start |-> n - 1, end |-> n - 1]
BY DEF Parsed, LineRange

LEMMA NumIsNumbered ==
  ASSUME NEW n \in Nat, n # 0
  PROVE  Numbered(Num(n), n)
BY DEF Num, Numbered

LEMMA NumberThenLetter ==
  ASSUME NEW x, NEW current, NEW marks, NEW k \in Nat, NEW n \in Nat, n # 0, n <= k, Numbered(x, n)
  PROVE  ParseEdAddress(<<x>> \o <<Sym("op")>>, current, k, marks) = Parsed(n, n, FALSE, 2)
<1> DEFINE y == Sym("op")
           s == <<x>> \o <<y>>
<1>1. y.kind = "op"
  BY DEF Sym
<1> HIDE DEF y
<1>2. Len(s) = 2 /\ s[1] = x /\ s[2] = y
  BY TwoTokens
<1> HIDE DEF s
<1>3. Len(s) = 2 /\ Numbered(s[1], n) /\ s[2].kind = "op"
  BY <1>1, <1>2
<1>4. ParseEdAddress(s, current, k, marks) = Parsed(n, n, FALSE, 2)
  BY <1>3, NumberIsRead, ZenonT(40)
<1>5. QED
  BY <1>4 DEF s, y

\* A line number before a command is its address.
LEMMA LineNumberIsRead ==
  ASSUME NEW c, N \in Nat, NEW n \in Nat, n # 0, n <= N,
         c.op # "", NEW x, c.addr = <<x>>, Numbered(x, n)
  PROVE  /\ Parse(c).addr1 = n
         /\ LineRangeOf(c) = [start |-> n - 1, end |-> n - 1]
         /\ AddrOf(c) = n - 1
<1> DEFINE p == Parse(c)
<1>1. p = ParseEdAddress(<<x>> \o <<Sym("op")>>, Current1(ed.current_line), N, ed.marks)
  BY DEF Parse
<1>2. ParseEdAddress(<<x>> \o <<Sym("op")>>, Current1(ed.current_line), N, ed.marks)
        = Parsed(n, n, FALSE, 2)
  <2> DEFINE k == N
             current == Current1(ed.current_line)
             marks == ed.marks
  <2>1. k \in Nat /\ n \in Nat /\ n # 0 /\ n <= k /\ Numbered(x, n)
    OBVIOUS
  <2> HIDE DEF k, current, marks
  <2>2. ParseEdAddress(<<x>> \o <<Sym("op")>>, current, k, marks) = Parsed(n, n, FALSE, 2)
    BY <2>1, NumberThenLetter, ZenonT(40)
  <2>3. QED
    BY <2>2 DEF k, current, marks
<1>3. p = Parsed(n, n, FALSE, 2)
  BY <1>1, <1>2
<1> HIDE DEF p
<1>4. p.addr1 = n /\ LineRange(p, ed.current_line, N) = [start |-> n - 1, end |-> n - 1]
  BY <1>3, NumberIsALine
<1>5. QED
  BY <1>4 DEF LineRangeOf, AddrOf, p

\* What the functions of ed.c that edit at a line do to the lines before it.
LEMMA OperationsKeepBefore ==
  ASSUME NEW e, Good(e), NEW n \in 0..Len(e.lines)
  PROVE  /\ \A text \in Seq(Text) : KeepsBefore(n, e.lines, InsertLine(e, n, text).lines)
         /\ \A addr \in n - 1..Len(e.lines) - 1, text \in Seq(Text) :
              KeepsBefore(n, e.lines, AppendLine(e, addr, text).lines)
         /\ \A addr \in n - 1..Len(e.lines) - 1, text \in Seq(Text) :
              KeepsBefore(n, e.lines, ReadFileAtAddress(e, addr, text).lines)
         /\ KeepsBefore(n, e.lines, e.lines) /\ KeepsBefore(n, e.lines, PrepareUndo(e).lines)
         /\ n < Len(e.lines) =>
              LET r == [start |-> n, end |-> n]
              IN  /\ KeepsBefore(n, e.lines, DeleteRange(e, r).lines)
                  /\ \A text \in Seq(Text) : KeepsBefore(n, e.lines, ChangeRange(e, r, text).lines)
                  /\ KeepsBefore(n, e.lines, JoinRange(e, r).lines)
                  /\ \A sub : KeepsBefore(n, e.lines, SubstituteRange(e, r, sub).lines)
<1> DEFINE k == Len(e.lines)
           r == [start |-> n, end |-> n]
<1>1. e.lines \in Seq(Text) /\ k \in Nat /\ n \in Nat /\ n <= k /\ e \in EditorType
  BY FieldsOf DEF Good
<1>2. ASSUME NEW lines \in Seq(Text), NEW text \in Seq(Text), NEW pos \in n..Len(lines), n <= Len(lines)
      PROVE  KeepsBefore(n, lines, Splice(lines, pos, text))
  <2>1. pos \in 0..Len(lines) /\ Len(lines) \in Nat /\ Len(text) \in Nat
    BY <1>1
  <2>2. Len(Splice(lines, pos, text)) = Len(lines) + Len(text)
    BY <2>1, SpliceIsSeq
  <2>3. \A i \in 1..n : Splice(lines, pos, text)[i] = lines[i]
    BY <1>1, <1>2, <2>1 DEF Splice
  <2>4. QED
    BY <1>1, <1>2, <2>1, <2>2, <2>3 DEF KeepsBefore
<1>3. KeepsBefore(n, e.lines, e.lines) /\ PrepareUndo(e).lines = e.lines
  BY <1>1 DEF KeepsBefore, PrepareUndo, EditorType
<1>4. ASSUME NEW text \in Seq(Text) PROVE KeepsBefore(n, e.lines, InsertLine(e, n, text).lines)
  <2>1. InsertLine(e, n, text).lines = IF text # <<>> THEN Splice(e.lines, n, text) ELSE e.lines
    BY <1>1 DEF InsertLine, PrepareUndo, EditorType
  <2>2. KeepsBefore(n, e.lines, Splice(e.lines, n, text))
    BY <1>1, <1>2
  <2>3. QED
    BY <1>3, <2>1, <2>2
<1>5. ASSUME NEW addr \in n - 1..k - 1, NEW text \in Seq(Text)
      PROVE  KeepsBefore(n, e.lines, AppendLine(e, addr, text).lines)
  <2>1. AppendLine(e, addr, text).lines = IF text # <<>> THEN Splice(e.lines, addr + 1, text) ELSE e.lines
    BY <1>1 DEF AppendLine, PrepareUndo, EditorType
  <2>2. addr + 1 \in n..k
    BY <1>1
  <2>3. KeepsBefore(n, e.lines, Splice(e.lines, addr + 1, text))
    BY <1>1, <1>2, <2>2
  <2>4. QED
    BY <1>3, <2>1, <2>3
<1>6. \A addr \in n - 1..k - 1, text \in Seq(Text) :
        KeepsBefore(n, e.lines, ReadFileAtAddress(e, addr, text).lines)
  BY <1>3, <1>5 DEF ReadFileAtAddress
<1>7. ASSUME n < k PROVE KeepsBefore(n, e.lines, DeleteRange(e, r).lines)
  <2>1. DeleteRange(e, r).lines = Cut(e.lines, n, 1)
    BY <1>1 DEF DeleteRange, Width, PrepareUndo, EditorType
  <2>2. QED
    BY <1>1, <1>7, <2>1 DEF Cut, KeepsBefore
<1>8. ASSUME n < k, NEW text \in Seq(Text) PROVE KeepsBefore(n, e.lines, ChangeRange(e, r, text).lines)
  <2> DEFINE d == DeleteRange(PrepareUndo(e), r)
             m == Len(d.lines)
  <2>1. d.lines = Cut(e.lines, n, 1)
    BY <1>1 DEF DeleteRange, Width, PrepareUndo, EditorType
  <2>2. d.lines \in Seq(Text) /\ m = k - 1
    <3>1. n \in Nat /\ 1 \in 0..Len(e.lines) /\ e.lines \in Seq(Text)
      BY <1>1, <1>8
    <3> HIDE DEF d
    <3>2. Cut(e.lines, n, 1) \in Seq(Text) /\ Len(Cut(e.lines, n, 1)) = Len(e.lines) - 1
      BY <3>1, CutIsSeq
    <3>3. QED
      BY <2>1, <3>2
  <2>3. KeepsBefore(n, e.lines, d.lines)
    BY <1>1, <1>8, <2>1 DEF Cut, KeepsBefore
  <2>4. d \in EditorType
    BY <1>1, <1>8, PrepareUndoIsGood, DeleteRangeIsGood, SMTT(30) DEF Good, InBuffer, Width
  <2> HIDE DEF d
  <2>5. ChangeRange(e, r, text).lines = InsertLine(d, n, text).lines
    BY <1>1, <1>8, <2>2 DEF ChangeRange, d
  <2>6. InsertLine(d, n, text).lines = IF text # <<>> THEN Splice(d.lines, n, text) ELSE d.lines
    BY <2>4 DEF InsertLine, PrepareUndo, EditorType
  <2>7. KeepsBefore(n, d.lines, Splice(d.lines, n, text))
    BY <1>1, <1>2, <1>8, <2>2
  <2>8. QED
    BY <1>1, <2>3, <2>5, <2>6, <2>7 DEF KeepsBefore
<1>9. KeepsBefore(n, e.lines, JoinRange(e, r).lines)
  <2>1. JoinRange(e, r).lines = e.lines
    BY <1>1 DEF JoinRange, PrepareUndo, EditorType
  <2>2. QED
    BY <1>3, <2>1
<1>10. ASSUME n < k, NEW sub PROVE KeepsBefore(n, e.lines, SubstituteRange(e, r, sub).lines)
  <2>1. SubstituteRange(e, r, sub).lines \in {e.lines, SubstituteLines(e.lines, r, sub)}
    BY <1>1 DEF SubstituteRange, PrepareUndo, EditorType
  <2>2. KeepsBefore(n, e.lines, SubstituteLines(e.lines, r, sub))
    BY <1>1, <1>10 DEF SubstituteLines, KeepsBefore
  <2>3. QED
    BY <1>3, <2>1, <2>2
<1>11. QED
  BY <1>3, <1>4, <1>5, <1>6, <1>7, <1>8, <1>9, <1>10

\* The commands that edit at the line they are given and nowhere before it.  The others can
\* lead a global command astray: m and t put lines where they are told to, u and e replace
\* the buffer, and a g or v goes through the buffer again.
Local == Letter \ {"m", "t", "u", "e", "E", "g", "v"}

\* Such a command leaves what is before its line alone.
LEMMA LocalKeepsBefore ==
  ASSUME NEW c \in CommandType, Safe, NEW n \in Nat, n # 0, n <= N, c.op \in Local,
         NEW x, c.addr = <<x>>, Numbered(x, n), Simple(c)
  PROVE  KeepsBefore(n - 1, ed.lines, ed'.lines)
<1> DEFINE m == n - 1
           k == Len(ed.lines)
           r == [start |-> m, end |-> m]
<1>1. N = k /\ k \in Nat /\ m \in 0..k /\ m < k /\ m \in 0..k - 1 /\ m \in m - 1..k - 1 /\ m >= 0
  <2>1. N = k /\ k \in Nat
    BY LenN DEF N
  <2>2. QED
    BY <2>1
<1>2. c.op # "" => Parse(c).addr1 = n /\ LineRangeOf(c) = r /\ AddrOf(c) = m
  <2>1. N \in Nat
    BY <1>1
  <2>2. QED
    BY <2>1, LineNumberIsRead
<1>3. ed \in EditorType /\ Good(ed)
  BY DEF Safe, State, Good
<1> HIDE DEF m, k, r
<1>4. KeepsBefore(m, ed.lines, ed.lines)
  BY <1>1, <1>3, OperationsKeepBefore DEF k
<1>5. ed'.lines = ed.lines => KeepsBefore(m, ed.lines, ed'.lines)
  BY <1>4
<1>6. CASE BareAddress(c) \/ ShowRange(c) \/ SetMark(c) \/ SetFilename(c) \/ Write(c)
  BY <1>3, <1>5, <1>6, StillKeepsLines DEF m
<1>7. CASE Unreadable(c) \/ OutOfRange(c) \/ PrintNumber(c) \/ Other(c)
             \/ Quit(c) \/ ForcedQuit(c) \/ WriteAppend(c)
  <2>1. ed' = ed
    BY <1>7 DEF Unreadable, OutOfRange, PrintNumber, Other, Quit, ForcedQuit,
                    WriteAppend, Do, Error, Fail, Undefined, Exit
  <2>2. QED
    BY <1>5, <2>1 DEF m
<1>8. CASE Delete(c)
  <2>1. ed' = ed \/ ed' = DeleteRange(ed, r)
    BY <1>2, <1>8 DEF Delete, Do, Undefined
  <2>2. KeepsBefore(m, ed.lines, DeleteRange(ed, r).lines)
    BY <1>1, <1>3, OperationsKeepBefore DEF k, r
  <2>3. QED
    BY <1>5, <2>1, <2>2 DEF m
<1>9. CASE Change(c)
  <2>1. c.text \in Seq(Text)
    BY <1>9, CommandFields DEF Change
  <2>2. ed' = ed \/ ed' = ChangeRange(ed, r, c.text)
    BY <1>2, <1>9 DEF Change, Do, Undefined, CriticalError
  <2>3. KeepsBefore(m, ed.lines, ChangeRange(ed, r, c.text).lines)
    BY <1>1, <1>3, <2>1, OperationsKeepBefore DEF k, r
  <2>4. QED
    BY <1>5, <2>2, <2>3 DEF m
<1>10. CASE Join(c)
  <2>1. ed' = ed \/ ed' = JoinRange(ed, r)
    BY <1>2, <1>10 DEF Join, Do, Undefined
  <2>2. KeepsBefore(m, ed.lines, JoinRange(ed, r).lines)
    BY <1>1, <1>3, OperationsKeepBefore DEF k, r
  <2>3. QED
    BY <1>5, <2>1, <2>2 DEF m
<1>11. CASE Substitute(c)
  <2>1. ed' = ed \/ ed' = SubstituteRange(ed, r, c.sub)
    BY <1>2, <1>11 DEF Substitute, Do, Fail, Loop
  <2>2. KeepsBefore(m, ed.lines, SubstituteRange(ed, r, c.sub).lines)
    BY <1>1, <1>3, OperationsKeepBefore DEF k, r
  <2>3. QED
    BY <1>5, <2>1, <2>2 DEF m
<1>12. CASE AppendText(c)
  <2>1. c.text \in Seq(Text)
    BY <1>12, CommandFields DEF AppendText
  <2>2. AddrOf(c) = m /\ ~(m < 0)
    BY <1>1, <1>2, <1>12 DEF AppendText
  <2>3. ed' = ed \/ ed' = AppendLine(ed, m, c.text)
    BY <2>2, <1>12 DEF AppendText, Do, Undefined, CriticalError
  <2>4. KeepsBefore(m, ed.lines, AppendLine(ed, m, c.text).lines)
    BY <1>1, <1>3, <2>1, OperationsKeepBefore DEF k
  <2>5. QED
    BY <1>5, <2>3, <2>4 DEF m
<1>13. CASE InsertText(c)
  <2>1. c.text \in Seq(Text)
    BY <1>13, CommandFields DEF InsertText
  <2>2. AddrOf(c) = m /\ ~(m < 0)
    BY <1>1, <1>2, <1>13 DEF InsertText
  <2>3. ed' = ed \/ ed' = InsertLine(ed, m, c.text)
    BY <2>2, <1>13 DEF InsertText, Do, CriticalError
  <2>4. KeepsBefore(m, ed.lines, InsertLine(ed, m, c.text).lines)
    BY <1>1, <1>3, <2>1, OperationsKeepBefore DEF k
  <2>5. QED
    BY <1>5, <2>3, <2>4 DEF m
<1>14. CASE Read(c)
  <2>1. Parse(c).addr1 = n
    BY <1>2, <1>14 DEF Read
  <2>2. (IF Parse(c).addr1 = 0 THEN N - 1 ELSE Parse(c).addr1 - 1) = m
    BY <2>1 DEF m
  <2>3. c.file \in FileName \cup {NoName}
    BY <1>14, CommandFields DEF Read
  <2>4. \/ ed' = ed \/ ed' = PrepareUndo(ed)
        \/ disk[c.file] \in Seq(Text) /\ ed' = ReadFileAtAddress(ed, m, disk[c.file])
    <3>1. c.file # NoName /\ disk[c.file] # Absent => disk[c.file] \in Seq(Text)
      BY <2>3 DEF Safe, State, Disk
    <3>2. QED
      BY <1>14, <2>2, <3>1 DEF Read, Do, Error, Fail, Undefined, CriticalError
  <2>5. KeepsBefore(m, ed.lines, PrepareUndo(ed).lines)
    BY <1>1, <1>3, OperationsKeepBefore DEF k
  <2>6. \A text \in Seq(Text) : KeepsBefore(m, ed.lines, ReadFileAtAddress(ed, m, text).lines)
    BY <1>1, <1>3, OperationsKeepBefore DEF k
  <2>7. QED
    BY <1>5, <2>4, <2>5, <2>6 DEF m
<1>15. CASE NoDestination(c) \/ Move(c) \/ Copy(c) \/ UndoCommand(c) \/ Edit(c)
  BY <1>15 DEF NoDestination, Move, Copy, UndoCommand, Edit, Local
<1>16. QED
  BY <1>6, <1>7, <1>8, <1>9, <1>10, <1>11, <1>12, <1>13, <1>14, <1>15 DEF Simple

\* a frame of work for a single such command without an address of its own
Plain(f) ==
  /\ ~f.list /\ Len(f.cmds) = 1
  /\ f.cmds[1].addr = <<>> /\ f.cmds[1].op \in Local

\* the lines still to visit are those noted, and lie before the one being visited
OnCourse(f, lines) ==
  /\ \A t \in f.todo : t < Len(lines) /\ lines[t + 1] = f.base[t + 1]
  /\ f.pc = 1 => f.line \in 1..Len(lines) /\ \A t \in f.todo : t + 1 < f.line

\* The global commands in the editor's commands are of that kind.
PlainGlobals ==
  \A c \in Command : c.op \in {"g", "v"} =>
    /\ ~c.list
    /\ c.cmds[1].addr = <<>> /\ c.cmds[1].op \in Local

\* The inductive invariant: while the command for a line is to be executed, what remains
\* lies before that line.
GInv == work = <<>> \/ \E f \in Frame : work = <<f>> /\ Plain(f) /\ OnCourse(f, ed.lines)

LEMMA HeadOfOne ==
  ASSUME NEW f, work = <<f>>
  PROVE  Head(work) = f /\ Tail(work) = <<>>
OBVIOUS

\* The command for a line is the one given, with the number of the line before it.
LEMMA PlainCommandIsNumbered ==
  ASSUME NEW f \in Frame, Plain(f), f.pc = 1, NEW c \in NextCommand(f)
  PROVE  c.op \in Local /\ c.addr = <<Num(f.line)>>
<1> DEFINE d == f.cmds[1]
           x == Num(f.line)
           numbered == [d EXCEPT !.addr = <<x>> \o @]
<1>1. d \in CommandType /\ d.addr = <<>> /\ d.op \in Local /\ ~f.list
  BY CommandsAreTyped DEF Frame, Plain
<1>2. numbered \in CommandType /\ numbered.op = d.op
  BY <1>1, NumberedIsACommand DEF Frame
<1>3. numbered.addr = <<x>>
  <2> HIDE DEF x, d
  <2>1. <<x>> \o <<>> = <<x>>
    <3>1. <<x>> \in Seq({x})
      OBVIOUS
    <3>2. QED
      BY <3>1
  <2> DEFINE addr == <<x>> \o d.addr
  <2>2. addr = <<x>>
    BY <1>1, <2>1
  <2> HIDE DEF addr
  <2>3. [d EXCEPT !.addr = addr].addr = addr
    BY <1>1 DEF CommandType
  <2>4. QED
    BY <2>2, <2>3 DEF addr
<1>4. ~Nests(f)
  BY <1>1 DEF Nests, Local
<1>5. c = numbered \/ \E t \in Inputs : d.op \in {"a", "i", "c"} /\ c = [numbered EXCEPT !.text = t]
  BY <1>1, <1>4 DEF NextCommand
<1> HIDE DEF numbered, x
<1>6. ASSUME NEW t \in Inputs, d.op \in {"a", "i", "c"}, c = [numbered EXCEPT !.text = t]
      PROVE  c.op = numbered.op /\ c.addr = numbered.addr
  BY <1>2, <1>6 DEF CommandType
<1>7. QED
  BY <1>1, <1>2, <1>3, <1>5, <1>6 DEF x

\* The command for a line, done, leaves the lines still to visit as they were.
LEMMA NestedStaysOnCourse ==
  ASSUME IInv, ExecuteNested, NEW f \in Frame, work = <<f>>, Plain(f), OnCourse(f, ed.lines)
  PROVE  GInv'
<1> DEFINE g == [f EXCEPT !.pc = @ + 1]
           n == f.line
           c0 == f.cmds[1]
<1>1. Head(work) = f /\ Tail(work) = <<>>
  BY HeadOfOne
<1>2. f.pc = 1 /\ f.pc \in Nat /\ Len(f.cmds) = 1
  <2>1. f.pc <= Len(f.cmds)
    BY <1>1 DEF ExecuteNested
  <2>2. f.pc \in Nat \ {0} /\ Len(f.cmds) = 1
    BY DEF Frame, Plain
  <2>3. QED
    BY <2>1, <2>2
<1>3. N \in Nat /\ n \in Nat /\ n # 0 /\ n <= N /\ \A t \in f.todo : t \in Nat /\ t + 1 < n
  <2>1. n \in 1..Len(ed.lines) /\ \A t \in f.todo : t + 1 < n
    BY <1>2 DEF OnCourse
  <2>2. f.todo \in SUBSET (0..MaxLines)
    BY DEF Frame
  <2>3. N = Len(ed.lines) /\ N \in Nat
    BY LenN DEF N, IInv
  <2>4. QED
    BY <2>1, <2>2, <2>3, MaxLinesAssumption
<1>4. PICK c \in NextCommand(f) : Execute(c, <<g>>)
  <2>1. <<g>> \o <<>> = <<g>>
    <3> HIDE DEF g
    <3>1. <<g>> \in Seq({g})
      OBVIOUS
    <3>2. QED
      BY <3>1
  <2>2. \E c \in NextCommand(f) : Execute(c, <<g>> \o <<>>)
    BY <1>1 DEF ExecuteNested
  <2> HIDE DEF g
  <2>3. QED
    BY <2>1, <2>2
<1>5. c \in CommandType
  <2>1. f.pc <= Len(f.cmds)
    BY <1>2
  <2>2. QED
    BY <2>1, NextCommandIsACommand
<1>6. c.op \in Local /\ c.addr = <<Num(n)>>
  BY <1>2, PlainCommandIsNumbered
<1>7. Simple(c) /\ work' \in {<<g>>, <<>>} /\ (status' = "running" => work' = <<g>>)
  BY <1>4, <1>6 DEF Execute, Global, Local
<1>8. KeepsBefore(n - 1, ed.lines, ed'.lines)
  <2>1. Numbered(Num(n), n)
    BY <1>3, NumIsNumbered
  <2>2. Safe
    BY DEF IInv
  <2>3. QED
    BY <1>3, <1>5, <1>6, <1>7, <2>1, <2>2, LocalKeepsBefore
<1>9. /\ g \in Frame /\ g.pc = 2 /\ g.todo = f.todo /\ g.base = f.base
      /\ g.list = f.list /\ g.cmds = f.cmds
  BY <1>2 DEF Frame
<1>10. IInv'
  BY NextIsSafe DEF Next, NestedStep
<1> HIDE DEF g, n, c0
<1>11. OnCourse(g, ed'.lines)
  <2>1. ASSUME NEW t \in f.todo PROVE t < Len(ed'.lines) /\ ed'.lines[t + 1] = f.base[t + 1]
    <3>1. ed.lines[t + 1] = f.base[t + 1]
      BY DEF OnCourse
    <3>2. Len(ed'.lines) \in Nat
      BY <1>10, FieldsOf DEF IInv, Safe, State, Good
    <3>3. t + 1 \in 1..n - 1
      BY <1>3
    <3>4. n - 1 <= Len(ed'.lines) /\ ed'.lines[t + 1] = ed.lines[t + 1]
      BY <1>8, <3>3 DEF KeepsBefore
    <3>5. QED
      BY <1>3, <3>1, <3>2, <3>3, <3>4
  <2>2. QED
    BY <1>9, <2>1 DEF OnCourse
<1>12. Plain(g)
  BY <1>9 DEF Plain
<1>13. QED
  BY <1>7, <1>9, <1>11, <1>12 DEF GInv

\* The next line is the last of those noted: the others lie before it.
LEMMA SelectStaysOnCourse ==
  ASSUME IInv, SelectTarget, NEW f \in Frame, work = <<f>>, Plain(f), OnCourse(f, ed.lines)
  PROVE  GInv'
<1> DEFINE t == NextTarget(f)
           g == [f EXCEPT !.todo = @ \ {t}, !.line = t + 1, !.pc = 1]
<1>1. Head(work) = f /\ Tail(work) = <<>>
  BY HeadOfOne
<1>2. f.todo # {} /\ work' = <<StartOn(f, t, 1)>> \o <<>> /\ ed'.lines = ed.lines
  <2>1. ~f.list
    BY DEF Plain
  <2>2. ed \in EditorType
    BY DEF IInv, Safe, State, Good
  <2>3. QED
    BY <1>1, <2>1, <2>2, SettingsKeepLines DEF SelectTarget
<1>3. t \in f.todo /\ t \in Nat /\ f.todo \in SUBSET Nat /\ \A u \in f.todo : t >= u
  <2>1. f.todo \in SUBSET (0..MaxLines)
    BY DEF Frame
  <2>2. \E i \in f.todo : \A k \in f.todo : i >= k
    BY <1>2, <2>1, MaxLinesAssumption, HasLast
  <2>3. t \in f.todo /\ \A u \in f.todo : t >= u
    BY <2>2 DEF NextTarget
  <2>4. QED
    BY <2>1, <2>3, MaxLinesAssumption
<1> HIDE DEF t
<1>4. g \in Frame /\ g.todo = f.todo \ {t} /\ g.line = t + 1 /\ g.pc = 1 /\ g.base = f.base
      /\ g.list = f.list /\ g.cmds = f.cmds
  <2>1. t + 1 \in Nat /\ f.todo \ {t} \in SUBSET (0..MaxLines)
    BY <1>3 DEF Frame
  <2> DEFINE line == t + 1
             todo == f.todo \ {t}
             pc == 1
  <2>2. line \in Nat /\ todo \in SUBSET (0..MaxLines) /\ pc \in Nat \ {0}
    BY <2>1
  <2>3. g = [f EXCEPT !.todo = todo, !.line = line, !.pc = pc]
    OBVIOUS
  <2> HIDE DEF g, line, todo, pc
  <2>4. [f EXCEPT !.todo = todo, !.line = line, !.pc = pc] \in Frame
    BY <2>2 DEF Frame
  <2>5. g.todo = todo /\ g.line = line /\ g.pc = pc /\ g.base = f.base
        /\ g.list = f.list /\ g.cmds = f.cmds
    BY <2>3 DEF Frame
  <2>6. QED
    BY <2>3, <2>4, <2>5 DEF line, todo, pc
<1>5. work' = <<g>>
  <2>1. StartOn(f, t, 1) = g
    BY DEF StartOn
  <2> HIDE DEF g
  <2>2. <<g>> \o <<>> = <<g>>
    <3>1. <<g>> \in Seq({g})
      OBVIOUS
    <3>2. QED
      BY <3>1
  <2>3. QED
    BY <1>2, <2>1, <2>2
<1> HIDE DEF g
<1>6. OnCourse(g, ed'.lines)
  <2>1. \A u \in g.todo : u < Len(ed'.lines) /\ ed'.lines[u + 1] = g.base[u + 1]
    BY <1>2, <1>4 DEF OnCourse
  <2>2. t + 1 \in 1..Len(ed'.lines)
    <3>1. t < Len(ed.lines) /\ Len(ed.lines) \in Nat
      BY <1>3, FieldsOf DEF OnCourse, IInv, Safe, State, Good
    <3>2. QED
      BY <1>2, <1>3, <3>1
  <2>3. \A u \in g.todo : u + 1 < t + 1
    BY <1>3, <1>4
  <2>4. QED
    BY <1>4, <2>1, <2>2, <2>3 DEF OnCourse
<1>7. Plain(g)
  BY <1>4 DEF Plain
<1>8. QED
  BY <1>4, <1>5, <1>6, <1>7 DEF GInv

\* A command typed at the prompt may begin a global command.
LEMMA TypedStaysOnCourse ==
  ASSUME PlainGlobals, IInv, Type
  PROVE  GInv'
<1>1. PICK c \in Typed : Execute(c, <<>>)
  BY DEF Type
<1>2. CASE work' = <<>>
  BY <1>2 DEF GInv
<1>3. ASSUME work' # <<>> PROVE GInv'
  <2> DEFINE S == Targets(c, GlobalRange(Parse(c), N))
             f == [todo |-> S, line |-> 0, cmds |-> c.cmds, list |-> c.list,
                   pc |-> Len(c.cmds) + 1, base |-> ed.lines, chosen |-> S]
  <2>1. c.op \in {"g", "v"} /\ work' = <<f>> \o <<>> /\ ed' = ed
    BY <1>1, <1>3 DEF Execute, Global, Do, Error, Fail
  <2>2. c \in Command /\ ~c.list /\ Len(c.cmds) = 1 /\ c.cmds[1].addr = <<>> /\ c.cmds[1].op \in Local
    BY <2>1, CommandAssumption DEF PlainGlobals, WellFormed
  <2>3. S \subseteq 0..N - 1
    <3> DEFINE r == GlobalRange(Parse(c), N)
    <3>1. InBuffer(r, N)
      BY <1>1, <1>3 DEF Execute, Global
    <3> HIDE DEF r
    <3>2. r.start \in 0..N - 1 /\ r.end \in 0..N - 1 /\ N \in Nat
      BY <3>1, LenN DEF InBuffer, IInv
    <3>3. Targets(c, r) \subseteq r.start..r.end
      BY DEF Targets
    <3>4. QED
      BY <3>2, <3>3 DEF r
  <2> HIDE DEF S
  <2>4. f.todo = S /\ f.pc = 2 /\ f.list = c.list /\ f.cmds = c.cmds /\ f.base = ed.lines
    BY <2>2
  <2> HIDE DEF f
  <2>5. work' = <<f>>
    <3>1. <<f>> \in Seq({f})
      OBVIOUS
    <3>2. <<f>> \o <<>> = <<f>>
      BY <3>1
    <3>3. QED
      BY <2>1, <3>2
  <2>6. f \in Frame
    <3>1. work' \in Seq(Frame)
      BY NextIsSafe DEF Next, IInv
    <3>2. work'[1] = f /\ Len(work') = 1
      BY <2>5
    <3>3. QED
      BY <3>1, <3>2
  <2>7. OnCourse(f, ed'.lines)
    <3>1. \A t \in S : t < Len(ed.lines)
      BY <2>3, LenN DEF N, IInv
    <3>2. QED
      BY <2>1, <2>4, <3>1 DEF OnCourse
  <2>8. Plain(f)
    BY <2>2, <2>4 DEF Plain
  <2>9. QED
    BY <2>5, <2>6, <2>7, <2>8 DEF GInv
<1>4. QED
  BY <1>2, <1>3

\* Where the command of every global command edits at its line: a line still to be visited
\* is there, unchanged and under the number noted when the pattern was tried.  This is why
\* execute_global goes from the last line to the first.
THEOREM GlobalsStayOnCourse == PlainGlobals => (Spec => []TargetsStayPut)
<1> SUFFICES ASSUME PlainGlobals PROVE Spec => []TargetsStayPut
  OBVIOUS
<1>1. Init => GInv
  BY DEF Init, GInv
<1>2. IInv /\ GInv /\ [Next]_vars => GInv'
  <2> SUFFICES ASSUME IInv, GInv, [Next]_vars PROVE GInv'
    OBVIOUS
  <2>1. CASE Type
    BY <2>1, TypedStaysOnCourse
  <2>2. ASSUME NestedStep PROVE GInv'
    <3>1. work # <<>>
      BY <2>2 DEF NestedStep, SelectTarget, ExecuteNested, EndGlobal
    <3>2. PICK f \in Frame : work = <<f>> /\ Plain(f) /\ OnCourse(f, ed.lines)
      BY <3>1 DEF GInv
    <3>3. CASE EndGlobal
      <4>1. work' = <<>>
        BY <3>2, <3>3, HeadOfOne DEF EndGlobal
      <4>2. QED
        BY <4>1 DEF GInv
    <3>4. QED
      BY <2>2, <3>2, <3>3, SelectStaysOnCourse, NestedStaysOnCourse DEF NestedStep
  <2>3. CASE EndOfInput \/ UNCHANGED vars
    BY <2>3 DEF EndOfInput, Exit, vars, GInv
  <2>4. QED
    BY <2>1, <2>2, <2>3 DEF Next, Ended
<1>3. IInv /\ GInv => TargetsStayPut
  <2> SUFFICES ASSUME IInv, GInv, work # <<>> PROVE TargetsStayPut
    <3>1. work = <<>> => TargetsStayPut
      BY DEF TargetsStayPut
    <3>2. QED
      BY <3>1
  <2>1. PICK f \in Frame : work = <<f>> /\ Plain(f) /\ OnCourse(f, ed.lines)
    BY DEF GInv
  <2>2. DOMAIN work = {1} /\ work[1] = f
    BY <2>1
  <2>3. QED
    BY <2>1, <2>2 DEF TargetsStayPut, OnCourse, N
<1>4. QED
  BY <1>1, <1>2, <1>3, Invariance, PTL DEF Spec

-----------------------------------------------------------------------------
(* What is saved in an emergency.                                             *)

\* Lines put in between take none of the others away.
LEMMA SpliceKeepsLines ==
  ASSUME NEW lines \in Seq(Text), NEW text \in Seq(Text), NEW pos \in 0..Len(lines), NEW t
  PROVE  Count(Splice(lines, pos, text), t) >= Count(lines, t)
<1> DEFINE n == Len(lines)
           k == Len(text)
           new == Splice(lines, pos, text)
           S == {i \in 1..n : lines[i] = t}
           T == {i \in 1..n + k : new[i] = t}
           f == [i \in S |-> IF i <= pos THEN i ELSE i + k]
<1>1. n \in Nat /\ k \in Nat /\ pos \in 0..n
  OBVIOUS
<1>2. DOMAIN lines = 1..n /\ DOMAIN new = 1..n + k
  BY SpliceIsSeq
<1>3. \A i \in 1..n : new[IF i <= pos THEN i ELSE i + k] = lines[i]
  BY <1>1 DEF Splice
<1> HIDE DEF new, n, k
<1>4. \A i \in S : f[i] \in T
  BY <1>1, <1>3
<1>5. \A i, j \in S : f[i] = f[j] => i = j
  BY <1>1
<1>6. f \in Injection(S, T)
  <2>1. f \in [S -> T]
    BY <1>4
  <2>2. QED
    BY <2>1, <1>5 DEF Injection, IsInjective
<1>7. IsFiniteSet(T)
  <2>1. IsFiniteSet(1..n + k)
    BY <1>1, FS_Interval
  <2>2. T \subseteq 1..n + k
    OBVIOUS
  <2>3. QED
    BY <2>1, <2>2, FS_Subset
<1>8. Cardinality(S) <= Cardinality(T) /\ IsFiniteSet(S)
  BY <1>6, <1>7, FS_Injection
<1>9. Cardinality(S) \in Nat /\ Cardinality(T) \in Nat
  BY <1>7, <1>8, FS_CardinalityType
<1>10. Count(lines, t) = Cardinality(S) /\ Count(new, t) = Cardinality(T)
  BY <1>2 DEF Count
<1>11. QED
  BY <1>8, <1>9, <1>10 DEF new

\* A file with room for what is kept holds all of it.
LEMMA KeptIsStored ==
  ASSUME Safe, ThereIsRoom, NEW kept \in Seq(Text), Len(kept) <= MaxLines,
         NEW name \in FileName \cup {NoName}, CriticalError(name, kept),
         \A t \in Text : Count(kept, t) >= Count(ed.lines, t)
  PROVE  SavesAll
<1>1. OnDisk(kept) = kept
  <2>1. OnDisk(kept) = SubSeq(kept, 1, Len(kept))
    BY BoundsAssumption, MaxLinesAssumption DEF OnDisk, ThereIsRoom
  <2>2. QED
    BY <2>1
<1>2. ASSUME NEW f \in FileName, disk'[f] # disk[f]
      PROVE  disk'[f] = kept
  BY <1>1, <1>2 DEF CriticalError, Safe, State, Disk
<1>3. QED
  BY <1>2 DEF SavesAll

\* The lines read before the memory failed are added to those of the buffer.
LEMMA PartialKeepsLines ==
  ASSUME NEW lines \in Seq(Text), NEW pos \in 0..Len(lines), NEW text \in Seq(Text),
         Len(lines) <= MaxLines, ~Fits(Len(lines), Len(text))
  PROVE  LET kept == Partial(lines, pos, text)
         IN  /\ kept \in Seq(Text) /\ Len(kept) <= MaxLines
             /\ \A t \in Text : Count(kept, t) >= Count(lines, t)
<1> DEFINE n == MaxLines - Len(lines)
           part == SubSeq(text, 1, n)
<1>1. n \in Nat /\ n <= Len(text)
  BY MaxLinesAssumption DEF Fits
<1>2. part \in Seq(Text) /\ Len(part) = n
  <2> HIDE DEF n
  <2>1. QED
    BY <1>1
<1>3. Len(lines) + n = MaxLines
  BY MaxLinesAssumption
<1> HIDE DEF part, n
<1>4. QED
  <2> DEFINE kept == Splice(lines, pos, part)
  <2>1. Partial(lines, pos, text) = kept
    BY DEF Partial, part, n
  <2>2. kept \in Seq(Text) /\ Len(kept) = Len(lines) + n
    BY <1>2, SpliceIsSeq
  <2>3. \A t \in Text : Count(kept, t) >= Count(lines, t)
    BY <1>2, SpliceKeepsLines
  <2> HIDE DEF kept
  <2>4. QED
    BY <1>3, <2>1, <2>2, <2>3

\* The buffer as it is.
LEMMA BufferIsSaved ==
  ASSUME Safe, ThereIsRoom, CriticalError(ed.filename, ed.lines)
  PROVE  SavesAll
<1>1. /\ ed.lines \in Seq(Text) /\ N = Len(ed.lines) /\ N \in 0..MaxLines
      /\ ed.filename \in FileName \cup {NoName}
  BY LenN, FilenameType
<1>2. ASSUME NEW t PROVE Count(ed.lines, t) \in Nat
  <2>1. IsFiniteSet({i \in 1..N : ed.lines[i] = t})
    <3>1. IsFiniteSet(1..N)
      BY <1>1, FS_Interval
    <3>2. {i \in 1..N : ed.lines[i] = t} \subseteq 1..N
      OBVIOUS
    <3>3. QED
      BY <3>1, <3>2, FS_Subset
  <2>2. DOMAIN ed.lines = 1..N
    BY <1>1
  <2>3. QED
    BY <2>1, <2>2, FS_CardinalityType DEF Count
<1>3. \A t \in Text : Count(ed.lines, t) >= Count(ed.lines, t)
  BY <1>2
<1>4. QED
  BY <1>1, <1>3, KeptIsStored

\* a, i, r and m, when the memory fails.
LEMMA AbortedSimpleSaves ==
  ASSUME NEW c \in CommandType, Safe, ThereIsRoom, Simple(c),
         status = "running", status' = "aborted", c.op \in {"a", "i", "r", "m"}
  PROVE  SavesAll
<1>1. /\ ed.lines \in Seq(Text) /\ N = Len(ed.lines) /\ N \in 0..MaxLines
      /\ ed.filename \in FileName \cup {NoName}
  BY LenN, FilenameType
<1>2. \A e : ~Do(e) /\ ~Fail(e)
  BY DEF Do, Fail
<1>3. ~Error /\ ~Undefined /\ ~Exit /\ ~Loop
  BY DEF Error, Fail, Undefined, Exit, Loop
<1>4. ASSUME NEW pos, NEW text \in Seq(Text), pos \in 0..N, ~Fits(N, Len(text)),
             CriticalError(ed.filename, Partial(ed.lines, pos, text))
      PROVE  SavesAll
  BY <1>1, <1>4, PartialKeepsLines, KeptIsStored
<1>5. CASE AppendText(c)
  <2> DEFINE addr == IF AddrOf(c) < 0 THEN N - 1 ELSE AddrOf(c)
  <2>1. c.text \in Seq(Text) /\ Len(c.text) \in Nat
    BY <1>5, CommandFields DEF AppendText
  <2>2. addr \in 0..N \cup {-1}
    BY <1>1, <1>5, AddrIsNear DEF AppendText
  <2> HIDE DEF addr
  <2>3. /\ c.text = <<>> \/ addr + 1 <= N
        /\ ~Fits(N, Len(c.text))
        /\ CriticalError(ed.filename, Partial(ed.lines, addr + 1, c.text))
    BY <1>2, <1>3, <1>5 DEF AppendText, addr
  <2>4. Len(c.text) # 0
    <3> DEFINE k == Len(c.text)
    <3>1. k \in Nat /\ ~(N + k <= MaxLines)
      BY <2>1, <2>3 DEF Fits
    <3> HIDE DEF k
    <3>2. k # 0
      BY <1>1, <3>1, MaxLinesAssumption
    <3>3. QED
      BY <3>2 DEF k
  <2>5. addr + 1 \in 0..N
    BY <1>1, <2>1, <2>2, <2>3, <2>4
  <2>6. QED
    BY <1>4, <2>1, <2>3, <2>5
<1>6. CASE InsertText(c)
  <2> DEFINE addr == IF AddrOf(c) < 0 THEN 0 ELSE AddrOf(c)
  <2>1. c.text \in Seq(Text)
    BY <1>6, CommandFields DEF InsertText
  <2>2. addr \in 0..N
    BY <1>1, <1>6, AddrIsNear DEF InsertText
  <2> HIDE DEF addr
  <2>3. ~Fits(N, Len(c.text)) /\ CriticalError(ed.filename, Partial(ed.lines, addr, c.text))
    BY <1>2, <1>3, <1>6 DEF InsertText, addr
  <2>4. QED
    BY <1>4, <2>1, <2>2, <2>3
<1>7. CASE Read(c)
  <2> DEFINE addr == IF Parse(c).addr1 = 0 THEN N - 1 ELSE Parse(c).addr1 - 1
             content == disk[c.file]
  <2>1. addr \in 0..N \cup {-1}
    BY <1>1, <1>7, ParseIsSound DEF Read
  <2> HIDE DEF addr
  <2>2. /\ c.file # NoName /\ content # Absent /\ ~(addr + 1 > N /\ content # <<>>)
        /\ ~Fits(N, Len(content))
        /\ CriticalError(ed.filename, Partial(ed.lines, addr + 1, content))
    BY <1>2, <1>3, <1>7 DEF Read, addr
  <2>3. content \in Seq(Text) /\ Len(content) \in Nat
    BY <1>7, <2>2, CommandFields, DiskType DEF Read
  <2> HIDE DEF content
  <2>4. Len(content) # 0
    BY <1>1, <2>2, MaxLinesAssumption DEF Fits
  <2>5. addr + 1 \in 0..N
    BY <1>1, <2>1, <2>2, <2>3, <2>4
  <2>6. QED
    BY <1>4, <2>2, <2>3, <2>5
<1>8. CriticalError(ed.filename, ed.lines) => SavesAll
  BY BufferIsSaved
<1>9. CASE Move(c)
  BY <1>2, <1>3, <1>8, <1>9 DEF Move
<1>10. CASE Unreadable(c) \/ OutOfRange(c) \/ NoDestination(c)
  BY <1>3, <1>10 DEF Unreadable, OutOfRange, NoDestination
<1>11. QED
  BY <1>5, <1>6, <1>7, <1>9, <1>10
     DEF Simple, BareAddress, ShowRange, Delete, Change, Join, Copy, Substitute, SetMark,
         PrintNumber, UndoCommand, Other, Quit, ForcedQuit, SetFilename, Write, WriteAppend, Edit

\* Where the files have room for the buffer: when a, i, r, m or a global command runs out
\* of memory and critical_error writes a file, the file holds at least the lines of the
\* buffer, with those read so far in between.
THEOREM EmergencySaveKeepsAll == ThereIsRoom => (Spec => EmergencySaveIsComplete)
<1> SUFFICES ASSUME ThereIsRoom PROVE Spec => EmergencySaveIsComplete
  OBVIOUS
<1>1. IInv /\ [Next]_vars =>
        [(status' = "aborted" /\ last' \in {"a", "i", "r", "m", "g", "v"}) => SavesAll]_vars
  <2> SUFFICES ASSUME Safe, work \in Seq(Frame), Next, ~UNCHANGED vars, status' = "aborted",
                      last' \in {"a", "i", "r", "m", "g", "v"}
               PROVE  SavesAll
    BY DEF IInv, vars
  <2>1. ASSUME NEW c \in CommandType, NEW rest, Execute(c, rest), status = "running"
        PROVE  SavesAll
    <3>1. last' = c.op
      BY <2>1 DEF Execute
    <3>2. CASE Simple(c) /\ c.op \in {"a", "i", "r", "m"}
      BY <2>1, <3>2, AbortedSimpleSaves
    <3>3. CASE Simple(c) /\ c.op \in {"g", "v"}
      <4>1. Error
        BY <3>3 DEF Simple, Unreadable, BareAddress, OutOfRange, ShowRange, Delete, Change, Join,
             NoDestination, Move, Copy, Substitute, AppendText, InsertText, SetMark, PrintNumber,
             UndoCommand, Other, Quit, ForcedQuit, SetFilename, Write, WriteAppend, Edit, Read
      <4>2. QED
        BY <2>1, <4>1 DEF Error, Fail
    <3>4. CASE Global(c, rest)
      BY <2>1, <3>4, BufferIsSaved DEF Global, Error, Fail, Do
    <3>5. QED
      BY <2>1, <3>1, <3>2, <3>3, <3>4 DEF Execute
  <2>2. CASE Type
    <3>1. PICK c \in Typed : Execute(c, <<>>)
      BY <2>2 DEF Type
    <3>2. c \in CommandType
      BY CommandAssumption DEF WellFormed
    <3>3. QED
      BY <2>1, <2>2, <3>1, <3>2 DEF Type
  <2>3. CASE ExecuteNested
    <3>1. PICK c \in NextCommand(Head(work)) :
            Execute(c, <<[Head(work) EXCEPT !.pc = @ + 1]>> \o Tail(work))
      BY <2>3 DEF ExecuteNested
    <3>2. Head(work) \in Frame
      BY <2>3, FrameOfWork DEF ExecuteNested
    <3>3. c \in CommandType
      BY <2>3, <3>1, <3>2, NextCommandIsACommand DEF ExecuteNested
    <3>4. QED
      BY <2>1, <2>3, <3>1, <3>3 DEF ExecuteNested
  <2>4. CASE SelectTarget \/ EndGlobal \/ EndOfInput \/ Ended
    BY <2>4 DEF SelectTarget, EndGlobal, EndOfInput, Ended, Exit
  <2>5. QED
    BY <2>2, <2>3, <2>4 DEF Next, NestedStep
<1>2. QED
  BY <1>1, Invariance, PTL DEF Spec, EmergencySaveIsComplete

-----------------------------------------------------------------------------
(* Marks follow their lines.                                                  *)

\* A mark of e is in x on the line it was on.
Follows(e, x, m) ==
  /\ x.marks[m] \in 0..Len(x.lines) - 1
  /\ x.lines[x.marks[m] + 1] = e.lines[e.marks[m] + 1]

\* It does, or it has been given up with its line.
FollowsOrGoes(e, x, m) ==
  \/ Follows(e, x, m)
  \/ /\ x.marks[m] = -1
     /\ Count(x.lines, e.lines[e.marks[m] + 1]) < Count(e.lines, e.lines[e.marks[m] + 1])

Marked(e, m) == e \in EditorType /\ m \in Mark /\ e.marks[m] \in 0..Len(e.lines) - 1

\* What is put in pushes the marks from its place on (update_marks_after_insert).
LEMMA SpliceMovesMarks ==
  ASSUME NEW e, NEW m, Marked(e, m), NEW pos \in 0..Len(e.lines), NEW text \in Seq(Text),
         NEW x, x.lines = Splice(e.lines, pos, text),
         x.marks = MarksAfterInsert(e.marks, pos, Len(text))
  PROVE  Follows(e, x, m)
<1> DEFINE n == Len(e.lines)
           k == Len(text)
           i == e.marks[m]
           j == IF i >= pos THEN i + k ELSE i
           new == Splice(e.lines, pos, text)
<1>1. n \in Nat /\ k \in Nat /\ pos \in 0..n /\ i \in 0..n - 1 /\ m \in Mark /\ e.lines \in Seq(Text)
  BY DEF Marked, EditorType
<1>2. x.marks[m] = j
  BY <1>1 DEF MarksAfterInsert
<1>3. Len(new) = n + k
  BY <1>1, SpliceIsSeq
<1>4. new = [q \in 1..n + k |-> IF q <= pos THEN e.lines[q]
                                ELSE IF q <= pos + k THEN text[q - pos] ELSE e.lines[q - k]]
  BY DEF Splice
<1>5. x.lines = new /\ e.marks[m] = i
  OBVIOUS
<1> HIDE DEF new, n, k, i
<1>6. j \in 0..n + k - 1 /\ new[j + 1] = e.lines[i + 1]
  BY <1>1, <1>4
<1> HIDE DEF j
<1>7. j \in 0..Len(new) - 1 /\ new[j + 1] = e.lines[e.marks[m] + 1]
  BY <1>1, <1>3, <1>5, <1>6
<1>8. QED
  BY <1>2, <1>5, <1>7 DEF Follows

\* A line that is cut out is one less of its text.
LEMMA CutTakesLine ==
  ASSUME NEW lines \in Seq(Text), NEW a \in 0..Len(lines), NEW k \in 0..Len(lines) - a,
         NEW i \in a..a + k - 1
  PROVE  Count(Cut(lines, a, k), lines[i + 1]) < Count(lines, lines[i + 1])
<1> DEFINE n == Len(lines)
           new == Cut(lines, a, k)
           t == lines[i + 1]
           S == {j \in 1..n - k : new[j] = t}
           T == {j \in 1..n : lines[j] = t}
           f == [j \in S |-> IF j <= a THEN j ELSE j + k]
<1>1. n \in Nat /\ a \in 0..n /\ k \in 0..n - a /\ i \in a..a + k - 1
  OBVIOUS
<1>2. DOMAIN lines = 1..n /\ DOMAIN new = 1..n - k
  BY DEF Cut
<1>3. \A j \in 1..n - k : new[j] = lines[IF j <= a THEN j ELSE j + k]
  BY <1>1 DEF Cut
<1>4. i + 1 \in T
  BY <1>1
<1> HIDE DEF new, n, t
<1>5. \A j \in S : f[j] \in T \ {i + 1}
  BY <1>1, <1>3
<1>6. \A j, l \in S : f[j] = f[l] => j = l
  BY <1>1
<1>7. f \in Injection(S, T \ {i + 1})
  <2>1. f \in [S -> T \ {i + 1}]
    BY <1>5
  <2>2. QED
    BY <2>1, <1>6 DEF Injection, IsInjective
<1>8. IsFiniteSet(T)
  <2>1. IsFiniteSet(1..n)
    BY <1>1, FS_Interval
  <2>2. T \subseteq 1..n
    OBVIOUS
  <2>3. QED
    BY <2>1, <2>2, FS_Subset
<1>9. IsFiniteSet(T \ {i + 1}) /\ Cardinality(T \ {i + 1}) = Cardinality(T) - 1
  BY <1>4, <1>8, FS_RemoveElement
<1>10. Cardinality(S) <= Cardinality(T \ {i + 1}) /\ IsFiniteSet(S)
  BY <1>7, <1>9, FS_Injection
<1>11. Cardinality(S) \in Nat /\ Cardinality(T) \in Nat
  BY <1>8, <1>10, FS_CardinalityType
<1>12. Count(lines, t) = Cardinality(T) /\ Count(new, t) = Cardinality(S)
  BY <1>2 DEF Count
<1>13. QED
  BY <1>9, <1>10, <1>11, <1>12 DEF new, t

\* d (update_marks_after_delete).
LEMMA DeleteMovesMarks ==
  ASSUME NEW e, NEW m, Marked(e, m), NEW r, InBuffer(r, Len(e.lines)), Width(r) >= 0
  PROVE  FollowsOrGoes(e, DeleteRange(e, r), m)
<1> DEFINE n == Len(e.lines)
           k == Width(r)
           a == r.start
           i == e.marks[m]
           new == Cut(e.lines, a, k)
           x == DeleteRange(e, r)
<1>1. /\ n \in Nat /\ a \in 0..n /\ k \in 0..n - a /\ i \in 0..n - 1 /\ m \in Mark
      /\ e.lines \in Seq(Text) /\ e \in EditorType
  BY DEF Marked, EditorType, InBuffer, Width
<1>2. x.lines = new /\ x.marks = MarksAfterDelete(e.marks, a, k)
  BY <1>1 DEF DeleteRange, PrepareUndo, EditorType
<1> HIDE DEF x
<1>3. x.marks[m] = IF i < a THEN i ELSE IF i < a + k THEN -1 ELSE i - k
  BY <1>1, <1>2 DEF MarksAfterDelete
<1>4. Len(new) = n - k
  <2> HIDE DEF n, k, a
  <2>1. k \in 0..n /\ a \in Nat
    BY <1>1
  <2>2. QED
    BY <1>1, <2>1, CutIsSeq DEF n
<1>5. new = [q \in 1..n - k |-> IF q <= a THEN e.lines[q] ELSE e.lines[q + k]]
  BY DEF Cut
<1>0. e.marks[m] = i
  OBVIOUS
<1> HIDE DEF new, n, k, a, i
<1>6. CASE i \in a..a + k - 1
  <2>1. x.marks[m] = -1
    BY <1>1, <1>3, <1>6
  <2>2. Count(new, e.lines[i + 1]) < Count(e.lines, e.lines[i + 1])
    BY <1>1, <1>6, CutTakesLine DEF n, new
  <2>3. QED
    BY <1>0, <1>2, <2>1, <2>2 DEF FollowsOrGoes, x
<1>7. CASE i \notin a..a + k - 1
  <2> DEFINE j == IF i < a THEN i ELSE i - k
  <2>1. x.marks[m] = j
    BY <1>1, <1>3, <1>7
  <2>2. j \in 0..n - k - 1 /\ new[j + 1] = e.lines[i + 1]
    BY <1>1, <1>5, <1>7
  <2> HIDE DEF j
  <2>3. QED
    BY <1>0, <1>2, <1>4, <2>1, <2>2 DEF FollowsOrGoes, Follows, x
<1>8. QED
  BY <1>6, <1>7

\* A structure with the same lines and marks, and the snapshot taken.
LEMMA SameMarksFollow ==
  ASSUME NEW e, NEW m, Marked(e, m)
  PROVE  /\ \A x : x.lines = e.lines /\ x.marks = e.marks => Follows(e, x, m)
         /\ Follows(e, PrepareUndo(e), m)
<1>1. ASSUME NEW x, x.lines = e.lines, x.marks = e.marks PROVE Follows(e, x, m)
  BY <1>1 DEF Follows, Marked
<1>2. PrepareUndo(e).lines = e.lines /\ PrepareUndo(e).marks = e.marks
  BY DEF PrepareUndo, Marked, EditorType
<1>3. QED
  BY <1>1, <1>2

\* append_line, insert_line.
LEMMA AppendMovesMarks ==
  ASSUME NEW e, NEW m, Marked(e, m), NEW addr, NEW text \in Seq(Text),
         text # <<>> => addr + 1 \in 0..Len(e.lines)
  PROVE  Follows(e, AppendLine(e, addr, text), m)
<1>1. CASE text = <<>>
  <2>1. AppendLine(e, addr, text).lines = e.lines /\ AppendLine(e, addr, text).marks = e.marks
    BY <1>1 DEF AppendLine, PrepareUndo, Marked, EditorType
  <2>2. QED
    BY <2>1, SameMarksFollow
<1>2. CASE text # <<>>
  <2>1. /\ AppendLine(e, addr, text).lines = Splice(e.lines, addr + 1, text)
        /\ AppendLine(e, addr, text).marks = MarksAfterInsert(e.marks, addr + 1, Len(text))
    BY <1>2 DEF AppendLine, PrepareUndo, Marked, EditorType
  <2>2. QED
    BY <1>2, <2>1, SpliceMovesMarks
<1>3. QED
  BY <1>1, <1>2

LEMMA InsertedFields ==
  ASSUME NEW e \in EditorType, NEW addr, NEW text
  PROVE  LET x == InsertLine(e, addr, text) IN
         /\ text = <<>> => x.lines = e.lines /\ x.marks = e.marks
         /\ text # <<>> => /\ x.lines = Splice(e.lines, addr, text)
                           /\ x.marks = MarksAfterInsert(e.marks, addr, Len(text))
BY DEF InsertLine, PrepareUndo, EditorType

LEMMA InsertMovesMarks ==
  ASSUME NEW e, NEW m, Marked(e, m), NEW addr \in 0..Len(e.lines), NEW text \in Seq(Text)
  PROVE  Follows(e, InsertLine(e, addr, text), m)
<1>1. CASE text = <<>>
  BY <1>1, InsertedFields, SameMarksFollow DEF Marked
<1>2. CASE text # <<>>
  BY <1>2, InsertedFields, SpliceMovesMarks DEF Marked
<1>3. QED
  BY <1>1, <1>2

\* change_range: a mark on a line that is changed is given up.
LEMMA ChangeMovesMarks ==
  ASSUME NEW e, Good(e), NEW m, Marked(e, m), NEW r, InBuffer(r, Len(e.lines)), Width(r) >= 0,
         NEW text \in Seq(Text)
  PROVE  LET x == ChangeRange(e, r, text) IN Follows(e, x, m) \/ x.marks[m] = -1
<1> DEFINE u == PrepareUndo(e)
           d == DeleteRange(u, r)
           n == Len(d.lines)
           pos == IF r.start > n THEN n ELSE r.start
           x == InsertLine(d, pos, text)
<1>1. ChangeRange(e, r, text) = x
  BY DEF ChangeRange
<1>2. Good(u) /\ u.lines = e.lines /\ u.marks = e.marks
  <2>1. Good(u) /\ u.lines = e.lines
    BY PrepareUndoIsGood
  <2>2. u.marks = e.marks
    BY DEF PrepareUndo, Marked, EditorType
  <2>3. QED
    BY <2>1, <2>2
<1>3. Marked(u, m)
  BY <1>2 DEF Marked, Good
<1> HIDE DEF u
<1>4. Good(d) /\ FollowsOrGoes(u, d, m)
  BY <1>2, <1>3, DeleteRangeIsGood, DeleteMovesMarks
<1> HIDE DEF d
<1>5. d \in EditorType /\ d.lines \in Seq(Text) /\ n \in Nat /\ d.marks \in [Mark -> Int]
      /\ m \in Mark
  BY <1>3, <1>4, SMTT(30) DEF Good, EditorType, Marked
<1>6. pos \in 0..n
  BY <1>5 DEF InBuffer
<1> HIDE DEF pos
<1>7. CASE Follows(u, d, m)
  <2>1. Marked(d, m)
    BY <1>5, <1>7 DEF Marked, Follows
  <2>2. Follows(d, x, m)
    BY <1>6, <2>1, InsertMovesMarks
  <2> HIDE DEF x
  <2>3. Follows(e, x, m)
    BY <1>2, <1>7, <2>2 DEF Follows
  <2>4. QED
    BY <1>1, <2>3
<1>8. CASE d.marks[m] = -1
  <2>1. MarksAfterInsert(d.marks, pos, Len(text))[m] = -1
    BY <1>5, <1>8 DEF MarksAfterInsert
  <2>2. x.marks[m] = -1
    BY <1>5, <1>8, <2>1, InsertedFields
  <2> HIDE DEF x
  <2>3. QED
    BY <1>1, <2>2
<1>9. QED
  BY <1>4, <1>7, <1>8 DEF FollowsOrGoes

\* copy_range, of a range that is not in the wrong order.
LEMMA CopyMovesMarks ==
  ASSUME NEW e, NEW m, Marked(e, m), NEW r, InBuffer(r, Len(e.lines)), Width(r) >= 0,
         NEW dest \in 0..Len(e.lines) - 1
  PROVE  Follows(e, CopyRange(e, r, dest), m)
<1> DEFINE x == CopyRange(e, r, dest)
           n == Len(e.lines)
           k == Width(r)
           part == SubSeq(e.lines, r.start + 1, r.end + 1)
<1>1. n \in Nat /\ k \in Nat /\ e.lines \in Seq(Text) /\ e \in EditorType /\ dest \in 0..n - 1
      /\ m \in Mark /\ e.marks \in [Mark -> Int] /\ e.marks[m] \in 0..n - 1
  BY DEF Marked, EditorType, InBuffer, Width
<1>2. /\ x.lines = IF k > 0 THEN CopySlots(e.lines, r, dest, k) ELSE SubSeq(e.lines, 1, n + k)
      /\ x.marks = MarksAfterInsert(e.marks, dest + 1, k)
  BY <1>1 DEF CopyRange, PrepareUndo, EditorType
<1> HIDE DEF x
<1>3. CASE k > 0
  <2>1. CopySlots(e.lines, r, dest, k) = Splice(e.lines, dest + 1, part) /\ Len(part) = k
        /\ part \in Seq(Text)
    <3> DEFINE q == [start |-> r.start, end |-> r.end]
    <3>1. r.start \in 0..n - 1 /\ r.end \in r.start..n - 1 /\ k = r.end - r.start + 1
      BY <1>1, <1>3 DEF InBuffer, Width
    <3>2. CopySlots(e.lines, q, dest, Width(q)) = Splice(e.lines, dest + 1, part)
      BY <1>1, <3>1, CopyIsSplice
    <3>3. CopySlots(e.lines, q, dest, k) = CopySlots(e.lines, r, dest, k)
      BY DEF CopySlots, Width
    <3>4. Width(q) = k
      BY DEF Width
    <3>5. Len(part) = k /\ part \in Seq(Text)
      BY <1>1, <3>1, PartIsSeq
    <3>6. QED
      BY <3>2, <3>3, <3>4, <3>5
  <2> HIDE DEF part, k
  <2>2. dest + 1 \in 0..n
    BY <1>1
  <2>3. QED
    BY <1>2, <1>3, <2>1, <2>2, SpliceMovesMarks DEF x
<1>4. CASE k = 0
  <2>1. x.lines = e.lines
    BY <1>1, <1>2, <1>4
  <2>2. x.marks = e.marks
    BY <1>1, <1>2, <1>4 DEF MarksAfterInsert
  <2>3. QED
    BY <2>1, <2>2, SameMarksFollow DEF x
<1>5. QED
  BY <1>1, <1>3, <1>4

\* move_range: the marks of the range go with it, those between close up.
LEMMA MoveMovesMarks ==
  ASSUME NEW e, NEW m, Marked(e, m), NEW r, InBuffer(r, Len(e.lines)), Width(r) >= 0,
         NEW dest \in 0..Len(e.lines) - 1, dest \notin r.start..r.end
  PROVE  Follows(e, MoveRange(e, r, dest), m)
<1> DEFINE x == MoveRange(e, r, dest)
           n == Len(e.lines)
           k == Width(r)
           a == r.start
           b == r.end
           i == e.marks[m]
           to == IF dest > b THEN dest - k ELSE dest
           closed == [q \in 1..n |-> IF q > a /\ q <= n - k THEN e.lines[q + k] ELSE e.lines[q]]
           opened == [q \in 1..n |-> IF q > to + 1 + k THEN closed[q - k] ELSE closed[q]]
           new == [q \in 1..n |-> IF q > to + 1 /\ q <= to + 1 + k
                                    THEN e.lines[a + (q - to - 1)] ELSE opened[q]]
           j == IF i \in a..b THEN to + 1 + (i - a)
                ELSE IF a < to + 1 /\ i > b /\ i <= dest THEN i - k
                ELSE IF ~(a < to + 1) /\ i >= to + 1 /\ i < a THEN i + k
                ELSE i
<1>1. /\ n \in Nat /\ e.lines \in Seq(Text) /\ e \in EditorType /\ dest \in 0..n - 1
      /\ m \in Mark /\ i \in 0..n - 1
      /\ a \in 0..n - 1 /\ b \in 0..n - 1 /\ k = b - a + 1 /\ k \in 0..n
      /\ (dest < a \/ dest > b)
  BY SMTT(30) DEF Marked, EditorType, InBuffer, Width
<1>2. x.lines = MoveLines(e.lines, r, dest) /\ x.marks = MarksAfterMove(e.marks, r, dest)
  BY <1>1 DEF MoveRange, PrepareUndo, EditorType
<1>3. MoveLines(e.lines, r, dest) = new
  BY DEF MoveLines
<1>4. MarksAfterMove(e.marks, r, dest)[m] = j
  BY <1>1 DEF MarksAfterMove
<1>5. Len(new) = n /\ DOMAIN new = 1..n
  BY <1>1
<1>6. e.marks[m] = i
  OBVIOUS
<1> HIDE DEF x, i, k, a, b, n
<1>7. j \in 0..n - 1 /\ new[j + 1] = e.lines[i + 1]
  <2>1. CASE i \in a..b
    <3>1. j = to + 1 + (i - a) /\ j \in 0..n - 1 /\ to \in Int
      BY <1>1, <2>1
    <3> HIDE DEF to, opened, j
    <3>2. j + 1 > to + 1 /\ j + 1 <= to + 1 + k /\ a + (j + 1 - to - 1) = i + 1 /\ j + 1 \in 1..n
      BY <1>1, <2>1, <3>1
    <3>3. QED
      BY <3>1, <3>2
  <2>2. CASE dest > b /\ i \notin a..b
    <3>1. to = dest - k /\ a < to + 1
      BY <1>1, <2>2
    <3> HIDE DEF to
    <3>2. CASE i < a
      <4>1. j = i /\ i + 1 \in 1..n
        BY <1>1, <2>2, <3>1, <3>2
      <4>2. closed[i + 1] = e.lines[i + 1]
        BY <1>1, <3>2, <4>1
      <4>3. new[i + 1] = closed[i + 1]
        <5> HIDE DEF closed, j
        <5>1. ~(i + 1 > to + 1)
          BY <1>1, <2>2, <3>1, <3>2
        <5>2. QED
          BY <1>1, <3>1, <4>1, <5>1
      <4>4. QED
        BY <1>1, <4>1, <4>2, <4>3
    <3>3. CASE i > b /\ i <= dest
      BY <1>1, <2>2, <3>1, <3>3, SMTT(30)
    <3>4. CASE i > b /\ i > dest
      <4>1. j = i /\ i + 1 \in 1..n /\ i + 1 - k \in 1..n /\ i + 1 - k > a
        BY <1>1, <2>2, <3>1, <3>4
      <4>2. closed[i + 1 - k] = e.lines[i + 1]
        BY <1>1, <3>4, <4>1
      <4>3. new[i + 1] = closed[i + 1 - k]
        <5> HIDE DEF closed, j
        <5>1. i + 1 > to + 1 + k
          BY <1>1, <2>2, <3>1, <3>4
        <5>2. QED
          BY <1>1, <3>1, <4>1, <5>1
      <4>4. QED
        BY <1>1, <4>1, <4>2, <4>3
    <3> HIDE DEF j, new
    <3>5. QED
      BY <1>1, <2>2, <3>2, <3>3, <3>4
  <2>3. CASE dest < a /\ i \notin a..b
    <3>1. to = dest /\ ~(a < to + 1)
      BY <1>1, <2>3
    <3> HIDE DEF to
    <3>2. CASE i <= dest
      BY <1>1, <2>3, <3>1, <3>2, SMTT(30)
    <3>3. CASE i > dest /\ i < a
      BY <1>1, <2>3, <3>1, <3>3
    <3>4. CASE i >= a /\ i > b
      BY <1>1, <2>3, <3>1, <3>4
    <3> HIDE DEF j, new
    <3>5. QED
      BY <1>1, <2>3, <3>2, <3>3, <3>4
  <2>4. QED
    BY <1>1, <2>1, <2>2, <2>3
<1> HIDE DEF j, new
<1>8. QED
  BY <1>2, <1>3, <1>4, <1>5, <1>6, <1>7 DEF Follows, x

\* t of a range in the wrong order cuts the end of the buffer off.
LEMMA WrongOrderCuts ==
  ASSUME NEW e \in EditorType, NEW r, InBuffer(r, Len(e.lines)), Width(r) < 0, NEW dest
  PROVE  Len(CopyRange(e, r, dest).lines) < Len(e.lines)
<1> DEFINE n == Len(e.lines)
           k == Width(r)
<1>1. n \in Nat /\ e.lines \in Seq(Text) /\ k \in Int /\ n + k \in 0..n - 1
  BY DEF EditorType, InBuffer, Width
<1>2. CopyRange(e, r, dest).lines = SubSeq(e.lines, 1, n + k)
  BY <1>1 DEF CopyRange, PrepareUndo, EditorType
<1> HIDE DEF n, k
<1>3. n = Len(e.lines)
  BY DEF n
<1>4. Len(SubSeq(e.lines, 1, n + k)) = n + k
  BY <1>1, <1>3
<1>5. QED
  BY <1>1, <1>2, <1>3, <1>4

\* The commands that move lines about.
LEMMA SimpleMovesMarks ==
  ASSUME NEW c \in CommandType, Safe, Simple(c), NEW m, Marked(ed, m),
         c.op \in {"a", "i", "c", "d", "m", "r"} \/ (c.op = "t" /\ Len(ed'.lines) >= N)
  PROVE  FollowsOrGoes(ed, ed', m) \/ (c.op = "c" /\ ed'.marks[m] = -1)
<1>1. /\ Good(ed) /\ N = Len(ed.lines) /\ N \in 0..MaxLines /\ ed.lines \in Seq(Text)
      /\ ed \in EditorType
  BY LenN, FilenameType DEF Safe, State, Good
<1>2. ed' = ed => Follows(ed, ed', m)
  BY SameMarksFollow
<1>3. \A name, kept : Error \/ Undefined \/ Exit \/ Loop \/ CriticalError(name, kept) => ed' = ed
  BY DEF Error, Fail, Undefined, Exit, Loop, CriticalError
<1>4. ed' = PrepareUndo(ed) => Follows(ed, ed', m)
  BY SameMarksFollow
<1>5. CASE Delete(c)
  <2> DEFINE r == LineRangeOf(c)
  <2>1. InBuffer(r, Len(ed.lines))
    BY <1>1, <1>5 DEF Delete, Ranged
  <2>2. CASE Width(r) >= 0 /\ ed' = DeleteRange(ed, r)
    <3> HIDE DEF r
    <3>1. QED
      BY <2>1, <2>2, DeleteMovesMarks
  <2>3. QED
    BY <1>2, <1>3, <1>5, <2>2 DEF Delete, Do, FollowsOrGoes
<1>6. CASE Change(c)
  <2> DEFINE r == LineRangeOf(c)
  <2>1. InBuffer(r, Len(ed.lines)) /\ c.op = "c" /\ c.text \in Seq(Text)
    BY <1>1, <1>6, CommandFields DEF Change, Ranged
  <2>2. CASE Width(r) >= 0 /\ ed' = ChangeRange(ed, r, c.text)
    <3> HIDE DEF r
    <3>1. QED
      BY <1>1, <2>1, <2>2, ChangeMovesMarks DEF FollowsOrGoes
  <2>3. QED
    BY <1>2, <1>3, <1>6, <2>2 DEF Change, Do, FollowsOrGoes
<1>7. CASE Move(c)
  <2> DEFINE r == LineRangeOf(c)
             dest == Destination(c)
  <2>1. InBuffer(r, Len(ed.lines)) /\ dest \in 0..Len(ed.lines) - 1
    BY <1>1, <1>7 DEF Move, Ranged
  <2>2. CASE dest \notin r.start..r.end /\ Width(r) >= 0 /\ ed' = MoveRange(ed, r, dest)
    <3> HIDE DEF r, dest
    <3>1. QED
      BY <2>1, <2>2, MoveMovesMarks DEF FollowsOrGoes
  <2>3. QED
    BY <1>2, <1>3, <1>4, <1>7, <2>2 DEF Move, Do, Fail, FollowsOrGoes
<1>8. CASE Copy(c)
  <2> DEFINE r == LineRangeOf(c)
             dest == Destination(c)
  <2>1. /\ InBuffer(r, Len(ed.lines)) /\ dest \in 0..Len(ed.lines) - 1
        /\ Len(ed'.lines) >= Len(ed.lines)
    BY <1>1, <1>8 DEF Copy, Ranged
  <2>2. CASE ed' = CopyRange(ed, r, dest)
    <3> HIDE DEF r, dest
    <3>1. ~(Width(r) < 0)
      <4>1. Len(ed.lines) \in Nat
        BY <1>1
      <4>2. QED
        BY <1>1, <2>1, <2>2, <4>1, WrongOrderCuts
    <3>2. Width(r) >= 0
      BY <2>1, <3>1 DEF InBuffer, Width
    <3>3. QED
      BY <2>1, <2>2, <3>2, CopyMovesMarks DEF FollowsOrGoes
  <2>3. QED
    BY <1>2, <1>3, <1>8, <2>2, FailedCopyEnds DEF Copy, Do, FollowsOrGoes
<1>9. CASE AppendText(c)
  <2> DEFINE addr == IF AddrOf(c) < 0 THEN N - 1 ELSE AddrOf(c)
  <2>1. c.text \in Seq(Text) /\ addr \in 0..N \cup {-1}
    BY <1>1, <1>9, CommandFields, AddrIsNear DEF AppendText
  <2> HIDE DEF addr
  <2>2. CASE (c.text = <<>> \/ addr + 1 <= N) /\ ed' = AppendLine(ed, addr, c.text)
    <3>1. c.text # <<>> => addr + 1 \in 0..Len(ed.lines)
      BY <1>1, <2>1, <2>2
    <3>2. QED
      BY <2>1, <2>2, <3>1, AppendMovesMarks DEF FollowsOrGoes
  <2>3. QED
    BY <1>2, <1>3, <1>9, <2>2 DEF AppendText, Do, FollowsOrGoes, addr
<1>10. CASE InsertText(c)
  <2> DEFINE addr == IF AddrOf(c) < 0 THEN 0 ELSE AddrOf(c)
  <2>1. c.text \in Seq(Text) /\ addr \in 0..Len(ed.lines)
    BY <1>1, <1>10, CommandFields, AddrIsNear DEF InsertText
  <2> HIDE DEF addr
  <2>2. CASE ed' = InsertLine(ed, addr, c.text)
    BY <2>1, <2>2, InsertMovesMarks DEF FollowsOrGoes
  <2>3. QED
    BY <1>2, <1>3, <1>10, <2>2 DEF InsertText, Do, FollowsOrGoes, addr
<1>11. CASE Read(c)
  <2> DEFINE addr == IF Parse(c).addr1 = 0 THEN N - 1 ELSE Parse(c).addr1 - 1
             content == disk[c.file]
  <2>1. addr \in 0..N \cup {-1}
    BY <1>1, <1>11, ParseIsSound DEF Read
  <2> HIDE DEF addr
  <2>2. CASE /\ c.file # NoName /\ content # Absent /\ ~(addr + 1 > N /\ content # <<>>)
             /\ ed' = ReadFileAtAddress(ed, addr, content)
    <3>1. content \in Seq(Text)
      BY <1>11, <2>2, CommandFields, DiskType DEF Read
    <3> HIDE DEF content
    <3>2. content # <<>> => addr + 1 \in 0..Len(ed.lines)
      BY <1>1, <2>1, <2>2
    <3>3. Follows(ed, AppendLine(ed, addr, content), m)
      BY <3>1, <3>2, AppendMovesMarks
    <3>4. QED
      BY <1>4, <2>2, <3>3 DEF ReadFileAtAddress, FollowsOrGoes
  <2>3. QED
    BY <1>2, <1>3, <1>4, <1>11, <2>2 DEF Read, Do, Fail, FollowsOrGoes, addr
<1>12. CASE Unreadable(c) \/ OutOfRange(c) \/ NoDestination(c)
  BY <1>2, <1>3, <1>12 DEF Unreadable, OutOfRange, NoDestination, FollowsOrGoes
<1>13. QED
  BY <1>5, <1>6, <1>7, <1>8, <1>9, <1>10, <1>11, <1>12
     DEF Simple, BareAddress, ShowRange, Join, Substitute, SetMark, PrintNumber, UndoCommand,
         Other, Quit, ForcedQuit, SetFilename, Write, WriteAppend, Edit

\* Whatever is typed, at the prompt or under a global command: after a, i, c, d, m, r and a
\* t that does not shorten the buffer, a mark that was on a line is on that line, and a mark
\* that is given up was on a line that c changed or that is gone.
THEOREM MarksStayOnTheirLines == Spec => MarksFollow
<1> DEFINE Moves == \/ last' \in {"a", "i", "c", "d", "m", "r"}
                    \/ last' = "t" /\ Len(ed'.lines) >= N
           Found(m) == LET t == ed.lines[ed.marks[m] + 1]
                      IN  \/ /\ ed'.marks[m] \in 0..Len(ed'.lines)-1
                             /\ ed'.lines[ed'.marks[m] + 1] = t
                          \/ /\ ed'.marks[m] = -1
                             /\ last' = "c" \/ Count(ed'.lines, t) < Count(ed.lines, t)
<1>1. IInv /\ [Next]_vars => [Moves => \A m \in Mark : ed.marks[m] \in 0..N-1 => Found(m)]_vars
  <2> SUFFICES ASSUME Safe, work \in Seq(Frame), Next, Moves, NEW m \in Mark,
                      ed.marks[m] \in 0..N-1
               PROVE  Found(m)
    BY DEF IInv
  <2>1. Marked(ed, m)
    BY DEF Marked, Safe, State, Good, N
  <2>2. Follows(ed, ed', m) => Found(m)
    BY DEF Follows
  <2>3. FollowsOrGoes(ed, ed', m) \/ (last' = "c" /\ ed'.marks[m] = -1) => Found(m)
    BY <2>2 DEF FollowsOrGoes
  <2> HIDE DEF Found
  <2>4. ASSUME NEW c \in CommandType, NEW rest, Execute(c, rest)
        PROVE  Found(m)
    <3>1. last' = c.op
      BY <2>4 DEF Execute
    <3>2. CASE Simple(c)
      BY <2>1, <2>3, <3>1, <3>2, SimpleMovesMarks
    <3>3. CASE Global(c, rest)
      BY <3>1, <3>3 DEF Global
    <3>4. QED
      BY <2>4, <3>2, <3>3 DEF Execute
  <2>5. CASE Type
    <3>1. PICK c \in Typed : Execute(c, <<>>)
      BY <2>5 DEF Type
    <3>2. c \in CommandType
      BY CommandAssumption DEF WellFormed
    <3>3. QED
      BY <2>4, <3>1, <3>2
  <2>6. CASE ExecuteNested
    <3>1. PICK c \in NextCommand(Head(work)) :
            Execute(c, <<[Head(work) EXCEPT !.pc = @ + 1]>> \o Tail(work))
      BY <2>6 DEF ExecuteNested
    <3>2. Head(work) \in Frame
      BY <2>6, FrameOfWork DEF ExecuteNested
    <3>3. c \in CommandType
      BY <2>6, <3>1, <3>2, NextCommandIsACommand DEF ExecuteNested
    <3>4. QED
      BY <2>4, <3>1, <3>3
  <2>7. CASE SelectTarget
    <3>1. ed'.lines = ed.lines /\ ed'.marks = ed.marks
      BY <2>7 DEF SelectTarget, Safe, State, Good, EditorType
    <3>2. QED
      BY <2>1, <2>2, <3>1, SameMarksFollow
  <2>8. CASE EndGlobal \/ EndOfInput \/ Ended
    <3>1. ed' = ed
      BY <2>8 DEF EndGlobal, EndOfInput, Ended, Exit, vars
    <3>2. QED
      BY <2>1, <2>2, <3>1, SameMarksFollow
  <2>9. QED
    BY <2>5, <2>6, <2>7, <2>8 DEF Next, NestedStep
<1>2. QED
  BY <1>1, Invariance, PTL DEF Spec, MarksFollow

-----------------------------------------------------------------------------
(* What C leaves undefined                                                   *)

CommaAt(s, k) == Kind(s, k) = ","

NoComma(addr) == \A k \in DOMAIN addr : ~CommaAt(addr, k)

LineNumberAt(addr, k) == Kind(addr, k) = "num" /\ ~addr[k].lead

Ascending(addr) ==
  LineNumberAt(addr, 1) /\ LineNumberAt(addr, 3) /\ addr[1].val <= addr[3].val

\* an address whose ends are in order in every buffer: one address, one that begins or
\* ends with a comma, and the pairs "m,n" of line numbers, m <= n, and "x,$"
InOrder(addr) ==
  \/ NoComma(addr)
  \/ CommaAt(addr, 1) \/ Len(addr) = 2
  \/ Len(addr) = 3 /\ CommaAt(addr, 2) /\ Kind(addr, 3) = "$"
  \/ Len(addr) = 3 /\ CommaAt(addr, 2) /\ Ascending(addr)

\* Text that is not empty, ranges in order, no range before a and r, a file name after
\* e and E and, where memory may fail, copies that are put after the last line.
Cautious(c) ==
  /\ c.op \in {"a", "i", "c"} => c.text # <<>>
  /\ c.op \in {"a", "r"} => NoComma(c.addr)
  /\ c.op \in {"d", "c", "j", "t"} => InOrder(c.addr)
  /\ c.op \in {"e", "E"} => c.file # NoName
  /\ CopiesFail /\ c.op = "t" => c.dest = <<Sym("$")>>

\* the same of the commands under g and v: a line number is put before a single one that
\* does not begin with g or v
NumbersCautiously(list, cmds) ==
  \/ list
  \/ cmds[1].op \in {"g", "v"} /\ cmds[1].addr = <<>>
  \/ cmds[1].op \notin {"g", "v"} /\ NoComma(cmds[1].addr)

Prudent(c) == Cautious(c) /\ (c.op \in {"g", "v"} => NumbersCautiously(c.list, c.cmds))

Careful == \A c \in Command : Prudent(c)

\* the current line is not the place after the last line, nor is the one u restores
Steady(e) ==
  /\ e.current_line # Len(e.lines)
  /\ e.undo_valid => e.undo_current_line # Len(e.undo_lines)

\* An operation that saves a structure with a line for its current line has only its own
\* current line to answer for.
LEMMA SavedIsSteady ==
  ASSUME NEW e, NEW x, Steady(e), Back(e, x), x.current_line # Len(x.lines)
  PROVE  Steady(x)
BY DEF Steady, Back

\* Text put in leaves the current line on the last line of the text.
LEMMA AppendIsSteady ==
  ASSUME NEW e, Good(e), Steady(e), NEW addr \in -1..Len(e.lines) - 1, NEW text \in Seq(Text),
         text # <<>>
  PROVE  Steady(AppendLine(e, addr, text))
<1> DEFINE x == AppendLine(e, addr, text)
<1>1. e \in EditorType /\ e.lines \in Seq(Text) /\ Len(e.lines) \in Nat /\ Len(text) \in Nat
  BY FieldsOf
<1>2. x.lines = Splice(e.lines, addr + 1, text) /\ x.current_line = addr + Len(text)
  BY <1>1 DEF AppendLine, PrepareUndo, EditorType
<1>3. Len(x.lines) = Len(e.lines) + Len(text)
  <2>1. addr + 1 \in 0..Len(e.lines)
    BY <1>1
  <2>2. QED
    BY <1>1, <1>2, <2>1, SpliceIsSeq
<1>4. x.current_line # Len(x.lines)
  <2> HIDE DEF x
  <2>1. QED
    BY <1>1, <1>2, <1>3
<1>5. QED
  BY <1>1, <1>4, OperationsSave, SavedIsSteady

\* So does text put in before a line.
LEMMA InsertIsSteady ==
  ASSUME NEW e, Good(e), Steady(e), NEW addr \in 0..Len(e.lines), NEW text \in Seq(Text),
         text # <<>>
  PROVE  Steady(InsertLine(e, addr, text))
<1> DEFINE x == InsertLine(e, addr, text)
<1>1. e \in EditorType /\ e.lines \in Seq(Text) /\ Len(e.lines) \in Nat /\ Len(text) \in Nat
  BY FieldsOf
<1>2. x.lines = Splice(e.lines, addr, text) /\ x.current_line = addr + Len(text) - 1
  BY <1>1 DEF InsertLine, PrepareUndo, EditorType
<1>3. Len(x.lines) = Len(e.lines) + Len(text)
  BY <1>1, <1>2, SpliceIsSeq
<1>4. x.current_line # Len(x.lines)
  <2> HIDE DEF x
  <2>1. QED
    BY <1>1, <1>2, <1>3
<1>5. QED
  BY <1>1, <1>4, OperationsSave, SavedIsSteady

\* The snapshot alone moves nothing.
LEMMA SavingIsSteady ==
  ASSUME NEW e, Good(e), Steady(e)
  PROVE  Steady(PrepareUndo(e))
<1>1. /\ PrepareUndo(e).lines = e.lines /\ PrepareUndo(e).current_line = e.current_line
      /\ e \in EditorType
  BY FieldsOf DEF PrepareUndo, EditorType
<1>2. QED
  BY <1>1, OperationsSave, SavedIsSteady DEF Steady

\* delete_range takes the line that follows, or the last one.
LEMMA DeleteIsSteady ==
  ASSUME NEW e, Good(e), Steady(e), NEW r, InBuffer(r, Len(e.lines)), Width(r) >= 0
  PROVE  Steady(DeleteRange(e, r))
<1> DEFINE x == DeleteRange(e, r)
           n == Len(e.lines) - Width(r)
<1>1. e \in EditorType /\ Len(e.lines) \in Nat /\ Width(r) \in Int /\ r.start \in Int
  BY FieldsOf DEF InBuffer, Width
<1>2. x.current_line = IF r.start < n THEN r.start ELSE n - 1
  BY <1>1 DEF DeleteRange, PrepareUndo, EditorType
<1>3. Len(x.lines) = n
  BY DeleteRangeIsGood
<1>4. x.current_line # Len(x.lines)
  <2>1. n \in Int
    BY <1>1
  <2> HIDE DEF x, n
  <2>2. QED
    BY <1>1, <1>2, <1>3, <2>1
<1>5. QED
  BY <1>1, <1>4, OperationsSave, SavedIsSteady

\* change_range puts its text in where it has deleted.
LEMMA ChangeIsSteady ==
  ASSUME NEW e, Good(e), Steady(e), NEW r, InBuffer(r, Len(e.lines)), Width(r) >= 0,
         NEW text \in Seq(Text), text # <<>>
  PROVE  Steady(ChangeRange(e, r, text))
<1> DEFINE d == DeleteRange(PrepareUndo(e), r)
<1>1. Good(PrepareUndo(e)) /\ PrepareUndo(e).lines = e.lines /\ Steady(PrepareUndo(e))
  BY PrepareUndoIsGood, SavingIsSteady
<1>2. Good(d) /\ Len(d.lines) = Len(e.lines) - Width(r) /\ r.start <= Len(d.lines) /\ Steady(d)
  BY <1>1, DeleteRangeIsGood, DeleteIsSteady
<1>3. r.start \in 0..Len(d.lines)
  BY <1>2, FieldsOf DEF InBuffer
<1>4. ChangeRange(e, r, text) = InsertLine(d, r.start, text)
  <2> HIDE DEF d
  <2>1. ~(r.start > Len(d.lines))
    BY <1>2, <1>3, FieldsOf
  <2>2. QED
    BY <2>1 DEF ChangeRange, d
<1> HIDE DEF d
<1>5. QED
  BY <1>2, <1>3, <1>4, InsertIsSteady

\* move_range and copy_range take the last line they have put in.
LEMMA MoveIsSteady ==
  ASSUME NEW e, Good(e), Steady(e), NEW r, InBuffer(r, Len(e.lines)), Width(r) >= 0,
         NEW dest \in 0..Len(e.lines)-1, dest \notin r.start..r.end
  PROVE  Steady(MoveRange(e, r, dest))
<1> DEFINE x == MoveRange(e, r, dest)
           k == Width(r)
           adjusted == IF dest > r.end THEN dest - k ELSE dest
<1>1. /\ e \in EditorType /\ e.lines \in Seq(Text) /\ Len(e.lines) \in Nat
      /\ r.start \in 0..Len(e.lines)-1 /\ r.end \in 0..Len(e.lines)-1 /\ k = r.end - r.start + 1
  BY FieldsOf DEF InBuffer, Width
<1>2. x.lines = MoveLines(e.lines, r, dest) /\ x.current_line = adjusted + k
  BY <1>1 DEF MoveRange, PrepareUndo, EditorType
<1>3. Len(x.lines) = Len(e.lines)
  BY <1>1, <1>2, MoveLinesIsSeq
<1>4. x.current_line # Len(x.lines)
  <2>1. k \in Int /\ k >= 0
    BY <1>1
  <2> HIDE DEF x, k
  <2>2. CASE dest > r.end
    BY <1>1, <1>2, <1>3, <2>1, <2>2
  <2>3. CASE dest < r.start /\ ~(dest > r.end)
    BY <1>1, <1>2, <1>3, <2>1, <2>3
  <2>4. QED
    BY <1>1, <2>2, <2>3
<1>5. QED
  BY <1>1, <1>4, OperationsSave, SavedIsSteady

\* copy_range takes the last of the copies.
LEMMA CopyIsSteady ==
  ASSUME NEW e, Good(e), Steady(e), NEW r, InBuffer(r, Len(e.lines)), Width(r) >= 1,
         NEW dest \in 0..Len(e.lines)-1
  PROVE  Steady(CopyRange(e, r, dest))
<1> DEFINE x == CopyRange(e, r, dest)
           k == Width(r)
<1>1. e \in EditorType /\ e.lines \in Seq(Text) /\ Len(e.lines) \in Nat /\ k \in Nat /\ k > 0
  BY FieldsOf DEF InBuffer, Width
<1>2. x.lines = CopySlots(e.lines, r, dest, k) /\ x.current_line = dest + k
  BY <1>1 DEF CopyRange, PrepareUndo, EditorType
<1>3. Len(x.lines) = Len(e.lines) + k
  BY <1>1, <1>2, CopySlotsIsSeq
<1>4. x.current_line # Len(x.lines)
  <2> HIDE DEF x, k
  <2>1. QED
    BY <1>1, <1>2, <1>3
<1>5. QED
  BY <1>1, <1>4, OperationsSave, SavedIsSteady

\* join_range takes the line it has made.
LEMMA JoinIsSteady ==
  ASSUME NEW e, Good(e), Steady(e), NEW r, InBuffer(r, Len(e.lines)), Width(r) >= 1
  PROVE  Steady(JoinRange(e, r))
<1> DEFINE x == JoinRange(e, r)
           k == r.end - r.start
           cut == Cut(e.lines, r.start + 1, k)
           joined == Concat(SubSeq(e.lines, r.start + 1, r.end + 1))
<1>1. /\ e \in EditorType /\ e.lines \in Seq(Text) /\ Len(e.lines) \in Nat
      /\ r.start \in 0..Len(e.lines)-1 /\ r.end \in r.start..Len(e.lines)-1
  BY FieldsOf DEF InBuffer, Width
<1>2. CASE r.start = r.end
  <2>1. x.lines = e.lines /\ x.current_line = r.start
    BY <1>1, <1>2 DEF JoinRange, PrepareUndo, EditorType
  <2>2. QED
    BY <1>1, <2>1, OperationsSave, SavedIsSteady
<1>3. CASE r.start # r.end
  <2>1. x.lines = [cut EXCEPT ![r.start + 1] = joined] /\ x.current_line = r.start
    BY <1>1, <1>3 DEF JoinRange, PrepareUndo, EditorType
  <2>2. cut \in Seq(Text) /\ Len(cut) = Len(e.lines) - k
    <3>1. r.start + 1 \in Nat /\ k \in 0..Len(e.lines)
      BY <1>1
    <3> HIDE DEF k
    <3>2. QED
      BY <1>1, <3>1, CutIsSeq
  <2>3. Len(x.lines) = Len(e.lines) - k
    <3> HIDE DEF cut, joined, x, k
    <3>1. /\ DOMAIN [cut EXCEPT ![r.start + 1] = joined] = DOMAIN cut
          /\ DOMAIN cut = 1..Len(cut) /\ Len(cut) \in Nat
      BY <2>2
    <3>2. QED
      BY <2>1, <2>2, <3>1
  <2>4. x.current_line # Len(x.lines)
    <3> HIDE DEF x
    <3>1. QED
      BY <1>1, <2>1, <2>3
  <2>5. QED
    BY <1>1, <2>4, OperationsSave, SavedIsSteady
<1>4. QED
  BY <1>2, <1>3

\* substitute_range takes the last line of its range.
LEMMA SubstituteIsSteady ==
  ASSUME NEW e, Good(e), Steady(e), NEW r, InBuffer(r, Len(e.lines)), NEW sub
  PROVE  Steady(SubstituteRange(e, r, sub))
<1> DEFINE x == SubstituteRange(e, r, sub)
<1>1. e \in EditorType /\ Len(e.lines) \in Nat /\ r.end \in 0..Len(e.lines)-1
  BY FieldsOf DEF InBuffer
<1>2. CASE AnyChanges(e.lines, r, sub)
  <2>1. x.lines = SubstituteLines(e.lines, r, sub) /\ x.current_line = r.end
    BY <1>1, <1>2 DEF SubstituteRange, PrepareUndo, EditorType
  <2>2. Len(x.lines) = Len(e.lines)
    BY <1>1, <2>1 DEF SubstituteLines
  <2>3. x.current_line # Len(x.lines)
    <3> HIDE DEF x
    <3>1. QED
      BY <1>1, <2>1, <2>2
  <2>4. QED
    BY <1>1, <2>3, OperationsSave, SavedIsSteady
<1>3. CASE ~AnyChanges(e.lines, r, sub)
  BY <1>3, SavingIsSteady DEF SubstituteRange
<1>4. QED
  BY <1>2, <1>3

\* u takes lines and current line as they were saved.
LEMMA UndoIsSteady ==
  ASSUME NEW e, Good(e), Steady(e), e.undo_valid
  PROVE  Steady(Undo(e))
<1>1. e \in EditorType
  BY DEF Good
<1>2. /\ Undo(e).lines = e.undo_lines /\ Undo(e).current_line = e.undo_current_line
      /\ Undo(e).undo_valid = FALSE
  BY <1>1 DEF Undo, EditorType
<1>3. QED
  BY <1>2 DEF Steady

\* A new structure, with or without a file.
LEMMA NewIsSteady ==
  /\ Steady(InitEditor)
  /\ \A name \in FileName : \A content \in Seq(Text) : Steady(LoadFile(InitEditor, name, content))
<1>1. Len(<<>>) = 0
  OBVIOUS
<1>2. /\ InitEditor.lines = <<>> /\ InitEditor.current_line = -1 /\ InitEditor.undo_valid = FALSE
      /\ InitEditor \in EditorType
  BY DEF InitEditor, EditorType
<1>3. ASSUME NEW name \in FileName, NEW content \in Seq(Text)
      PROVE  Steady(LoadFile(InitEditor, name, content))
  <2> DEFINE x == LoadFile(InitEditor, name, content)
  <2>1. <<>> \o content = content /\ Len(content) \in Nat
    OBVIOUS
  <2>2. /\ x.lines = <<>> \o content /\ x.current_line = Len(<<>>) + Len(content) - 1
        /\ x.undo_valid = FALSE
    BY <1>2 DEF LoadFile, EditorType
  <2> HIDE DEF x
  <2>3. Len(x.lines) = Len(content) /\ x.current_line = Len(content) - 1
    BY <1>1, <2>1, <2>2
  <2>4. Steady(x)
    BY <2>1, <2>2, <2>3 DEF Steady
  <2>5. QED
    BY <2>4 DEF x
<1>4. QED
  BY <1>1, <1>2, <1>3 DEF Steady

\* A command that sets the current line to a line, or another field.
LEMMA SettingIsSteady ==
  ASSUME NEW e, Good(e), Steady(e)
  PROVE  /\ \A i : i < Len(e.lines) /\ i \in Int => Steady([e EXCEPT !.current_line = i])
         /\ \A m, i : i < Len(e.lines) /\ i \in Int =>
              Steady([e EXCEPT !.marks[m] = i, !.current_line = i])
         /\ \A f : Steady([e EXCEPT !.filename = f])
         /\ \A d, f : Steady([e EXCEPT !.dirty = d, !.filename = f])
<1>1. e \in EditorType /\ Len(e.lines) \in Nat
  BY FieldsOf
<1>2. ASSUME NEW i \in Int, i < Len(e.lines) PROVE Steady([e EXCEPT !.current_line = i])
  BY <1>1, <1>2 DEF Steady, EditorType
<1>3. ASSUME NEW m, NEW i \in Int, i < Len(e.lines)
      PROVE  Steady([e EXCEPT !.marks[m] = i, !.current_line = i])
  BY <1>1, <1>3 DEF Steady, EditorType
<1>4. ASSUME NEW f PROVE Steady([e EXCEPT !.filename = f])
  BY <1>1 DEF Steady, EditorType
<1>5. ASSUME NEW d, NEW f PROVE Steady([e EXCEPT !.dirty = d, !.filename = f])
  BY <1>1 DEF Steady, EditorType
<1>6. QED
  BY <1>2, <1>3, <1>4, <1>5

\* A set of line numbers that is not empty has a first one.
LEMMA HasFirst ==
  ASSUME NEW m \in Nat, NEW S \in SUBSET (0..m), S # {}
  PROVE  \E i \in S : \A k \in S : i <= k
<1> DEFINE T == {m - i : i \in S}
<1>1. T \in SUBSET (0..m) /\ T # {}
  <2>1. \A i \in S : m - i \in 0..m
    OBVIOUS
  <2>2. QED
    BY <2>1
<1> HIDE DEF T
<1>2. PICK x \in T : \A y \in T : x >= y
  BY <1>1, HasLast
<1>3. PICK i \in S : x = m - i
  BY DEF T
<1>4. \A k \in S : m - i >= m - k
  BY <1>2, <1>3 DEF T
<1>5. QED
  BY <1>4

\* From a line of the buffer search_pattern finds a line of the buffer, or none: it does
\* not read past the last line.
LEMMA SearchStaysInBuffer ==
  ASSUME NEW lines \in Seq(Text), NEW cur \in Int, cur < Len(lines), NEW pat, NEW forward
  PROVE  SearchPattern(lines, cur, pat, forward) \in 0..Len(lines)
<1> DEFINE n == Len(lines)
           start == IF cur >= 0 THEN cur ELSE 0
           hits == {i \in 1..n : lines[i] \in pat}
           later == {i \in hits : i > start + 1}
           earlier == {i \in hits : i <= start}
           from == IF forward THEN (IF later # {} THEN later ELSE hits)
                              ELSE (IF earlier # {} THEN earlier ELSE hits)
           first == CHOOSE i \in from : \A k \in from : i <= k
           final == CHOOSE i \in from : \A k \in from : i >= k
<1>1. n \in Nat
  BY LenProperties
<1>2. CASE hits = {}
  <2>1. ~(n > 0 /\ forward /\ start >= n)
    BY <1>1
  <2>2. SearchPattern(lines, cur, pat, forward) = 0
    BY <1>2, <2>1 DEF SearchPattern
  <2>3. QED
    BY <1>1, <2>2
<1>3. CASE hits # {}
  <2>1. from \in SUBSET (1..n) /\ from # {}
    BY <1>3
  <2>2. SearchPattern(lines, cur, pat, forward) = IF forward THEN first ELSE final
    BY <1>3 DEF SearchPattern
  <2> HIDE DEF from, n
  <2>3. from \in SUBSET (0..n)
    BY <1>1, <2>1
  <2>4. \E i \in from : \A k \in from : i <= k
    BY <1>1, <2>1, <2>3, HasFirst
  <2>5. \E i \in from : \A k \in from : i >= k
    BY <1>1, <2>1, <2>3, HasLast
  <2>6. first \in from /\ final \in from
    BY <2>4, <2>5
  <2>7. QED
    BY <1>1, <2>2, <2>3, <2>6 DEF n
<1>4. QED
  BY <1>2, <1>3

\* m and t are given a line of the buffer, or none.
LEMMA DestinationIsALine ==
  ASSUME NEW c \in CommandType, Safe, Steady(ed), c.op \in {"m", "t"}, c.dest # <<>>, N > 0
  PROVE  Destination(c) \in {NoLine} \cup 0..N - 1
<1> DEFINE s     == c.dest
           i     == SkipBlank(s, 1)
           found == SearchPattern(ed.lines, ed.current_line, s[i].pat, Kind(s, i) = "/")
           from  == FromFound(s, i, found, N, ed.marks)
           one   == ParseOneAddress(s, i, Current1(ed.current_line), N, ed.marks)
<1>1. /\ ed.lines \in Seq(Text) /\ Len(ed.lines) = N /\ N \in Nat /\ s \in Seq(Token)
      /\ ed.current_line \in 0..N - 1
  BY LenN, FilenameType, CommandFields DEF InBounds, Steady
<1>2. found \in 0..N
  <2>1. ed.current_line \in Int /\ ed.current_line < Len(ed.lines)
    BY <1>1
  <2>2. QED
    BY <1>1, <2>1, SearchStaysInBuffer
<1>3. \A n : LineInBuffer(n, N) \in {NoLine} \cup 0..N - 1
  BY <1>1 DEF LineInBuffer
<1>4. from \in {NoLine} \cup 0..N - 1
  <2> HIDE DEF found
  <2>1. found # PastEnd
    BY <1>1, <1>2 DEF PastEnd
  <2>2. QED
    BY <1>3, <2>1 DEF FromFound
<1>5. Destination(c) = IF Kind(s, i) = "end" THEN ed.current_line
                       ELSE IF Kind(s, i) \in {"/", "?"} THEN from
                       ELSE IF one.res = "line" THEN LineInBuffer(one.line, N) ELSE NoLine
  BY <1>1 DEF Destination, ParseAddress
<1> HIDE DEF i, from, one, s
<1>6. QED
  BY <1>1, <1>3, <1>4, <1>5

-----------------------------------------------------------------------------
(* Addresses whose ends are in order                                         *)

\* Without a comma both addresses are the one that is there.
LEMMA OneAddress ==
  ASSUME NEW s, NEW current, NEW final, NEW marks, \A k : ~CommaAt(s, k),
         ParseEdAddress(s, current, final, marks).ok
  PROVE  LET p == ParseEdAddress(s, current, final, marks) IN p.addr1 = p.addr2
<1> DEFINE i == SkipBlank(s, 1)
           a == ParseOneAddress(s, i, current, final, marks)
           p == ParseEdAddress(s, current, final, marks)
           None == Kind(s, i) \in {"end", "#"}
<1> HIDE DEF None
<1>1. CASE None
  BY <1>1 DEF ParseEdAddress, Parsed, None
<1>2. CASE ~None
  <2>1. p = FirstAddress(s, a, current, final, marks) /\ p.ok
    BY <1>2 DEF ParseEdAddress, None
  <2> HIDE DEF a, p
  <2>2. p = SyntaxError \/ p = Parsed(a.line, a.line, FALSE, SkipBlank(s, a.rest))
    BY <2>1 DEF FirstAddress, CommaAt
  <2>3. \A x, j : Parsed(x, x, FALSE, j).addr1 = Parsed(x, x, FALSE, j).addr2
    BY DEF Parsed
  <2>4. SyntaxError.addr1 = SyntaxError.addr2
    BY DEF SyntaxError
  <2>5. p.addr1 = p.addr2
    <3>1. CASE p = SyntaxError
      BY <2>4, <3>1
    <3>2. CASE p = Parsed(a.line, a.line, FALSE, SkipBlank(s, a.rest))
      BY <2>3, <3>2
    <3>3. QED
      BY <2>2, <3>1, <3>2
  <2>6. QED
    BY <2>5 DEF p
<1>3. QED
  BY <1>1, <1>2

\* The tokens of an address before the letter of its command.
LEMMA LetterAtTheEnd ==
  ASSUME NEW addr \in Seq(Token)
  PROVE  LET s == addr \o <<Sym("op")>>
         IN  /\ Len(s) = Len(addr) + 1 /\ Len(addr) \in Nat
             /\ \A k \in 1..Len(addr) : s[k] = addr[k] /\ Kind(s, k) = Kind(addr, k)
             /\ Kind(s, Len(addr) + 1) = "op"
             /\ \A k : k \notin 1..Len(addr) + 1 => Kind(s, k) = "end"
<1> DEFINE op == <<Sym("op")>>
           T  == Token \cup {Sym("op")}
           s  == addr \o op
<1>1. addr \in Seq(T) /\ op \in Seq(T) /\ Len(op) = 1 /\ op[1] = Sym("op") /\ Len(addr) \in Nat
  OBVIOUS
<1> HIDE DEF op, T
<1>2. /\ Len(s) = Len(addr) + 1
      /\ \A k \in 1..Len(addr) : s[k] = addr[k]
      /\ s[Len(addr) + 1] = op[1]
  BY <1>1, ConcatProperties
<1> HIDE DEF s
<1>3. \A k \in 1..Len(addr) : Kind(s, k) = Kind(addr, k)
  BY <1>1, <1>2 DEF Kind
<1>4. Kind(s, Len(addr) + 1) = "op"
  BY <1>1, <1>2 DEF Kind, Sym
<1>5. QED
  BY <1>1, <1>2, <1>3, <1>4 DEF Kind, s, op

\* A comma is neither a letter nor a number nor "$" nor the end of the line.
LEMMA CommaIsNoOther ==
  ASSUME NEW s, NEW k, CommaAt(s, k)
  PROVE  Kind(s, k) \notin {"op", "num", "$", "end", "blank"}
BY Zenon DEF CommaAt

\* A comma is a token of the line.
LEMMA CommaInLine ==
  ASSUME NEW s, NEW k, CommaAt(s, k)
  PROVE  k \in 1..Len(s)
<1>1. Kind(s, k) # "end"
  BY CommaIsNoOther
<1>2. QED
  BY <1>1 DEF Kind

\* What parse_one_address makes of a letter, of "$" and of a line number.
LEMMA SimpleAddresses ==
  ASSUME NEW s, NEW k \in Int, NEW current, NEW final \in Nat, NEW marks
  PROVE  LET a == ParseOneAddress(s, k, current, final, marks)
         IN  /\ Kind(s, k) = "op" => a.res = "none"
             /\ CommaAt(s, k) => a.line = 0
             /\ Kind(s, k) = "$" => a.line = final
             /\ Kind(s, k) = "num" /\ ~s[k].lead /\ s[k].val \in Int /\ a.res # "error" =>
                  a.line = s[k].val
<1> DEFINE a == ParseOneAddress(s, k, current, final, marks)
           none == [amount |-> 0, rest |-> k]
<1>1. Kind(s, k) \notin {"+", "-"} => OffsetAt(s, k) = none
  BY DEF OffsetAt
<1>2. none.amount = 0 /\ none.rest = k
  OBVIOUS
<1> HIDE DEF none
<1>3. ASSUME Kind(s, k) = "op" PROVE a.res = "none"
  BY <1>1, <1>2, <1>3 DEF ParseOneAddress, BaseAt, NoAddress
<1>4. ASSUME CommaAt(s, k) PROVE a.line = 0
  BY <1>4 DEF ParseOneAddress, NoAddress, CommaAt
<1>5. ASSUME Kind(s, k) = "$" PROVE a.line = final
  <2>1. a = Checked(final + 0, final, k, k + 1)
    BY <1>1, <1>2, <1>5 DEF ParseOneAddress, BaseAt
  <2>2. QED
    BY <2>1 DEF Checked, AddressAllowed, AddressOf
<1>6. ASSUME Kind(s, k) = "num", ~s[k].lead, s[k].val \in Int, a.res # "error"
      PROVE  a.line = s[k].val
  <2>1. a = Checked(s[k].val + 0, final, k, k + 1)
    BY <1>1, <1>2, <1>6 DEF ParseOneAddress, BaseAt
  <2> HIDE DEF a
  <2>2. QED
    BY <1>6, <2>1 DEF Checked, AddressAllowed, AddressOf, BadAddress
<1>7. QED
  BY <1>3, <1>4, <1>5, <1>6

\* "$" as a destination is the last line.
LEMMA DollarIsLast ==
  ASSUME NEW c, c.dest = <<Sym("$")>>, N \in Nat, N > 0
  PROVE  Destination(c) = N - 1
<1> DEFINE s == c.dest
           one == ParseOneAddress(s, 1, Current1(ed.current_line), N, ed.marks)
<1>1. Len(s) = 1 /\ s[1] = Sym("$") /\ s[1].kind = "$"
  BY DEF Sym
<1> HIDE DEF s
<1>2. Kind(s, 1) = "$"
  BY <1>1 DEF Kind
<1>3. SkipBlank(s, 1) = 1
  BY <1>2 DEF SkipBlank
<1>4. one.line = N /\ one.res = "line"
  <2> DEFINE o == [amount |-> 0, rest |-> 1]
  <2>1. OffsetAt(s, 1) = o /\ o.amount = 0 /\ o.rest = 1
    BY <1>2 DEF OffsetAt
  <2> HIDE DEF o
  <2>2. one = Checked(N + 0, N, 1, 1 + 1)
    BY <1>2, <2>1 DEF ParseOneAddress, BaseAt
  <2>3. QED
    BY <2>2 DEF Checked, AddressAllowed, AddressOf
<1> HIDE DEF one
<1>5. Destination(c) = LineInBuffer(N, N)
  BY <1>2, <1>3, <1>4 DEF Destination, ParseAddress, s, one, N
<1>6. N \in 1..N
  OBVIOUS
<1>7. LineInBuffer(N, N) = N - 1
  BY <1>6, Zenon DEF LineInBuffer
<1>8. QED
  BY <1>5, <1>7, Zenon

\* A line number is the address of its line.
LEMMA NumberAddress ==
  ASSUME NEW s, NEW k \in Int, NEW current, NEW final \in Nat, NEW marks,
         Kind(s, k) = "num", ~s[k].lead, s[k].val \in Int,
         ParseOneAddress(s, k, current, final, marks).res # "error"
  PROVE  ParseOneAddress(s, k, current, final, marks).line = s[k].val
BY SimpleAddresses

\* What is known of a pair of addresses when its parts are known: o is the place of the
\* comma.
LEMMA PairIsRead ==
  ASSUME NEW T, NEW s \in Seq(T), NEW current, NEW final \in Nat, NEW marks,
         ParseEdAddress(s, current, final, marks).ok
  PROVE  LET p == ParseEdAddress(s, current, final, marks)
             a == ParseOneAddress(s, SkipBlank(s, 1), current, final, marks)
             b(o) == ParseOneAddress(s, SkipBlank(s, o + 1), current, final, marks)
         IN  \/ p.addr1 = p.addr2
             \/ \E o \in 1..Len(s) :
                  /\ CommaAt(s, o) /\ a.res # "error" /\ b(o).res # "error"
                  /\ p.addr1 = IF a.line = 0 THEN 1 ELSE a.line
                  /\ p.addr2 = IF b(o).res = "none" THEN final ELSE b(o).line
<1> DEFINE p == ParseEdAddress(s, current, final, marks)
           i == SkipBlank(s, 1)
           a == ParseOneAddress(s, i, current, final, marks)
           b(n) == ParseOneAddress(s, SkipBlank(s, n + 1), current, final, marks)
           o == SkipBlank(s, a.rest)
           ReadAt(n) ==
             /\ CommaAt(s, n) /\ a.res # "error" /\ b(n).res # "error"
             /\ p.addr1 = IF a.line = 0 THEN 1 ELSE a.line
             /\ p.addr2 = IF b(n).res = "none" THEN final ELSE b(n).line
           None == Kind(s, i) \in {"end", "#"}
<1> HIDE DEF None
<1>1. CASE None
  <2>1. p.addr1 = p.addr2
    BY <1>1 DEF ParseEdAddress, Parsed, None
  <2>2. QED
    BY <2>1
<1>2. CASE ~None
  <2>1. i \in 1..Len(s) + 1 /\ a.rest \in 1..Len(s) + 1
    BY SkipBlankIsSound, ParseOneAddressIsSound DEF Sound
  <2>2. o \in 1..Len(s) + 1
    BY <2>1, SkipBlankIsSound
  <2>3. p = FirstAddress(s, a, current, final, marks) /\ p.ok
    BY <1>2 DEF ParseEdAddress, None
  <2>4. /\ SyntaxError.ok = FALSE
        /\ \A x, n : Parsed(x, x, FALSE, n).addr1 = Parsed(x, x, FALSE, n).addr2
    BY DEF SyntaxError, Parsed
  <2>5. CASE ~CommaAt(s, o)
    <3> HIDE DEF a, p
    <3>1. p = SyntaxError \/ p = Parsed(a.line, a.line, FALSE, o)
      BY <2>3, <2>5 DEF FirstAddress, CommaAt
    <3>2. p # SyntaxError
      BY <2>3, <2>4
    <3>3. p = Parsed(a.line, a.line, FALSE, o)
      BY <3>1, <3>2
    <3>4. p.addr1 = p.addr2
      BY <3>3 DEF Parsed
    <3>5. QED
      BY <3>4 DEF p, a
  <2>6. CASE CommaAt(s, o)
    <3>1. o \in 1..Len(s)
      BY <2>6, CommaInLine
    <3> DEFINE second == b(o)
    <3>2. a.res # "error" /\ p = SecondAddress(s, a, second, final)
      BY <2>3, <2>4, <2>6 DEF FirstAddress, CommaAt
    <3> HIDE DEF second, a, p
    <3>3. second.res # "error"
      BY <2>3, <2>4, <3>2 DEF SecondAddress
    <3>4. /\ p.addr1 = IF a.line = 0 THEN 1 ELSE a.line
          /\ p.addr2 = IF second.res = "none" THEN final ELSE second.line
      BY <3>2, <3>3 DEF SecondAddress, Parsed
    <3>5. second = b(o)
      BY DEF second, a, p
    <3> HIDE DEF o, b
    <3>6. ReadAt(o)
      <4>1. CommaAt(s, o) /\ a.res # "error" /\ b(o).res # "error"
        BY <2>6, <3>2, <3>3, <3>5
      <4>2. /\ p.addr1 = IF a.line = 0 THEN 1 ELSE a.line
            /\ p.addr2 = IF b(o).res = "none" THEN final ELSE b(o).line
        BY <3>4, <3>5
      <4>3. QED
        BY <4>1, <4>2
    <3> HIDE DEF ReadAt
    <3>7. \E n \in 1..Len(s) : ReadAt(n)
      BY <3>1, <3>6
    <3>8. QED
      BY <3>7 DEF ReadAt, p, a, b
  <2>7. QED
    BY <2>5, <2>6
<1>3. QED
  BY <1>1, <1>2

\* The comma of a range written in order.
LEMMA CommaOfARange ==
  ASSUME NEW addr \in Seq(Token), InOrder(addr),
         NEW o, CommaAt(addr, o), ~CommaAt(addr, 1)
  PROVE  /\ o = 2
         /\ \/ Len(addr) = 2
            \/ Len(addr) = 3 /\ Kind(addr, 3) = "$"
            \/ Len(addr) = 3 /\ Ascending(addr)
<1>1. DOMAIN addr = 1..Len(addr) /\ o \in DOMAIN addr /\ o # 1
  BY CommaInLine
<1>2. ~NoComma(addr)
  BY <1>1 DEF NoComma
<1> DEFINE n == Len(addr)
<1>3. n = 2 => o = 2
  BY <1>1
<1>4. n = 3 /\ ~CommaAt(addr, 3) => o = 2
  BY <1>1
<1>5. Kind(addr, 3) = "$" \/ Ascending(addr) => ~CommaAt(addr, 3)
  BY CommaIsNoOther DEF Ascending, LineNumberAt
<1>6. QED
  BY <1>2, <1>3, <1>4, <1>5 DEF InOrder

\* A number is an integer.
LEMMA NumbersAreIntegers ==
  ASSUME NEW t \in Token, t.kind = "num"
  PROVE  t.val \in Int
<1>1. CASE t \in [kind : {"+", "-", ".", "$", ",", ";", "blank", "#"}]
  BY <1>1
<1>2. CASE t \in [kind : {"num"}, val : Nat, lead : BOOLEAN]
  BY <1>2
<1>3. CASE t \in [kind : {"mark"}, mark : Mark]
  BY <1>3
<1>4. CASE t \in [kind : {"/", "?"}, pat : SUBSET Text]
  BY <1>4
<1>5. QED
  BY <1>1, <1>2, <1>3, <1>4 DEF Token

\* The two line numbers of a range, before the letter of the command.
Numbers(s) == Ascending(s) /\ s[1].val \in Int /\ s[3].val \in Int

\* They stay what they are.
LEMMA NumbersBeforeLetter ==
  ASSUME NEW addr \in Seq(Token), Len(addr) = 3, Ascending(addr)
  PROVE  LET s == addr \o <<Sym("op")>>
         IN  Numbers(s) /\ Kind(s, 1) = "num" /\ Kind(s, 3) = "num"
<1> DEFINE s == addr \o <<Sym("op")>>
<1>1. \A k \in 1..3 : s[k] = addr[k] /\ Kind(s, k) = Kind(addr, k)
  BY LetterAtTheEnd
<1> HIDE DEF s
<1>2. s[1] = addr[1] /\ Kind(s, 1) = Kind(addr, 1) /\ s[3] = addr[3] /\ Kind(s, 3) = Kind(addr, 3)
  BY <1>1
<1>3. LineNumberAt(s, 1) /\ LineNumberAt(s, 3) /\ s[1].val <= s[3].val
  BY <1>2 DEF Ascending, LineNumberAt
<1>4. addr[1].kind = "num" /\ addr[3].kind = "num"
  BY DEF Ascending, LineNumberAt, Kind
<1>5. addr[1] \in Token /\ addr[3] \in Token
  BY ElementOfSeq
<1>6. addr[1].val \in Int /\ addr[3].val \in Int
  BY <1>4, <1>5, NumbersAreIntegers
<1>7. Numbers(s)
  BY <1>2, <1>3, <1>6 DEF Numbers, Ascending
<1>8. QED
  BY <1>3, <1>7 DEF s, LineNumberAt

\* Two line numbers in order are read as two lines in order.
LEMMA NumbersAreRead ==
  ASSUME NEW s, NEW current, NEW final \in Nat, NEW marks, Numbers(s),
         ParseOneAddress(s, 1, current, final, marks).res # "error",
         ParseOneAddress(s, 3, current, final, marks).res # "error"
  PROVE  ParseOneAddress(s, 1, current, final, marks).line <=
           ParseOneAddress(s, 3, current, final, marks).line
BY NumberAddress DEF Numbers, Ascending, LineNumberAt

\* The lines that the ends of a range written in order stand for.
LEMMA EndsOfARange ==
  ASSUME NEW addr \in Seq(Token), InOrder(addr), NEW current, NEW final \in Nat, NEW marks, NEW o
  PROVE  LET s == addr \o <<Sym("op")>>
             a == ParseOneAddress(s, SkipBlank(s, 1), current, final, marks)
             b == ParseOneAddress(s, SkipBlank(s, o + 1), current, final, marks)
         IN  CommaAt(s, o) /\ a.res # "error" /\ b.res # "error" =>
               a.line = 0 \/ b.res = "none" \/ b.line = final \/ a.line <= b.line
<1> SUFFICES ASSUME NEW s, s = addr \o <<Sym("op")>>, CommaAt(s, o),
                    NEW a, a = ParseOneAddress(s, SkipBlank(s, 1), current, final, marks),
                    NEW b, b = ParseOneAddress(s, SkipBlank(s, o + 1), current, final, marks),
                    a.res # "error", b.res # "error"
             PROVE  a.line = 0 \/ b.res = "none" \/ b.line = final \/ a.line <= b.line
  OBVIOUS
<1> DEFINE n == Len(addr)
<1>1. /\ n \in Nat
      /\ \A k \in 1..n : s[k] = addr[k] /\ Kind(s, k) = Kind(addr, k)
      /\ Kind(s, n + 1) = "op"
      /\ \A k : k \notin 1..n + 1 => Kind(s, k) = "end"
  BY LetterAtTheEnd
<1>2. \A k : Kind(s, k) = "blank" \/ SkipBlank(s, k) = k
  BY DEF SkipBlank
<1> HIDE DEF n
<1>3. o \in 1..n
  BY <1>1, CommaIsNoOther
<1>4. \A k \in 1..n : CommaAt(s, k) <=> CommaAt(addr, k)
  BY <1>1 DEF CommaAt
<1>5. CASE CommaAt(addr, 1)
  <2>1. SkipBlank(s, 1) = 1 /\ CommaAt(s, 1)
    BY <1>2, <1>4, <1>5, <1>1, <1>3, CommaIsNoOther
  <2>2. a.line = 0
    BY <2>1, SimpleAddresses
  <2>3. QED
    BY <2>2
<1>6. CASE ~CommaAt(addr, 1)
  <2>1. /\ o = 2
        /\ \/ n = 2
           \/ n = 3 /\ Kind(addr, 3) = "$"
           \/ n = 3 /\ Ascending(addr)
    BY <1>3, <1>4, <1>6, CommaOfARange DEF n
  <2>2. b = ParseOneAddress(s, SkipBlank(s, 3), current, final, marks)
    BY <2>1
  <2>3. CASE n = 2
    <3>1. SkipBlank(s, 3) = 3 /\ Kind(s, 3) = "op"
      BY <1>1, <1>2, <2>3
    <3>2. b.res = "none"
      BY <2>2, <3>1, SimpleAddresses
    <3>3. QED
      BY <3>2
  <2>4. CASE n = 3 /\ Kind(addr, 3) = "$"
    <3>1. SkipBlank(s, 3) = 3 /\ Kind(s, 3) = "$"
      BY <1>1, <1>2, <2>4
    <3>2. b.line = final
      BY <2>2, <3>1, SimpleAddresses
    <3>3. QED
      BY <3>2
  <2>5. CASE n = 3 /\ Ascending(addr)
    <3>1. Numbers(s) /\ Kind(s, 1) = "num" /\ Kind(s, 3) = "num"
      BY <2>5, NumbersBeforeLetter DEF n
    <3>2. SkipBlank(s, 1) = 1 /\ SkipBlank(s, 3) = 3
      BY <1>2, <3>1
    <3>3. /\ a = ParseOneAddress(s, 1, current, final, marks)
          /\ b = ParseOneAddress(s, 3, current, final, marks)
      BY <2>2, <3>2
    <3>4. a.line <= b.line
      BY <3>1, <3>3, NumbersAreRead
    <3>5. QED
      BY <3>4
  <2>6. QED
    BY <2>1, <2>3, <2>4, <2>5
<1>7. QED
  BY <1>5, <1>6

\* The ends of a range written in order are in order.
LEMMA PairsAreInOrder ==
  ASSUME NEW addr \in Seq(Token), InOrder(addr),
         NEW current, NEW final \in Nat, final > 0, NEW marks,
         ParseEdAddress(addr \o <<Sym("op")>>, current, final, marks).ok
  PROVE  LET p == ParseEdAddress(addr \o <<Sym("op")>>, current, final, marks)
         IN  p.addr2 = 0 \/ p.addr1 <= p.addr2
<1> DEFINE s == addr \o <<Sym("op")>>
           p == ParseEdAddress(s, current, final, marks)
           a == ParseOneAddress(s, SkipBlank(s, 1), current, final, marks)
           b(n) == ParseOneAddress(s, SkipBlank(s, n + 1), current, final, marks)
           T == Token \cup {Sym("op")}
<1>1. s \in Seq(T)
  <2>1. addr \in Seq(T) /\ <<Sym("op")>> \in Seq(T)
    OBVIOUS
  <2> HIDE DEF T
  <2>2. QED
    BY <2>1, ConcatProperties
<1> HIDE DEF s, T
<1>2. p.ok
  BY DEF s
<1>3. p.addr1 \in Int /\ p.addr2 \in 0..final
  BY <1>1, <1>2, ParseEdAddressIsSound DEF SoundResult
<1>4. SkipBlank(s, 1) \in 1..Len(s) + 1
  BY <1>1, SkipBlankIsSound
<1>5. a.line \in 0..final
  BY <1>1, <1>4, ParseOneAddressIsSound DEF Sound
<1>6. CASE p.addr1 = p.addr2
  <2> HIDE DEF p
  <2>1. p.addr1 <= p.addr2
    BY <1>3, <1>6
  <2>2. QED
    BY <2>1 DEF p, s
<1>7. CASE \E o \in 1..Len(s) :
             /\ CommaAt(s, o) /\ a.res # "error" /\ b(o).res # "error"
             /\ p.addr1 = IF a.line = 0 THEN 1 ELSE a.line
             /\ p.addr2 = IF b(o).res = "none" THEN final ELSE b(o).line
  <2>1. PICK o \in 1..Len(s) :
             /\ CommaAt(s, o) /\ a.res # "error" /\ b(o).res # "error"
             /\ p.addr1 = IF a.line = 0 THEN 1 ELSE a.line
             /\ p.addr2 = IF b(o).res = "none" THEN final ELSE b(o).line
    BY <1>7
  <2> DEFINE c == b(o)
  <2>2. a.line = 0 \/ c.res = "none" \/ c.line = final \/ a.line <= c.line
    <3>1. CommaAt(s, o) /\ a.res # "error" /\ c.res # "error" =>
            a.line = 0 \/ c.res = "none" \/ c.line = final \/ a.line <= c.line
      BY EndsOfARange DEF s
    <3>2. QED
      BY <2>1, <3>1
  <2> HIDE DEF a, c, p
  <2>3. /\ p.addr1 = IF a.line = 0 THEN 1 ELSE a.line
        /\ p.addr2 = IF c.res = "none" THEN final ELSE c.line
    BY <2>1 DEF c
  <2>4. p.addr2 = 0 \/ p.addr1 <= p.addr2
    BY <1>3, <1>5, <2>2, <2>3
  <2>5. QED
    BY <2>4 DEF p, s
<1>8. QED
  <2>1. \/ p.addr1 = p.addr2
        \/ \E o \in 1..Len(s) :
             /\ CommaAt(s, o) /\ a.res # "error" /\ b(o).res # "error"
             /\ p.addr1 = IF a.line = 0 THEN 1 ELSE a.line
             /\ p.addr2 = IF b(o).res = "none" THEN final ELSE b(o).line
    BY <1>1, <1>2, PairIsRead
  <2>2. QED
    BY <1>6, <1>7, <2>1

\* The lines d c j and t act on are in order.
LEMMA RangeIsInOrder ==
  ASSUME NEW c \in CommandType, Safe, Ranged(c), c.op \in {"d", "c", "j", "t"}, InOrder(c.addr)
  PROVE  Width(LineRangeOf(c)) >= 1
<1> DEFINE r == LineRangeOf(c)
           p == Parse(c)
<1>1. /\ r.start \in 0..N-1 /\ r.end \in 0..N-1 /\ N \in Nat /\ N > 0
      /\ InBuffer(r, N)
  <2>1. InBuffer(r, N)
    BY DEF Ranged
  <2> HIDE DEF r
  <2>2. r.start \in 0..N-1 /\ r.end \in 0..N-1 /\ N \in 1..MaxLines
    BY RangeIsInBuffer DEF r
  <2>3. QED
    BY <2>1, <2>2
<1>2. p = ParseEdAddress(c.addr \o <<Sym("op")>>, Current1(ed.current_line), N, ed.marks) /\ p.ok
  BY DEF Parse, Ranged, Reads
<1>3. p.addr2 = 0 \/ p.addr1 <= p.addr2
  <2>1. c.addr \in Seq(Token)
    BY CommandFields
  <2> HIDE DEF p
  <2>2. QED
    BY <1>1, <1>2, <2>1, PairsAreInOrder
<1>4. p.addr1 \in 0..N \cup {1} /\ p.addr2 \in 0..N
  BY ParseIsSound DEF Ranged
<1>5. r = LineRange(p, ed.current_line, N)
  BY DEF LineRangeOf
<1> HIDE DEF p, r
<1>6. CASE p.addr1 = 0 /\ p.addr2 = 0
  <2>1. r = NoRange \/ r = [start |-> ed.current_line, end |-> ed.current_line]
    BY <1>5, <1>6 DEF LineRange
  <2>2. r # NoRange
    BY <1>1 DEF NoRange
  <2>3. r.start = r.end
    BY <2>1, <2>2
  <2>4. Width(r) >= 1
    BY <1>1, <2>3 DEF Width
  <2>5. QED
    BY <2>4 DEF r
<1>7. CASE ~(p.addr1 = 0 /\ p.addr2 = 0)
  <2>1. r = [start |-> IF p.addr1 > 0 THEN p.addr1 - 1 ELSE 0,
             end   |-> IF p.addr2 > 0 THEN p.addr2 - 1 ELSE p.addr1 - 1]
    BY <1>5, <1>7 DEF LineRange
  <2>2. r.start = (IF p.addr1 > 0 THEN p.addr1 - 1 ELSE 0)
        /\ r.end = (IF p.addr2 > 0 THEN p.addr2 - 1 ELSE p.addr1 - 1)
    BY <2>1
  <2>3. r.start <= r.end
    BY <1>3, <1>4, <1>7, <2>2
  <2>4. Width(r) >= 1
    BY <1>1, <2>3 DEF Width
  <2>5. QED
    BY <2>4 DEF r
<1>8. QED
  BY <1>6, <1>7

\* An address without a comma is a line of the buffer, or none.
LEMMA SingleIsALine ==
  ASSUME NEW c \in CommandType, Safe, Reads(c), c.op \in {"a", "r"}, NoComma(c.addr)
  PROVE  Parse(c).addr1 \in 0..N
<1> DEFINE s == c.addr \o <<Sym("op")>>
           p == ParseEdAddress(s, Current1(ed.current_line), N, ed.marks)
<1>1. c.addr \in Seq(Token)
  BY CommandFields
<1>2. \A k : ~CommaAt(s, k)
  <2> SUFFICES ASSUME NEW k, CommaAt(s, k) PROVE FALSE
    OBVIOUS
  <2> DEFINE n == Len(c.addr)
  <2>1. /\ n \in Nat
        /\ \A i \in 1..n : Kind(s, i) = Kind(c.addr, i)
        /\ Kind(s, n + 1) = "op"
        /\ \A i : i \notin 1..n + 1 => Kind(s, i) = "end"
    BY <1>1, LetterAtTheEnd
  <2>2. Kind(s, k) \notin {"op", "end"}
    BY CommaIsNoOther
  <2> HIDE DEF s, n
  <2>3. k \in 1..n
    BY <2>1, <2>2
  <2>4. CommaAt(c.addr, k)
    BY <2>1, <2>3 DEF CommaAt
  <2>5. k \in DOMAIN c.addr
    BY <1>1, <2>3 DEF n
  <2>6. QED
    BY <2>4, <2>5 DEF NoComma
<1>3. Parse(c) = p /\ p.ok
  BY DEF Parse, Reads
<1> HIDE DEF s
<1>4. p.addr1 = p.addr2
  BY <1>2, <1>3, OneAddress
<1>5. Parse(c).addr2 \in 0..N
  BY ParseIsSound
<1> HIDE DEF p
<1>6. QED
  BY <1>3, <1>4, <1>5

\* before a command, and after it: nothing undefined has happened, and the current line is
\* not past the end
Fine == Steady(ed') /\ status' # "undefined"

\* The ways a command may end, but the undefined one.
LEMMA EndsAreFine ==
  ASSUME Steady(ed), status = "running"
  PROVE  /\ \A e : Steady(e) /\ (Do(e) \/ Fail(e)) => Fine
         /\ Do(ed) \/ Error \/ Exit \/ Loop => Fine
         /\ \A name, kept : CriticalError(name, kept) => Fine
BY DEF Fine, Do, Fail, Error, Exit, Loop, CriticalError

\* p n l d c j.
LEMMA RangedIsFine ==
  ASSUME NEW c \in CommandType, Safe, status = "running", Steady(ed), Cautious(c),
         ShowRange(c) \/ Delete(c) \/ Change(c) \/ Join(c)
  PROVE  Fine
<1> DEFINE r == LineRangeOf(c)
<1>1. Ranged(c)
  BY DEF ShowRange, Delete, Change, Join
<1>2. InBuffer(r, Len(ed.lines)) /\ Good(ed) /\ r.end \in Int /\ r.end < Len(ed.lines)
  BY <1>1, RangeIsInBuffer
<1>3. c.op \in {"d", "c", "j"} => Width(r) >= 1 /\ Width(r) \in Int
  BY <1>1, RangeIsInOrder, RangeIsInBuffer DEF Cautious
<1> HIDE DEF r
<1>4. CASE ShowRange(c)
  <2>1. Do([ed EXCEPT !.current_line = r.end])
    BY <1>4 DEF ShowRange, r
  <2>2. Steady([ed EXCEPT !.current_line = r.end])
    BY <1>2, SettingIsSteady
  <2>3. QED
    BY <2>1, <2>2, EndsAreFine
<1>5. CASE Delete(c)
  <2>1. Width(r) >= 0 /\ Do(DeleteRange(ed, r))
    BY <1>3, <1>5 DEF Delete, r
  <2>2. QED
    BY <1>2, <2>1, DeleteIsSteady, EndsAreFine
<1>6. CASE Change(c)
  <2>1. Width(r) >= 0 /\ c.text \in Seq(Text) /\ c.text # <<>>
    BY <1>3, <1>6, CommandFields DEF Change, Cautious
  <2>2. \/ Fits(Len(DeleteRange(ed, r).lines), Len(c.text)) /\ Do(ChangeRange(ed, r, c.text))
        \/ \E name, kept : CriticalError(name, kept)
    BY <1>3, <1>6, <2>1 DEF Change, r
  <2>3. Steady(ChangeRange(ed, r, c.text))
    BY <1>2, <2>1, ChangeIsSteady
  <2>4. QED
    BY <2>2, <2>3, EndsAreFine
<1>7. CASE Join(c)
  <2>1. Width(r) >= 1 /\ Do(JoinRange(ed, r))
    BY <1>3, <1>7 DEF Join, r
  <2>2. QED
    BY <1>2, <2>1, JoinIsSteady, EndsAreFine
<1>8. QED
  BY <1>4, <1>5, <1>6, <1>7

\* m t s.
LEMMA TransferIsFine ==
  ASSUME NEW c \in CommandType, Safe, status = "running", Steady(ed), Cautious(c),
         NoDestination(c) \/ Move(c) \/ Copy(c) \/ Substitute(c)
  PROVE  Fine
<1> DEFINE r == LineRangeOf(c)
           dest == Destination(c)
<1>1. Ranged(c)
  BY DEF NoDestination, Move, Copy, Substitute
<1>2. /\ InBuffer(r, Len(ed.lines)) /\ Good(ed) /\ Width(r) \in Int
      /\ N = Len(ed.lines) /\ N \in Nat /\ N > 0
  BY <1>1, RangeIsInBuffer
<1> HIDE DEF r
<1>3. CASE NoDestination(c)
  <2>1. CASE Error
    BY <2>1, EndsAreFine
  <2>2. ASSUME c.dest # <<>>, dest \in {PastEndLine, N} PROVE FALSE
    <3>1. dest \in {NoLine} \cup 0..N - 1
      BY <1>2, <1>3, <2>2, DestinationIsALine DEF NoDestination
    <3> HIDE DEF dest
    <3>2. QED
      BY <1>2, <2>2, <3>1 DEF NoLine, PastEndLine
  <2>3. QED
    BY <1>3, <2>1, <2>2 DEF NoDestination
<1>4. CASE Move(c)
  <2>1. dest \in 0..Len(ed.lines)-1
    BY <1>2, <1>4 DEF Move
  <2>2. CASE Fail(PrepareUndo(ed))
    BY <1>2, <2>2, SavingIsSteady, EndsAreFine
  <2>3. CASE dest \notin r.start..r.end /\ Width(r) >= 0 /\ Do(MoveRange(ed, r, dest))
    BY <1>2, <2>1, <2>3, MoveIsSteady, EndsAreFine
  <2>4. CASE \E name, kept : CriticalError(name, kept)
    BY <2>4, EndsAreFine
  <2>5. QED
    BY <1>4, <2>2, <2>3, <2>4 DEF Move, r
<1>5. CASE Copy(c)
  <2>1. dest \in 0..Len(ed.lines)-1
    BY <1>2, <1>5 DEF Copy
  <2>2. Width(r) >= 1
    BY <1>1, <1>5, RangeIsInOrder DEF Copy, Cautious, r
  <2>3. CASE Do(CopyRange(ed, r, dest))
    BY <1>2, <2>1, <2>2, <2>3, CopyIsSteady, EndsAreFine
  <2>4. CASE \E name, kept : CriticalError(name, kept)
    BY <2>4, EndsAreFine
  <2>5. Width(r) >= 0
    BY <1>2, <2>2
  <2>6. ASSUME CopiesFail, NEW copied \in 0..Width(r) - 1, CopyFails(r, dest, copied)
        PROVE  \E name, kept : CriticalError(name, kept)
    <3>1. c.op = "t" /\ c.dest = <<Sym("$")>>
      BY <1>5, <2>6 DEF Copy, Cautious
    <3>2. dest = N - 1
      BY <1>2, <3>1, DollarIsLast
    <3>3. ~(dest + 1 + copied < N)
      BY <1>2, <3>2
    <3> HIDE DEF dest
    <3>4. QED
      BY <2>6, <3>3 DEF CopyFails
  <2>7. QED
    BY <1>5, <2>3, <2>4, <2>5, <2>6 DEF Copy, r
<1>6. CASE Substitute(c)
  <2>1. Steady(SubstituteRange(ed, r, c.sub))
    BY <1>2, SubstituteIsSteady
  <2>2. Loop \/ Do(SubstituteRange(ed, r, c.sub)) \/ Fail(SubstituteRange(ed, r, c.sub))
    BY <1>6 DEF Substitute, r
  <2>3. QED
    BY <2>1, <2>2, EndsAreFine
<1>7. QED
  BY <1>3, <1>4, <1>5, <1>6

\* a and i never find their place past the end of the buffer.
LEMMA TypingIsFine ==
  ASSUME NEW c \in CommandType, Safe, status = "running", Steady(ed), Cautious(c),
         AppendText(c) \/ InsertText(c)
  PROVE  Fine
<1>1. /\ Good(ed) /\ N = Len(ed.lines) /\ N \in Nat /\ Reads(c)
      /\ c.text \in Seq(Text) /\ c.text # <<>>
  BY LenN, FilenameType, CommandFields DEF Safe, State, AppendText, InsertText, Cautious
<1>2. /\ ed.current_line \in -1..N /\ ed.current_line # N
  BY <1>1, LenN DEF InBounds, Steady
<1>3. CASE AppendText(c)
  <2> DEFINE addr == IF AddrOf(c) < 0 THEN N - 1 ELSE AddrOf(c)
  <2>1. Parse(c).addr1 \in 0..N
    BY <1>1, <1>3, SingleIsALine DEF AppendText, Cautious
  <2>2. addr \in -1..N - 1
    BY <1>1, <1>2, <2>1 DEF AddrOf
  <2> HIDE DEF addr
  <2>3. addr + 1 <= N
    BY <1>1, <2>2
  <2>4. Do(AppendLine(ed, addr, c.text)) \/ \E name, kept : CriticalError(name, kept)
    BY <1>3, <2>3 DEF AppendText, addr
  <2>5. Steady(AppendLine(ed, addr, c.text))
    BY <1>1, <2>2, AppendIsSteady
  <2>6. QED
    BY <2>4, <2>5, EndsAreFine
<1>4. CASE InsertText(c)
  <2> DEFINE addr == IF AddrOf(c) < 0 THEN 0 ELSE AddrOf(c)
  <2>1. AddrOf(c) \in Int /\ AddrOf(c) <= N
    BY <1>1, AddrIsNear
  <2>2. addr \in 0..N
    BY <1>1, <2>1
  <2> HIDE DEF addr
  <2>3. Do(InsertLine(ed, addr, c.text)) \/ \E name, kept : CriticalError(name, kept)
    BY <1>4 DEF InsertText, addr
  <2>4. Steady(InsertLine(ed, addr, c.text))
    BY <1>1, <2>2, InsertIsSteady
  <2>5. QED
    BY <2>3, <2>4, EndsAreFine
<1>5. QED
  BY <1>3, <1>4

\* The commands that set something, and those that change nothing.
LEMMA SettingIsFine ==
  ASSUME NEW c \in CommandType, Safe, status = "running", Steady(ed),
         \/ Unreadable(c) \/ BareAddress(c) \/ OutOfRange(c) \/ SetMark(c) \/ PrintNumber(c)
         \/ UndoCommand(c) \/ Other(c) \/ Quit(c) \/ ForcedQuit(c) \/ SetFilename(c)
         \/ Write(c) \/ WriteAppend(c)
  PROVE  Fine
<1>1. Good(ed) /\ N = Len(ed.lines) /\ N \in Nat
  BY LenN, FilenameType DEF Safe, State
<1>2. CASE Do(ed) \/ Error \/ Exit
  BY <1>2, EndsAreFine
<1>3. CASE Unreadable(c) \/ OutOfRange(c) \/ PrintNumber(c) \/ Other(c) \/ Quit(c) \/ ForcedQuit(c)
  BY <1>2, <1>3 DEF Unreadable, OutOfRange, PrintNumber, Other, Quit, ForcedQuit
<1>4. CASE BareAddress(c)
  <2> DEFINE i == Parse(c).addr1 - 1
  <2>1. CASE Parse(c).addr1 \in 1..N /\ Do([ed EXCEPT !.current_line = i])
    <3>1. i \in Int /\ i < Len(ed.lines)
      BY <1>1, <2>1
    <3> HIDE DEF i
    <3>2. QED
      BY <1>1, <2>1, <3>1, SettingIsSteady, EndsAreFine
  <2>2. QED
    BY <1>2, <1>4, <2>1 DEF BareAddress
<1>5. CASE SetMark(c)
  <2> DEFINE i == AddrOf(c)
  <2>1. CASE i \in 0..N-1 /\ Do([ed EXCEPT !.marks[c.mark] = i, !.current_line = i])
    <3> HIDE DEF i
    <3>1. i \in Int /\ i < Len(ed.lines)
      BY <1>1, <2>1
    <3>2. QED
      BY <1>1, <2>1, <3>1, SettingIsSteady, EndsAreFine
  <2>2. QED
    BY <1>2, <1>5, <2>1 DEF SetMark
<1>6. CASE UndoCommand(c)
  BY <1>1, <1>2, <1>6, UndoIsSteady, EndsAreFine DEF UndoCommand
<1>7. CASE SetFilename(c)
  BY <1>1, <1>2, <1>7, SettingIsSteady, EndsAreFine DEF SetFilename
<1>8. CASE Write(c)
  <2>1. Error \/ ((\E f : ed' = [ed EXCEPT !.dirty = FALSE, !.filename = f]) /\ status' = status)
    BY <1>8 DEF Write
  <2>2. QED
    <3>1. ASSUME NEW f, ed' = [ed EXCEPT !.dirty = FALSE, !.filename = f] PROVE Steady(ed')
      BY <1>1, <3>1, SettingIsSteady
    <3>2. QED
      BY <1>2, <2>1, <3>1 DEF Fine
<1>9. CASE WriteAppend(c)
  <2>1. Error \/ (ed' = ed /\ status' = status)
    BY <1>9 DEF WriteAppend
  <2>2. QED
    BY <1>2, <2>1 DEF Fine
<1>10. QED
  BY <1>3, <1>4, <1>5, <1>6, <1>7, <1>8, <1>9

\* e E and r.
LEMMA LoadingIsFine ==
  ASSUME NEW c \in CommandType, Safe, status = "running", Steady(ed), Cautious(c),
         Edit(c) \/ Read(c)
  PROVE  Fine
<1>1. /\ Good(ed) /\ N = Len(ed.lines) /\ N \in Nat /\ c.file \in FileName \cup {NoName}
  BY LenN, FilenameType, CommandFields DEF Safe, State, Edit, Read
<1>2. ASSUME c.file # NoName, disk[c.file] # Absent
      PROVE  c.file \in FileName /\ disk[c.file] \in Seq(Text)
  BY <1>1, <1>2, DiskType
<1>3. CASE Error
  BY <1>3, EndsAreFine
<1>4. CASE \E name, kept : CriticalError(name, kept)
  BY <1>4, EndsAreFine
<1>5. CASE Edit(c)
  <2>1. c.file # NoName
    BY <1>5 DEF Edit, Cautious
  <2>2. CASE Fail(InitEditor)
    BY <2>2, NewIsSteady, EndsAreFine
  <2>3. CASE disk[c.file] # Absent /\ Do(LoadFile(InitEditor, c.file, disk[c.file]))
    BY <1>2, <2>1, <2>3, NewIsSteady, EndsAreFine
  <2>4. QED
    BY <1>3, <1>4, <1>5, <2>1, <2>2, <2>3 DEF Edit
<1>6. CASE Read(c)
  <2> DEFINE addr == IF Parse(c).addr1 = 0 THEN N - 1 ELSE Parse(c).addr1 - 1
             content == disk[c.file]
  <2>1. Parse(c).addr1 \in 0..N
    BY <1>6, SingleIsALine DEF Read, Cautious
  <2>2. addr \in -1..Len(ed.lines) - 1 /\ ~(addr + 1 > N)
    BY <1>1, <2>1
  <2> HIDE DEF addr
  <2>3. CASE Fail(PrepareUndo(ed))
    BY <1>1, <2>3, SavingIsSteady, EndsAreFine
  <2>4. CASE /\ c.file # NoName /\ content # Absent
             /\ Do(ReadFileAtAddress(ed, addr, content))
    <3>1. content \in Seq(Text)
      BY <1>2, <2>4
    <3> HIDE DEF content
    <3>2. CASE content # <<>>
      <4>1. Steady(AppendLine(ed, addr, content))
        BY <1>1, <2>2, <3>1, <3>2, AppendIsSteady
      <4>2. QED
        BY <2>4, <3>2, <4>1, EndsAreFine DEF ReadFileAtAddress
    <3>3. CASE content = <<>>
      BY <1>1, <2>4, <3>3, SavingIsSteady, EndsAreFine DEF ReadFileAtAddress
    <3>4. QED
      BY <3>2, <3>3
  <2>5. QED
    BY <1>3, <1>4, <1>6, <2>2, <2>3, <2>4 DEF Read, addr
<1>7. QED
  BY <1>5, <1>6

\* execute_command of a careful command.
LEMMA ExecuteIsFine ==
  ASSUME NEW c \in CommandType, NEW rest, Safe, status = "running", Steady(ed), Cautious(c),
         Execute(c, rest)
  PROVE  Fine
<1>1. CASE Simple(c)
  BY <1>1, RangedIsFine, TransferIsFine, TypingIsFine, SettingIsFine, LoadingIsFine DEF Simple
<1>2. CASE Global(c, rest)
  <2>1. Do(ed) \/ Error \/ \E name, kept : CriticalError(name, kept)
    BY <1>2 DEF Global
  <2>2. QED
    BY <2>1, EndsAreFine
<1>3. QED
  BY <1>1, <1>2 DEF Execute

\* what is kept of a global command for the commands under it to be careful ones
Guarded(list, cmds) == list \/ (Len(cmds) = 1 /\ NumbersCautiously(list, cmds))

\* the invariant: the current line is no place past the end, nothing undefined has happened,
\* and the commands under way are careful
Composed ==
  /\ Steady(ed) /\ status # "undefined"
  /\ \A k \in DOMAIN work : Guarded(work[k].list, work[k].cmds)

\* Where the elements of two sequences are when one is put behind the other.
LEMMA OneAfterTheOther ==
  ASSUME NEW T, NEW s \in Seq(T), NEW t \in Seq(T)
  PROVE  /\ Len(s \o t) = Len(s) + Len(t)
         /\ \A k \in 1..Len(s) : (s \o t)[k] = s[k]
         /\ \A k \in 1..Len(t) : (s \o t)[Len(s) + k] = t[k]
BY ConcatProperties

\* The same of two lines of tokens.
LEMMA TokensAfterTokens ==
  ASSUME NEW s \in Seq(Token), NEW t \in Seq(Token)
  PROVE  /\ Len(s \o t) = Len(s) + Len(t)
         /\ \A k \in 1..Len(s) : (s \o t)[k] = s[k]
         /\ \A k \in 1..Len(t) : (s \o t)[Len(s) + k] = t[k]
BY OneAfterTheOther

\* The number put before an address is no comma.
LEMMA NumberedHasNoComma ==
  ASSUME NEW addr \in Seq(Token), NoComma(addr), NEW n \in Nat
  PROVE  NoComma(<<Num(n)>> \o addr)
<1> DEFINE one == <<Num(n)>>
           s == one \o addr
<1>1. one \in Seq(Token) /\ Len(one) = 1 /\ one[1] = Num(n)
  <2>1. Num(n) \in Token
    BY DEF Num, Token
  <2>2. QED
    BY <2>1
<1> HIDE DEF one
<1>2. /\ Len(s) = Len(addr) + 1 /\ Len(addr) \in Nat
      /\ s[1] = Num(n)
      /\ \A k \in 1..Len(addr) : s[k + 1] = addr[k]
  <2>1. /\ Len(s) = Len(one) + Len(addr)
        /\ \A k \in 1..Len(one) : s[k] = one[k]
        /\ \A k \in 1..Len(addr) : s[Len(one) + k] = addr[k]
    <3>1. one \in Seq(Token) /\ addr \in Seq(Token)
      BY <1>1
    <3>2. QED
      BY <3>1, TokensAfterTokens
  <2>2. Len(addr) \in Nat
    BY LenProperties
  <2> HIDE DEF s
  <2>3. Len(s) = Len(addr) + 1
    BY <1>1, <2>1, <2>2
  <2>4. s[1] = Num(n)
    BY <1>1, <2>1
  <2>5. ASSUME NEW k \in 1..Len(addr) PROVE s[k + 1] = addr[k]
    <3>1. Len(one) + k = k + 1
      BY <1>1, <2>2
    <3>2. QED
      BY <2>1, <3>1
  <2>6. QED
    BY <2>2, <2>3, <2>4, <2>5
<1> HIDE DEF s
<1>3. Kind(s, 1) = "num"
  BY <1>2 DEF Kind, Num
<1>4. SUFFICES ASSUME NEW k, CommaAt(s, k) PROVE FALSE
  BY DEF NoComma, s, one
<1>5. k \in 1..Len(s) /\ k # 1
  <2>1. k \in 1..Len(s)
    BY <1>4, CommaInLine
  <2>2. Kind(s, k) # "num"
    BY <1>4, CommaIsNoOther
  <2>3. QED
    BY <1>3, <2>1, <2>2
<1> DEFINE j == k - 1
<1>6. j \in 1..Len(addr) /\ k = j + 1
  BY <1>2, <1>5
<1> HIDE DEF j
<1>7. s[k] = addr[j]
  BY <1>2, <1>6
<1>8. Kind(s, k) = Kind(addr, j)
  BY <1>5, <1>6, <1>7 DEF Kind
<1>9. CommaAt(addr, j)
  BY <1>4, <1>8 DEF CommaAt
<1>10. j \in DOMAIN addr
  BY <1>6
<1>11. QED
  BY <1>9, <1>10 DEF NoComma

\* What a command keeps when a number is put before it or its text is read.
LEMMA FieldsKept ==
  ASSUME NEW c \in CommandType, NEW addr, NEW t
  PROVE  LET d == [c EXCEPT !.addr = addr]
             x == [c EXCEPT !.text = t]
         IN  /\ d.op = c.op /\ d.addr = addr
             /\ c.op \in {"a", "i", "c"} =>
                  d.text = c.text /\ x.op = c.op /\ x.addr = c.addr /\ x.text = t
             /\ c.op \in {"e", "E"} => d.file = c.file
             /\ c.op \in {"m", "t"} => d.dest = c.dest
<1> DEFINE d == [c EXCEPT !.addr = addr]
           x == [c EXCEPT !.text = t]
<1>1. d.op = c.op /\ d.addr = addr
  BY DEF CommandType
<1>2. ASSUME c.op \in {"a", "i", "c"}
      PROVE  c \in [op : {"a", "i", "c"}, addr : Seq(Token), text : Seq(Text)]
  BY <1>2 DEF CommandType
<1>3. ASSUME c.op \in {"a", "i", "c"}
      PROVE  d.text = c.text /\ x.op = c.op /\ x.addr = c.addr /\ x.text = t
  BY <1>2, <1>3
<1>4. ASSUME c.op \in {"e", "E"}
      PROVE  c \in [op : {"f", "w", "W", "e", "E", "r"}, addr : Seq(Token),
                    file : FileName \cup {NoName}]
  BY <1>4 DEF CommandType
<1>5. ASSUME c.op \in {"e", "E"} PROVE d.file = c.file
  BY <1>4, <1>5
<1>6. ASSUME c.op \in {"m", "t"} PROVE d.dest = c.dest
  <2>1. c \in [op : {"m", "t"}, addr : Seq(Token), dest : Seq(Token)]
    BY <1>6 DEF CommandType
  <2>2. QED
    BY <1>6, <2>1
<1>7. QED
  BY <1>1, <1>3, <1>5, <1>6

\* A careful command is one still when a number is put before it, if its address has no comma.
LEMMA NumberedIsCautious ==
  ASSUME NEW c \in CommandType, Cautious(c), NoComma(c.addr), NEW n \in Nat
  PROVE  Cautious([c EXCEPT !.addr = <<Num(n)>> \o @])
<1> DEFINE addr == <<Num(n)>> \o c.addr
           d == [c EXCEPT !.addr = addr]
<1>1. NoComma(addr)
  BY CommandFields, NumberedHasNoComma
<1> HIDE DEF addr
<1>2. /\ d.op = c.op /\ d.addr = addr
      /\ c.op \in {"a", "i", "c"} => d.text = c.text
      /\ c.op \in {"e", "E"} => d.file = c.file
      /\ c.op \in {"m", "t"} => d.dest = c.dest
  BY FieldsKept
<1> HIDE DEF d
<1>3. Cautious(d)
  BY <1>1, <1>2 DEF Cautious, InOrder
<1>4. QED
  BY <1>3 DEF d, addr

\* So is one whose text is read from the input, which is no empty text.
LEMMA WithTextIsCautious ==
  ASSUME NEW c \in CommandType, Cautious(c), c.op \in {"a", "i", "c"}, NEW t, t # <<>>
  PROVE  Cautious([c EXCEPT !.text = t])
<1> DEFINE d == [c EXCEPT !.text = t]
<1>1. d.op = c.op /\ d.addr = c.addr /\ d.text = t
  BY FieldsKept
<1> HIDE DEF d
<1>2. Cautious(d)
  BY <1>1 DEF Cautious
<1>3. QED
  BY <1>2 DEF d

\* What a global command executes next is a careful command, if its frame is guarded.
LEMMA NextCommandIsCautious ==
  ASSUME Careful, NEW f \in Frame, Guarded(f.list, f.cmds), f.pc <= Len(f.cmds),
         NEW d \in NextCommand(f)
  PROVE  Cautious(d) /\ (d.op \in {"g", "v"} => d \in Command)
<1> DEFINE c == f.cmds[f.pc]
           numbered == IF f.list \/ Nests(f) THEN c ELSE [c EXCEPT !.addr = <<Num(f.line)>> \o @]
<1>1. f.cmds \in Seq(Command) /\ f.pc \in 1..Len(f.cmds) /\ f.line \in Nat
  BY DEF Frame
<1>2. c \in Command /\ c \in CommandType /\ Cautious(c)
  BY <1>1, CommandsAreTyped DEF Careful, Prudent
<1>3. \A t \in Inputs : t # <<>>
  BY DEF Inputs, Careful, Prudent, Cautious
<1>4. /\ Cautious(numbered) /\ numbered \in CommandType /\ numbered.op = c.op
      /\ c.op \in {"g", "v"} => numbered \in Command
  <2>1. CASE f.list \/ Nests(f)
    BY <1>2, <2>1
  <2>2. CASE ~(f.list \/ Nests(f))
    <3>1. Len(f.cmds) = 1 /\ NumbersCautiously(f.list, f.cmds)
      BY <2>2 DEF Guarded
    <3>2. f.pc = 1
      BY <1>1, <3>1
    <3>3. c.op \notin {"g", "v"} /\ NoComma(c.addr)
      BY <2>2, <3>1, <3>2 DEF NumbersCautiously, Nests
    <3> HIDE DEF c
    <3>4. QED
      BY <1>1, <1>2, <2>2, <3>3, NumberedIsCautious, NumberedIsACommand
  <2>3. QED
    BY <2>1, <2>2
<1> HIDE DEF numbered, c
<1>5. CASE d = numbered
  BY <1>4, <1>5
<1>6. ASSUME NEW t \in Inputs, c.op \in {"a", "i", "c"}, d = [numbered EXCEPT !.text = t]
      PROVE  Cautious(d) /\ d.op \notin {"g", "v"}
  <2>1. Cautious(d)
    BY <1>3, <1>4, <1>6, WithTextIsCautious
  <2>2. d.op = numbered.op
    BY <1>4, <1>6, FieldsKept
  <2>3. QED
    BY <1>4, <1>6, <2>1, <2>2
<1>7. \/ d = numbered
      \/ c.op \in {"a", "i", "c"} /\ \E t \in Inputs : d = [numbered EXCEPT !.text = t]
  BY DEF NextCommand, numbered, c
<1>8. QED
  BY <1>5, <1>6, <1>7

\* The frames of the global commands stay guarded: a new one is that of a command of the
\* program.
LEMMA GuardedFrame ==
  ASSUME NEW f, NEW rest, Guarded(f.list, f.cmds), rest \in Seq(Frame), f \in Frame,
         \A k \in DOMAIN rest : Guarded(rest[k].list, rest[k].cmds),
         NEW w, w = <<f>> \o rest
  PROVE  \A k \in DOMAIN w : Guarded(w[k].list, w[k].cmds)
<1> DEFINE one == <<f>>
<1>1. one \in Seq(Frame) /\ Len(one) = 1 /\ one[1] = f
  OBVIOUS
<1> HIDE DEF one
<1>2. /\ w \in Seq(Frame) /\ Len(w) = Len(rest) + 1 /\ Len(rest) \in Nat
      /\ w[1] = f /\ \A k \in 1..Len(rest) : w[k + 1] = rest[k]
  BY <1>1, ConcatProperties DEF one
<1>3. SUFFICES ASSUME NEW k \in DOMAIN w PROVE Guarded(w[k].list, w[k].cmds)
  OBVIOUS
<1>4. CASE k = 1
  BY <1>2, <1>4
<1>5. CASE k # 1
  <2> DEFINE j == k - 1
  <2>1. j \in 1..Len(rest) /\ k = j + 1
    BY <1>2, <1>5
  <2> HIDE DEF j
  <2>2. w[k] = rest[j] /\ j \in DOMAIN rest
    BY <1>2, <2>1
  <2>3. QED
    BY <2>2
<1>6. QED
  BY <1>4, <1>5

\* execute_command keeps the frames guarded.
LEMMA ExecuteKeepsGuard ==
  ASSUME Careful, NEW c \in CommandType, NEW rest \in Seq(Frame), Safe, Execute(c, rest),
         c.op \in {"g", "v"} => c \in Command,
         \A k \in DOMAIN rest : Guarded(rest[k].list, rest[k].cmds)
  PROVE  \A k \in DOMAIN work' : Guarded(work'[k].list, work'[k].cmds)
<1>1. CASE work' = rest
  BY <1>1
<1>2. CASE work' = <<>>
  BY <1>2
<1>3. CASE Global(c, rest)
  <2> DEFINE r == GlobalRange(Parse(c), N)
             f == [todo |-> Targets(c, r), line |-> 0, cmds |-> c.cmds,
                   list |-> c.list, pc |-> Len(c.cmds) + 1,
                   base |-> ed.lines, chosen |-> Targets(c, r)]
  <2>1. c.op \in {"g", "v"}
    BY <1>3 DEF Global
  <2>2. Guarded(c.list, c.cmds)
    BY <2>1, CommandAssumption DEF Careful, Prudent, Guarded, WellFormed
  <2>3. f.list = c.list /\ f.cmds = c.cmds
    OBVIOUS
  <2>4. CASE InBuffer(r, N) /\ work' = <<f>> \o rest
    <3>1. Targets(c, r) \in SUBSET (0..MaxLines)
      BY <2>4, TargetsAreInBuffer
    <3>2. c.cmds \in Seq(Command) /\ c.list \in BOOLEAN /\ Len(c.cmds) + 1 \in Nat \ {0}
      BY <2>1, CommandFields
    <3>3. f \in Frame
      BY <3>1, <3>2, FilenameType, MaxLinesAssumption DEF Frame
    <3> HIDE DEF f
    <3>4. QED
      BY <2>2, <2>3, <2>4, <3>3, GuardedFrame
  <2>5. QED
    BY <1>1, <1>2, <1>3, <2>4 DEF Global
<1>4. QED
  BY <1>1, <1>2, <1>3 DEF Execute

\* The loop over the lines of a global command goes to a line of the buffer.
LEMMA SelectKeepsComposed ==
  ASSUME IInv, Composed, SelectTarget
  PROVE  Composed'
<1> DEFINE f == Head(work)
           t == NextTarget(f)
           skipped == f.list /\ N = 0
           pc == IF skipped THEN f.pc ELSE 1
           clamped == IF t >= N THEN N - 1 ELSE t
           g == StartOn(f, t, pc)
<1>1. /\ f \in Frame /\ Tail(work) \in Seq(Frame) /\ f.todo # {} /\ Safe
      /\ work = <<f>> \o Tail(work) /\ f = work[1] /\ 1 \in DOMAIN work
      /\ \A k \in DOMAIN Tail(work) : Tail(work)[k] = work[k + 1] /\ k + 1 \in DOMAIN work
  BY HeadTailProperties DEF SelectTarget, IInv
<1>2. t \in 0..MaxLines
  BY <1>1, NextTargetIsATarget
<1>3. g \in Frame /\ g.list = f.list /\ g.cmds = f.cmds
  <2>1. pc \in Nat \ {0} /\ t + 1 \in Nat
    BY <1>1, <1>2 DEF Frame
  <2> HIDE DEF t, pc, f
  <2> DEFINE h == [f EXCEPT !.todo = @ \ {t}, !.line = t + 1, !.pc = pc]
  <2>2. h \in Frame /\ h.list = f.list /\ h.cmds = f.cmds
    BY <1>1, <1>2, <2>1 DEF Frame
  <2>3. QED
    BY <2>2 DEF StartOn
<1>4. \A k \in DOMAIN work' : Guarded(work'[k].list, work'[k].cmds)
  <2>1. Guarded(g.list, g.cmds)
    BY <1>1, <1>3 DEF Composed
  <2>2. \A k \in DOMAIN Tail(work) : Guarded(Tail(work)[k].list, Tail(work)[k].cmds)
    BY <1>1 DEF Composed
  <2>3. work' = <<g>> \o Tail(work)
    BY DEF SelectTarget
  <2> HIDE DEF g
  <2>4. QED
    BY <1>1, <1>3, <2>1, <2>2, <2>3, GuardedFrame
<1>5. Steady(ed')
  <2>1. CASE ed' = ed
    BY <2>1 DEF Composed
  <2>2. CASE N > 0 /\ ed' = [ed EXCEPT !.current_line = clamped]
    <3>1. Good(ed) /\ Len(ed.lines) = N /\ N \in Nat
      BY <1>1, LenN, FilenameType DEF Safe, State
    <3>2. clamped \in Int /\ clamped < Len(ed.lines)
      <4> HIDE DEF t
      <4>1. QED
        BY <1>2, <2>2, <3>1
    <3> HIDE DEF clamped
    <3>3. QED
      BY <2>2, <3>1, <3>2, SettingIsSteady DEF Composed
  <2>3. QED
    BY <2>1, <2>2 DEF SelectTarget
<1>6. status' # "undefined"
  BY DEF SelectTarget, Composed
<1>7. QED
  BY <1>4, <1>5, <1>6 DEF Composed

\* So does a command under a global one.
LEMMA NestedKeepsComposed ==
  ASSUME Careful, IInv, Composed, ExecuteNested
  PROVE  Composed'
<1> DEFINE f == Head(work)
           g == [f EXCEPT !.pc = @ + 1]
           rest == <<g>> \o Tail(work)
<1>1. /\ f \in Frame /\ Tail(work) \in Seq(Frame) /\ Safe
      /\ f = work[1] /\ 1 \in DOMAIN work
      /\ \A k \in DOMAIN Tail(work) : Tail(work)[k] = work[k + 1] /\ k + 1 \in DOMAIN work
      /\ f.pc <= Len(f.cmds) /\ status = "running"
  BY HeadTailProperties DEF ExecuteNested, IInv
<1>2. g \in Frame /\ g.list = f.list /\ g.cmds = f.cmds
  <2> DEFINE pc == f.pc + 1
             h == [f EXCEPT !.pc = pc]
  <2>1. pc \in Nat \ {0}
    BY <1>1 DEF Frame
  <2> HIDE DEF f, pc
  <2>2. h \in Frame /\ h.list = f.list /\ h.cmds = f.cmds
    BY <1>1, <2>1 DEF Frame
  <2>3. QED
    BY <2>2 DEF pc
<1>3. Guarded(f.list, f.cmds) /\ Guarded(g.list, g.cmds)
  BY <1>1, <1>2 DEF Composed
<1>4. \A k \in DOMAIN Tail(work) : Guarded(Tail(work)[k].list, Tail(work)[k].cmds)
  BY <1>1 DEF Composed
<1>5. PICK c \in NextCommand(f) : Execute(c, rest)
  BY DEF ExecuteNested
<1>6. c \in CommandType /\ Cautious(c) /\ (c.op \in {"g", "v"} => c \in Command)
  BY <1>1, <1>3, NextCommandIsACommand, NextCommandIsCautious
<1> HIDE DEF f, g
<1>7. rest \in Seq(Frame)
  BY <1>1, <1>2, ConcatProperties
<1>8. \A k \in DOMAIN rest : Guarded(rest[k].list, rest[k].cmds)
  BY <1>1, <1>2, <1>3, <1>4, GuardedFrame
<1> HIDE DEF rest
<1>9. Fine
  BY <1>1, <1>5, <1>6, ExecuteIsFine DEF Composed
<1>10. \A k \in DOMAIN work' : Guarded(work'[k].list, work'[k].cmds)
  BY <1>1, <1>5, <1>6, <1>7, <1>8, ExecuteKeepsGuard
<1>11. QED
  BY <1>9, <1>10 DEF Composed, Fine

\* Every step of the editor keeps the invariant.
LEMMA NextKeepsComposed ==
  ASSUME Careful, IInv, Composed, [Next]_vars
  PROVE  Composed'
<1>1. CASE Type
  <2>1. PICK c \in Typed : Execute(c, <<>>)
    BY <1>1 DEF Type
  <2>2. c \in Command /\ c \in CommandType /\ Cautious(c)
    BY CommandAssumption, CommandsAreTyped DEF Careful, Prudent
  <2>3. Fine
    BY <1>1, <2>1, <2>2, ExecuteIsFine DEF IInv, Composed, Type
  <2>4. \A k \in DOMAIN work' : Guarded(work'[k].list, work'[k].cmds)
    <3> DEFINE none == <<>>
    <3>1. none \in Seq(Frame) /\ DOMAIN none = {}
      OBVIOUS
    <3> HIDE DEF none
    <3>2. Execute(c, none)
      BY <2>1 DEF none
    <3>3. QED
      BY <2>2, <3>1, <3>2, ExecuteKeepsGuard DEF IInv
  <2>5. QED
    BY <2>3, <2>4 DEF Composed, Fine
<1>2. CASE SelectTarget
  BY <1>2, SelectKeepsComposed
<1>3. CASE ExecuteNested
  BY <1>3, NestedKeepsComposed
<1>4. CASE EndGlobal
  <2>1. /\ work' = Tail(work) /\ ed' = ed /\ status' = status
        /\ \A k \in DOMAIN Tail(work) : Tail(work)[k] = work[k + 1] /\ k + 1 \in DOMAIN work
    BY <1>4, HeadTailProperties DEF EndGlobal, IInv
  <2>2. QED
    BY <2>1 DEF Composed
<1>5. CASE EndOfInput
  BY <1>5 DEF EndOfInput, Exit, Composed
<1>6. CASE UNCHANGED vars
  BY <1>6 DEF vars, Composed
<1>7. QED
  BY <1>1, <1>2, <1>3, <1>4, <1>5, <1>6 DEF Next, NestedStep, Ended

\* At the prompt before the first command, with or without a file.
LEMMA InitIsComposed == Init => Composed
<1> SUFFICES ASSUME Init PROVE Composed
  OBVIOUS
<1>1. Steady(ed)
  <2>1. ASSUME NEW f \in FileName, disk[f] # Absent, ed = LoadFile(InitEditor, f, disk[f])
        PROVE  Steady(ed)
    <3>1. disk[f] \in Seq(Text)
      BY <2>1, InitIsSafe, DiskType DEF IInv
    <3>2. QED
      BY <2>1, <3>1, NewIsSteady
  <2>2. QED
    BY <2>1, NewIsSteady DEF Init
<1>2. status # "undefined" /\ work = <<>>
  BY DEF Init
<1>3. QED
  BY <1>1, <1>2 DEF Composed

\* A user whose commands are careful is never the victim of what C leaves undefined: no
\* store past the arrays of lines, no negative count of lines to shift, no name read after
\* it is freed, and no NULL printed when the copy of a line fails.
THEOREM CarefulCommandsAreDefined == Careful => (Spec => []NothingUndefined)
<1> SUFFICES ASSUME Careful PROVE Spec => []NothingUndefined
  OBVIOUS
<1>1. Init => Composed
  BY InitIsComposed
<1>2. IInv /\ Composed /\ [Next]_vars => Composed'
  BY NextKeepsComposed
<1>3. Composed => NothingUndefined
  BY DEF Composed, NothingUndefined
<1>4. QED
  BY <1>1, <1>2, <1>3, Invariance, PTL DEF Spec

===============================================================================
