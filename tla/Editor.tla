-------------------------------- MODULE Editor --------------------------------
(***************************************************************************)
(* The line editor src/ed/ed.c as a machine: its prompt, execute_command    *)
(* with every command, the global commands that execute commands in turn,   *)
(* the files it reads and writes, and the ways it ends.                     *)
(*                                                                         *)
(* A command is a record: op is its letter ("" for an address alone), addr  *)
(* the tokens before the letter, and the remaining fields its argument.     *)
(***************************************************************************)
EXTENDS EdBuffer

CONSTANTS Command,      \* the commands of a run, nested ones included
          Typed,        \* those that may be typed at the prompt
          Contents,     \* what the files may hold at the start
          Absent,       \* the file does not exist
          MaxFile,      \* lines for which there is room in a file
          CopiesFail,   \* memory may fail while t copies its lines
          MaxCommands   \* how many commands are typed, at most

VARIABLES ed,       \* the Editor structure
          disk,     \* the files
          work,     \* the global commands being executed, the innermost first
          status,   \* "running", or how the program ended
          failed,   \* the last command printed "?"
          last,     \* the letter of the last command executed
          left      \* commands that may still be typed

vars == <<ed, disk, work, status, failed, last, left>>

Disk == [FileName -> Seq(Text) \cup {Absent}]

Token ==
  [kind : {"+", "-", ".", "$", ",", ";", "blank", "#"}]
    \cup [kind : {"num"}, val : Nat, lead : BOOLEAN]
    \cup [kind : {"mark"}, mark : Mark]
    \cup [kind : {"/", "?"}, pat : SUBSET Text]

Letter == {"", "p", "n", "l", "d", "j", "=", "u", "q", "Q", "H", "P", "h", "#", "a", "i", "c",
           "m", "t", "k", "f", "w", "W", "e", "E", "r", "s", "g", "v"}

\* one shape of record for each kind of argument
CommandType ==
  LET A == Seq(Token)
  IN  [op : {"", "p", "n", "l", "d", "j", "=", "u", "q", "Q", "H", "P", "h", "#"}, addr : A]
        \cup [op : {"a", "i", "c"}, addr : A, text : Seq(Text)]
        \cup [op : {"m", "t"}, addr : A, dest : A]
        \cup [op : {"k"}, addr : A, mark : Mark]
        \cup [op : {"f", "w", "W", "e", "E", "r"}, addr : A, file : FileName \cup {NoName}]
        \cup [op : {"s"}, addr : A, sub : Substitution]
        \cup [op : {"g", "v"}, addr : A, pat : SUBSET Text, list : BOOLEAN, cmds : Seq(Command)]

\* the number put before the single command of g or v must not run into another
WellFormed(c) ==
  /\ c \in CommandType
  /\ c.op \in {"g", "v"} =>
       c.list \/ (Len(c.cmds) = 1 /\ Kind(c.cmds[1].addr, 1) # "num")

ASSUME CommandAssumption == Typed \subseteq Command /\ \A c \in Command : WellFormed(c)
ASSUME ContentsAssumption == Contents \subseteq Seq(Text)
ASSUME AbsentAssumption == Absent \notin Seq(Text)
ASSUME BoundsAssumption == MaxCommands \in Nat /\ MaxFile \in Nat
ASSUME CopiesFailAssumption == CopiesFail \in BOOLEAN

N == Len(ed.lines)

-----------------------------------------------------------------------------
(* How a command ends: with a new structure, with "?", or with the program   *)

Do(e)   == ed' = e /\ failed' = FALSE /\ UNCHANGED <<disk, status>>
Fail(e) == ed' = e /\ failed' = TRUE  /\ UNCHANGED <<disk, status>>
Error   == Fail(ed)

Exit == status' = "exited" /\ UNCHANGED <<ed, disk, failed>>

\* the C code has no defined behaviour here
Undefined == status' = "undefined" /\ UNCHANGED <<ed, disk, failed>>

\* the command never returns
Loop == status' = "looping" /\ UNCHANGED <<ed, disk, failed>>

\* what fprintf, whose result is not looked at, leaves in a file of limited size
OnDisk(lines) == SubSeq(lines, 1, IF Len(lines) <= MaxFile THEN Len(lines) ELSE MaxFile)

\* critical_error after a failed allocation, kept being the lines in the
\* structure at that moment: the user may have them saved (emergency_save)
CriticalError(name, kept) ==
  /\ status' = "aborted"
  /\ \/ disk' = disk
     \/ \E f \in IF name # NoName THEN {name} ELSE FileName :
          disk' = [disk EXCEPT ![f] = OnDisk(kept)]
  /\ UNCHANGED <<ed, failed>>

-----------------------------------------------------------------------------
(* Addresses of a command                                                    *)

Parse(c) == ParseEdAddress(c.addr \o (IF c.op = "" THEN <<>> ELSE <<Sym("op")>>),
                           Current1(ed.current_line), N, ed.marks)

\* the parser stops at the letter, so that the dispatcher sees it
Reads(c) == Parse(c).ok /\ Parse(c).rest = Len(c.addr) + 1

\* an address in error, or the dispatcher sees part of it as the command
Unreadable(c) == ~Reads(c) /\ Error

LineRangeOf(c) == LineRange(Parse(c), ed.current_line, N)

\* a single address: the current line by default
AddrOf(c) == IF Parse(c).addr1 = 0 THEN ed.current_line ELSE Parse(c).addr1 - 1

BareAddress(c) ==
  /\ c.op = "" /\ Reads(c)
  /\ LET a == Parse(c).addr1
     IN  \/ a = 0 /\ Do(ed)
         \/ a \in 1..N /\ Do([ed EXCEPT !.current_line = a - 1])
         \/ a > N /\ Error

-----------------------------------------------------------------------------
(* Commands on a range.  Its ends may be in the wrong order: the width of    *)
(* the range is then zero or less.                                           *)

Ranged(c) == Reads(c) /\ InBuffer(LineRangeOf(c), N)

OutOfRange(c) ==
  /\ c.op \in {"p", "n", "l", "d", "c", "j", "m", "t", "s"}
  /\ Reads(c) /\ ~InBuffer(LineRangeOf(c), N)
  /\ Error

\* p n l
ShowRange(c) ==
  /\ c.op \in {"p", "n", "l"} /\ Ranged(c)
  /\ Do([ed EXCEPT !.current_line = LineRangeOf(c).end])

Delete(c) ==
  /\ c.op = "d" /\ Ranged(c)
  /\ LET r == LineRangeOf(c)
     IN  IF Width(r) >= 0 THEN Do(DeleteRange(ed, r)) ELSE Undefined

FitsMutant(n, t) == t <= MaxLines    \* the lines already there are forgotten

\* memory for text of t lines in a buffer of n
Fits(n, t) == n + t <= MaxLines

\* the lines behind are not counted until all is read
PartialMutant(lines, pos, text) ==
  SubSeq(lines, 1, pos) \o SubSeq(text, 1, MaxLines - Len(lines))

\* lines read into an array of lines one at a time until memory fails
Partial(lines, pos, text) ==
  Splice(lines, pos, SubSeq(text, 1, MaxLines - Len(lines)))

Change(c) ==
  /\ c.op = "c" /\ Ranged(c)
  /\ LET r == LineRangeOf(c)
         d == DeleteRange(ed, r)
     IN  \/ Width(r) < 0 /\ Undefined
         \/ /\ Width(r) >= 0 /\ Fits(Len(d.lines), Len(c.text))
            /\ Do(ChangeRange(ed, r, c.text))
         \/ /\ Width(r) >= 0 /\ ~Fits(Len(d.lines), Len(c.text))
            /\ CriticalError(ed.filename, Partial(d.lines, r.start, c.text))

Join(c) ==
  /\ c.op = "j" /\ Ranged(c)
  /\ LET r == LineRangeOf(c)
     IN  IF Width(r) >= 1 THEN Do(JoinRange(ed, r)) ELSE Undefined

Destination(c) == ParseAddress(ed.lines, ed.current_line, ed.marks, c.dest)

\* m and t without a destination or with one that is no line; a search, or a tab
\* alone (the current line), may lead past the buffer
NoDestination(c) ==
  /\ c.op \in {"m", "t"} /\ Ranged(c)
  /\ \/ (c.dest = <<>> \/ Destination(c) = NoLine) /\ Error
     \/ c.dest # <<>> /\ Destination(c) \in {PastEndLine, N} /\ Undefined

\* the size of the array for the lines aside wraps round when the width is
\* negative
Move(c) ==
  /\ c.op = "m" /\ Ranged(c) /\ c.dest # <<>> /\ Destination(c) \in 0..N-1
  /\ LET r == LineRangeOf(c)
         dest == Destination(c)
     IN  \/ dest \in r.start..r.end /\ Fail(PrepareUndo(ed))
         \/ dest \notin r.start..r.end /\ Width(r) >= 0 /\ Do(MoveRange(ed, r, dest))
         \/ dest \notin r.start..r.end /\ Width(r) < 0
              /\ CriticalError(ed.filename, ed.lines)

\* my_strdup has failed when some of the lines are copied already, and its NULL is in
\* the array.  emergency_save prints and measures it if it lies among the lines it
\* saves, unless the user wants no file or none can be opened
CopyFails(r, dest, copied) ==
  IF dest + 1 + copied < N
    THEN Undefined \/ (status' = "aborted" /\ UNCHANGED <<ed, disk, failed>>)
    ELSE CriticalError(ed.filename, SubSeq(CopySlots(ed.lines, r, dest, copied), 1, N))

Copy(c) ==
  /\ c.op = "t" /\ Ranged(c) /\ c.dest # <<>> /\ Destination(c) \in 0..N-1
  /\ LET r == LineRangeOf(c)
         dest == Destination(c)
         defined == Width(r) >= 0 \/ dest = N - 1
     IN  \/ ~defined /\ Undefined
         \/ defined /\ ~Fits(N, Width(r)) /\ CriticalError(ed.filename, ed.lines)
         \/ defined /\ Fits(N, Width(r)) /\ Do(CopyRange(ed, r, dest))
         \/ /\ CopiesFail /\ defined /\ Fits(N, Width(r))
            /\ \E copied \in 0..Width(r)-1 : CopyFails(r, dest, copied)

Substitute(c) ==
  /\ c.op = "s" /\ Ranged(c)
  /\ LET r == LineRangeOf(c)
         diverges == \E i \in r.start..r.end : Diverges(c.sub, ed.lines[i + 1])
         changed == AnyChanges(ed.lines, r, c.sub)
     IN  \/ diverges /\ Loop
         \/ ~diverges /\ changed  /\ Do(SubstituteRange(ed, r, c.sub))
         \/ ~diverges /\ ~changed /\ Fail(SubstituteRange(ed, r, c.sub))

-----------------------------------------------------------------------------
(* Commands at a single address                                              *)

\* append_line stores past the array when there is text and its place is past
\* the end of the buffer
AppendText(c) ==
  /\ c.op = "a" /\ Reads(c)
  /\ LET addr == IF AddrOf(c) < 0 THEN N - 1 ELSE AddrOf(c)
         defined == c.text = <<>> \/ addr + 1 <= N
     IN  \/ ~defined /\ Undefined
         \/ defined /\ Fits(N, Len(c.text)) /\ Do(AppendLine(ed, addr, c.text))
         \/ /\ defined /\ ~Fits(N, Len(c.text))
            /\ CriticalError(ed.filename, Partial(ed.lines, addr + 1, c.text))

InsertText(c) ==
  /\ c.op = "i" /\ Reads(c)
  /\ LET addr == IF AddrOf(c) < 0 THEN 0 ELSE AddrOf(c)
     IN  IF Fits(N, Len(c.text))
           THEN Do(InsertLine(ed, addr, c.text))
           ELSE CriticalError(ed.filename, Partial(ed.lines, addr, c.text))

SetMark(c) ==
  /\ c.op = "k" /\ Reads(c)
  /\ IF AddrOf(c) \in 0..N-1
       THEN Do([ed EXCEPT !.marks[c.mark] = AddrOf(c), !.current_line = AddrOf(c)])
       ELSE Error

\* = prints the last line number, or the line of an address
PrintNumber(c) ==
  /\ c.op = "=" /\ Reads(c)
  /\ IF c.addr = <<>> THEN Do(ed)
     ELSE LET line == ParseAddress(ed.lines, ed.current_line, ed.marks, c.addr)
          IN  IF line = NoLine THEN Error ELSE Do(ed)

\* u is not among the commands that do without a current line
UndoCommand(c) ==
  /\ c.op = "u" /\ Reads(c)
  /\ IF AddrOf(c) >= 0 /\ ed.undo_valid THEN Do(Undo(ed)) ELSE Error

\* H P h change and print what the model leaves out; # is no command.  P and #
\* need an address
Other(c) ==
  /\ c.op \in {"H", "P", "h", "#"} /\ Reads(c)
  /\ IF c.op = "#" \/ (c.op = "P" /\ AddrOf(c) < 0) THEN Error ELSE Do(ed)

Quit(c) ==
  /\ c.op = "q" /\ Reads(c)
  /\ IF ed.dirty THEN Error ELSE Exit

ForcedQuit(c) == c.op = "Q" /\ Reads(c) /\ Exit

-----------------------------------------------------------------------------
(* Files.  fopen may fail on any file, and fails to read an absent one.      *)

SetFilename(c) ==
  /\ c.op = "f" /\ Reads(c)
  /\ IF c.file # NoName THEN Do([ed EXCEPT !.filename = c.file])
     ELSE IF ed.filename # NoName THEN Do(ed) ELSE Error

\* write_file: the whole buffer, whatever the address
Write(c) ==
  /\ c.op = "w" /\ Reads(c)
  /\ LET target == IF c.file # NoName THEN c.file ELSE ed.filename
     IN  \/ Error
         \/ /\ target # NoName
            /\ disk' = [disk EXCEPT ![target] = OnDisk(ed.lines)]
            /\ ed' = [ed EXCEPT !.dirty = FALSE, !.filename = target]
            /\ failed' = FALSE /\ UNCHANGED status

\* write_append_file
WriteAppend(c) ==
  /\ c.op = "W" /\ Reads(c)
  /\ LET r == WholeRange(Parse(c), N)
         old == IF disk[c.file] = Absent THEN <<>> ELSE disk[c.file]
     IN  \/ Error
         \/ /\ c.file # NoName /\ InBuffer(r, N)
            /\ disk' = [disk EXCEPT ![c.file] =
                           OnDisk(old \o SubSeq(ed.lines, r.start + 1, r.end + 1))]
            /\ failed' = FALSE /\ UNCHANGED <<ed, status>>

\* edit_file, forced_edit_file: the structure is freed first, and with it the
\* name the command took from it
Edit(c) ==
  /\ c.op \in {"e", "E"} /\ Reads(c)
  /\ LET refused == (c.file = NoName /\ ed.filename = NoName) \/ (c.op = "e" /\ ed.dirty)
     IN  \/ refused /\ Error
         \/ ~refused /\ c.file = NoName /\ Undefined
         \/ ~refused /\ c.file # NoName /\ Fail(InitEditor)
         \/ /\ ~refused /\ c.file # NoName /\ disk[c.file] # Absent
            /\ IF Fits(0, Len(disk[c.file]))
                 THEN Do(LoadFile(InitEditor, c.file, disk[c.file]))
                 ELSE CriticalError(NoName, Partial(<<>>, 0, disk[c.file]))

Read(c) ==
  /\ c.op = "r" /\ Reads(c)
  /\ LET addr == IF Parse(c).addr1 = 0 THEN N - 1 ELSE Parse(c).addr1 - 1
     IN  \/ c.file = NoName /\ Error
         \/ c.file # NoName /\ Fail(PrepareUndo(ed))
         \/ /\ c.file # NoName /\ disk[c.file] # Absent
            /\ IF addr + 1 > N /\ disk[c.file] # <<>> THEN Undefined
               ELSE IF Fits(N, Len(disk[c.file]))
                 THEN Do(ReadFileAtAddress(ed, addr, disk[c.file]))
                 ELSE CriticalError(ed.filename,
                                    Partial(ed.lines, addr + 1, disk[c.file]))

-----------------------------------------------------------------------------
(* Global commands.  A frame of work is the state of one g or v: the line     *)
(* indices still to visit (always the last one next), the number of the line  *)
(* being visited, the commands and the one to execute next.  list says that   *)
(* they came between braces: they are then executed as they were typed, after *)
(* the current line is set; a single command gets the line number before it.  *)
(* base, the buffer the lines were chosen from, and chosen, the lines, are     *)
(* kept for the properties.                                                    *)

Targets(c, r) ==
  {i \in r.start..r.end : (ed.lines[i + 1] \in c.pat) <=> (c.op = "g")}

Global(c, rest) ==
  /\ c.op \in {"g", "v"} /\ Reads(c)
  /\ LET r == GlobalRange(Parse(c), N)
     IN  \/ ~InBuffer(r, N) /\ Error /\ work' = rest
         \/ /\ InBuffer(r, N) /\ Width(r) < 0
            /\ CriticalError(ed.filename, ed.lines) /\ work' = <<>>
         \/ /\ InBuffer(r, N) /\ Width(r) >= 0
            /\ Do(ed)
            /\ work' = <<[todo |-> Targets(c, r), line |-> 0, cmds |-> c.cmds,
                          list |-> c.list, pc |-> Len(c.cmds) + 1,
                          base |-> ed.lines, chosen |-> Targets(c, r)]>> \o rest

\* the single command begins with g or v: one with an address before it does not
Nests(f) == ~f.list /\ f.cmds[1].op \in {"g", "v"} /\ f.cmds[1].addr = <<>>

NextTargetMutant(f) == CHOOSE i \in f.todo : \A k \in f.todo : i <= k  \* upwards
NextTarget(f) == CHOOSE i \in f.todo : \A k \in f.todo : i >= k

StartMutant(f, t, pc) == [f EXCEPT !.line = t + 1, !.pc = pc]   \* t stays in todo
StartOn(f, t, pc) == [f EXCEPT !.todo = @ \ {t}, !.line = t + 1, !.pc = pc]

\* the next line to visit; it may no longer exist
SelectTarget ==
  /\ status = "running" /\ work # <<>>
  /\ LET f == Head(work)
         t == NextTarget(f)
         clamped == IF t >= N THEN N - 1 ELSE t
         skipped == f.list /\ N = 0
         g == StartOn(f, t, IF skipped THEN f.pc ELSE 1)
     IN  /\ f.pc > Len(f.cmds) /\ f.todo # {}
         /\ work' = <<g>> \o Tail(work)
         /\ ed' = IF (f.list \/ Nests(f)) /\ N > 0
                    THEN [ed EXCEPT !.current_line = clamped] ELSE ed
  /\ UNCHANGED <<disk, status, failed, last, left>>

EndGlobal ==
  /\ status = "running" /\ work # <<>>
  /\ Head(work).pc > Len(Head(work).cmds) /\ Head(work).todo = {}
  /\ work' = Tail(work)
  /\ UNCHANGED <<ed, disk, status, failed, last, left>>

Simple(c) ==
  \/ Unreadable(c) \/ BareAddress(c) \/ OutOfRange(c) \/ ShowRange(c)
  \/ Delete(c) \/ Change(c) \/ Join(c) \/ NoDestination(c) \/ Move(c)
  \/ Copy(c) \/ Substitute(c) \/ AppendText(c)
  \/ InsertText(c) \/ SetMark(c) \/ PrintNumber(c) \/ UndoCommand(c) \/ Other(c)
  \/ Quit(c) \/ ForcedQuit(c) \/ SetFilename(c) \/ Write(c) \/ WriteAppend(c)
  \/ Edit(c) \/ Read(c)

\* execute_command, rest being the global commands it is executed for: they are over
\* when the program is, and wait for ever for a command that does not return
Execute(c, rest) ==
  /\ \/ Simple(c) /\ work' = IF status' \in {"running", "looping"} THEN rest ELSE <<>>
     \/ Global(c, rest)
  /\ last' = c.op

Inputs == {c.text : c \in {x \in Command : x.op \in {"a", "i", "c"}}}

\* the command a frame executes next.  Its text is read from the input, except
\* that of a and i in a list, which the list holds
NextCommand(f) ==
  LET c == f.cmds[f.pc]
      numbered == IF f.list \/ Nests(f) THEN c
                  ELSE [c EXCEPT !.addr = <<Num(f.line)>> \o @]
  IN  IF c.op = "c" \/ (~f.list /\ c.op \in {"a", "i"})
        THEN {[numbered EXCEPT !.text = t] : t \in Inputs}
        ELSE {numbered}

ExecuteNested ==
  /\ status = "running" /\ work # <<>>
  /\ Head(work).pc <= Len(Head(work).cmds)
  /\ \E c \in NextCommand(Head(work)) :
       Execute(c, <<[Head(work) EXCEPT !.pc = @ + 1]>> \o Tail(work))
  /\ UNCHANGED left

-----------------------------------------------------------------------------
(* The prompt                                                                *)

Init ==
  /\ disk \in [FileName -> Contents \cup {Absent}]
  /\ ed \in {InitEditor} \cup
            {LoadFile(InitEditor, f, disk[f]) :
               f \in {f \in FileName : disk[f] # Absent /\ Fits(0, Len(disk[f]))}}
  /\ work = <<>> /\ status = "running" /\ failed = FALSE
  /\ last = "" /\ left = MaxCommands

Type ==
  /\ status = "running" /\ work = <<>> /\ left > 0
  /\ \E c \in Typed : Execute(c, <<>>)
  /\ left' = left - 1

\* the end of the input counts as Q
EndOfInput ==
  /\ status = "running" /\ work = <<>>
  /\ Exit
  /\ last' = "Q"
  /\ UNCHANGED <<work, left>>

NestedStep == SelectTarget \/ ExecuteNested \/ EndGlobal

Ended == status # "running" /\ UNCHANGED vars

Next == Type \/ NestedStep \/ EndOfInput \/ Ended

Spec == Init /\ [][Next]_vars

\* the program runs while a global command has work left
FairSpec == Spec /\ WF_vars(NestedStep)

-----------------------------------------------------------------------------
(* Properties                                                                *)

Frame == [todo : SUBSET (0..MaxLines), line : Nat, cmds : Seq(Command),
          list : BOOLEAN, pc : Nat \ {0}, base : Seq(Text), chosen : SUBSET Nat]

\* The types of the variables.  Neither the buffer nor its snapshot outgrows the memory.
TypeOK ==
  /\ ed \in EditorType /\ N <= MaxLines /\ Len(ed.undo_lines) <= MaxLines
  /\ disk \in Disk
  /\ work \in Seq(Frame)
  /\ status \in {"running", "exited", "aborted", "looping", "undefined"}
  /\ failed \in BOOLEAN
  /\ last \in Letter
  /\ left \in 0..MaxCommands

\* The current line, which every command takes as its default address and which
\* nine functions compute each in its own way, is a line of the buffer, or the
\* place just after the last one (insert_line and change_range leave it there
\* when no text is typed), or -1 in an empty buffer.  The same holds of the
\* current line that u will restore, with respect to the lines it will restore.
CursorInBounds ==
  /\ ed.current_line \in (IF N = 0 THEN -1 ELSE 0)..N
  /\ ed.undo_valid => LET n == Len(ed.undo_lines)
                      IN  ed.undo_current_line \in (IF n = 0 THEN -1 ELSE 0)..n

Count(lines, t) == Cardinality({i \in DOMAIN lines : lines[i] = t})

\* A mark follows its line: after a command that moves lines about, the line a
\* mark is set on is the line it was set on, and a mark is given up only when
\* its line is gone (update_marks_after_delete, update_marks_after_insert and
\* the marks of move_range, against the loops that shift the lines).  Not so after
\* t of a range in the wrong order, which cuts the end of the buffer off.
MarksFollow ==
  [][(last' \in {"a", "i", "c", "d", "m", "r"} \/ (last' = "t" /\ Len(ed'.lines) >= N)) =>
       \A m \in Mark : ed.marks[m] \in 0..N-1 =>
         LET t == ed.lines[ed.marks[m] + 1]
         IN  \/ /\ ed'.marks[m] \in 0..Len(ed'.lines)-1
                /\ ed'.lines[ed'.marks[m] + 1] = t
             \/ /\ ed'.marks[m] = -1
                /\ last' = "c" \/ Count(ed'.lines, t) < Count(ed.lines, t)]_vars

UndoTakesBack ==
  /\ ed'.undo_valid
  /\ ed'.undo_lines = ed.lines
  /\ ed'.undo_current_line = ed.current_line

\* Whatever one command other than c did to the lines, the snapshot it leaves is
\* the buffer before it with its current line: one u takes it back.
OneCommandIsUndone ==
  [][(last' \notin {"u", "e", "E", "c"} /\ ed'.lines # ed.lines) => UndoTakesBack]_vars

\* The same of c, which ed.h does not except from its single-level undo snapshot.
ChangeIsUndone == [][(last' = "c" /\ ed'.lines # ed.lines) => UndoTakesBack]_vars

\* A command that prints "?" has changed neither the buffer, nor the current
\* line, nor the marks, nor the dirty flag: it fails before its first change.
FailureIsHarmless ==
  [][(failed' /\ last' \notin {"e", "E"} /\ ed' # ed /\ work' = <<>>) =>
       \A field \in {"lines", "current_line", "marks", "dirty", "filename"} :
         ed'[field] = ed[field]]_vars

SavesAll ==
  \A f \in FileName : disk'[f] # disk[f] =>
    \A t \in Text : Count(disk'[f], t) >= Count(ed.lines, t)

\* The memory-failure exit keeps what was typed: when a, i, r, m or a global
\* command runs out of memory, a file that is written holds at least the lines of
\* the buffer.
EmergencySaveIsComplete ==
  [][(status' = "aborted" /\ last' \in {"a", "i", "r", "m", "g", "v"}) => SavesAll]_vars

\* The same of t, when the copy of one of the lines is refused.  The lines after the
\* destination have been moved up by then, and the count of the lines has not.
CopyAbortSavesAll == [][(status' = "aborted" /\ last' = "t") => SavesAll]_vars

\* A line that a global command has still to visit is there, unchanged and under
\* the number noted when the pattern was tried: this is why it goes backwards.
TargetsStayPut ==
  \A i \in DOMAIN work : \A t \in work[i].todo :
    t < N /\ ed.lines[t + 1] = work[i].base[t + 1]

\* The loops of move_range and copy_range, which work in place and in phases,
\* have the effect of taking the range out and putting it in after the
\* destination, for every range and destination that gets as far as them.
ShiftsAreSplices ==
  \A a, b, dest \in 0..N-1 : a <= b =>
    LET r    == [start |-> a, end |-> b]
        part == SubSeq(ed.lines, a + 1, b + 1)
    IN  /\ CopySlots(ed.lines, r, dest, Width(r)) = Splice(ed.lines, dest + 1, part)
        /\ dest \notin a..b =>
             MoveLines(ed.lines, r, dest) =
               Splice(Cut(ed.lines, a, Width(r)),
                      (IF dest > b THEN dest - Width(r) ELSE dest) + 1, part)

\* What a finished global command has done: g/re/d deletes the lines that were
\* chosen and no other, g/re/s/.../ changes them and no other.
Kept(f) ==
  LET K == {i \in 1..Len(f.base) : i - 1 \notin f.chosen}
  IN  [j \in 1..Cardinality(K) |->
         f.base[CHOOSE i \in K : Cardinality({k \in K : k <= i}) = j]]

Replaced(f) ==
  [i \in 1..Len(f.base) |->
     IF i - 1 \in f.chosen THEN NewText(f.cmds[1].sub, f.base[i]) ELSE f.base[i]]

GlobalActsOnChosen ==
  [][(EndGlobal /\ Len(work) = 1 /\ ~Head(work).list) =>
       /\ Head(work).cmds[1].op = "d" => ed.lines = Kept(Head(work))
       /\ Head(work).cmds[1].op = "s" => ed.lines = Replaced(Head(work))]_vars

\* No command reaches an operation that C leaves undefined: an index outside the
\* array of lines, a size below zero, a string that is NULL or freed.  (Not so where
\* the copy of a line by t fails: its NULL is printed, unless it lies past the lines.)
NothingUndefined == status # "undefined"

\* No command runs for ever.
NoCommandLoops == status # "looping"

\* Every global command comes to its end, however its commands change the lines
\* it goes through, as long as each of them returns (s///g may not: NoCommandLoops).
GlobalEnds == (work # <<>>) ~> (work = <<>>)

-----------------------------------------------------------------------------
(* The editor keeps the promise of EdStore                                    *)

Store == INSTANCE EdStore WITH
           text   <- ed.lines,
           files  <- disk,
           name   <- ed.filename,
           clean  <- ~ed.dirty,
           letter <- last,
           state  <- IF status = "running" THEN "open"
                     ELSE IF status = "exited" THEN "closed" ELSE "broken"

\* Text is lost only by E, Q, the end of the input or a breakdown: every command
\* that changes lines leaves the buffer dirty, only w and e make it clean, and
\* what w stores is the buffer.  (A file must have room for the buffer.)
KeepsThePromise == Store!Spec

=============================================================================
