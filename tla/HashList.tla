------------------------------ MODULE HashList ------------------------------
(***************************************************************************)
(* src/level1/fnvtest.c and fnvupdate.c: the list of hashes in             *)
(* file_hash.dat.  fnvtest compares a file with its entry and enters it    *)
(* anew, fnvupdate does it for every entry; both read the list, put the    *)
(* new one into a temporary file and copy that over the old.  No process   *)
(* keeps another out, and each may be ended at any point.                  *)
(*                                                                         *)
(* A hash is a number, 0 that of a file that cannot be opened (and of a    *)
(* file that happens to have it); an entry is [name, hash], its time is    *)
(* left out.  Lines have one length and the list fits into a buffer: it is *)
(* read at once and written at once, when the stream is closed.            *)
(***************************************************************************)
EXTENDS Integers, Sequences, FiniteSets

CONSTANTS
  Files,
  Hashes,      \* 0 among them
  Processes,
  Lists,       \* what file_hash.dat may hold at first: sequences of lines
  MaxEvents    \* bound: how often a program is started or a file changed

VARIABLES
  content,     \* the hash of each file
  list,        \* file_hash.dat
  proc,        \* [at, test, file, hash, todo, temp, exit] of each process
  recorded,    \* history: the pairs of file and hash that have been entered
  meant,       \* history: [hash, others], the hash last entered of each file and
               \* the number of lines that are no entries
  calm,        \* history: no two processes have overlapped, none was ended
  events       \* history: how many starts and changes there were

lvars == <<content, list, proc, recorded, meant, calm, events>>

Entry(f, h) == [name |-> f, hash |-> h]
Missing == <<Entry("no list", 0)>>
Other == Entry("none", 0)              \* a line that is no entry
Lines == [name: Files, hash: Hashes] \cup {Other}
IsOf(line, f) == line # Other /\ line.name = f
Idle == [at |-> "idle", test |-> FALSE, file |-> "", hash |-> 0,
         todo |-> <<>>, temp |-> <<>>, exit |-> -1]
Runs == [at: {"idle", "open", "read", "overwrite", "hash", "truncate", "write"},
         test: BOOLEAN, file: Files \cup {""}, hash: Hashes,
         todo: Seq(Lines), temp: Seq(Lines), exit: -1..1]

(* A list that is there has each file once, as fnvtest makes it.            *)
ASSUME HashAssumption ==
  /\ {"no list", "none", ""} \cap Files = {}
  /\ 0 \in Hashes /\ MaxEvents \in Nat
  /\ \A lines \in Lists:
       /\ lines \in Seq(Lines)
       /\ \A j, k \in DOMAIN lines: lines[j].name = lines[k].name /\ j # k => lines[j] = Other

(* The new list is written from the beginning over what is there then. *)
Over(old, new) == new \o SubSeq(old, Len(new) + 1, Len(old))

Others(lines) == Cardinality({k \in DOMAIN lines: lines[k] = Other})
Pairs(lines) == {<<l.name, l.hash>>: l \in {lines[k]: k \in DOMAIN lines} \ {Other}}
With(f, h) == [meant EXCEPT !.hash = [g \in DOMAIN @ \cup {f} |-> IF g = f THEN h ELSE @[g]]]
Without(f) == [meant EXCEPT !.hash = [g \in DOMAIN @ \ {f} |-> @[g]]]

Step(p, new) == proc' = [proc EXCEPT ![p] = new]
Exits(p, status) == Step(p, [proc[p] EXCEPT !.at = "idle", !.exit = status,
                                            !.todo = <<>>, !.temp = <<>>])
Begins(p, new) ==
  /\ proc[p].at = "idle" /\ events < MaxEvents
  /\ Step(p, new)
  /\ events' = events + 1
  /\ calm' = (calm /\ \A q \in Processes: proc[q].at = "idle")

-----------------------------------------------------------------------------
(* fnvtest *)

TestStart(p, f) ==
  /\ Begins(p, IF content[f] = 0 THEN [Idle EXCEPT !.exit = 1]
               ELSE [Idle EXCEPT !.at = "open", !.test = TRUE,
                                 !.file = f, !.hash = content[f]])
  /\ UNCHANGED <<content, list, recorded, meant>>

(* A list that has just been made cannot be read. *)
TestOpen(p) ==
  LET lines == IF list = Missing THEN <<>> ELSE list IN
  /\ proc[p].at = "open"
  /\ list' = lines
  /\ Step(p, [proc[p] EXCEPT !.at = "read", !.todo = lines])
  /\ UNCHANGED <<content, recorded, meant, calm, events>>

SameMutant(line, f, h) == IsOf(line, f)     \* the hashes are not compared
Same(line, f, h) == IsOf(line, f) /\ line.hash = h

(* The entry that has the hash ends the search, one that has another is     *)
(* left out of the new list.                                                *)
TestLine(p) ==
  LET me == proc[p]
      line == Head(me.todo)
  IN
  /\ me.at = "read" /\ me.todo # <<>>
  /\ Step(p, IF Same(line, me.file, me.hash)
             THEN [me EXCEPT !.at = "overwrite", !.temp = @ \o me.todo, !.todo = <<>>]
             ELSE [me EXCEPT !.todo = Tail(@),
                             !.temp = IF IsOf(line, me.file) THEN @ ELSE Append(@, line)])
  /\ UNCHANGED <<content, list, recorded, meant, calm, events>>

TestEnd(p) ==
  LET me == proc[p] IN
  /\ me.at = "read" /\ me.todo = <<>>
  /\ Step(p, [me EXCEPT !.at = "truncate", !.temp = Append(@, Entry(me.file, me.hash))])
  /\ recorded' = recorded \cup {<<me.file, me.hash>>}
  /\ meant' = With(me.file, me.hash)
  /\ UNCHANGED <<content, list, calm, events>>

(* Nothing has changed: the same lines are written again. *)
TestOverwrite(p) ==
  /\ proc[p].at = "overwrite"
  /\ list' = Over(list, proc[p].temp)
  /\ Exits(p, 0)
  /\ UNCHANGED <<content, recorded, meant, calm, events>>

-----------------------------------------------------------------------------
(* fnvupdate *)

UpdateStart(p) ==
  /\ Begins(p, IF list = Missing THEN [Idle EXCEPT !.exit = 1]
               ELSE [Idle EXCEPT !.at = "hash", !.todo = list])
  /\ UNCHANGED <<content, list, recorded, meant>>

UpdateLine(p) ==
  LET me == proc[p]
      line == Head(me.todo)
      now == content[line.name]
      next(lines) == Step(p, [me EXCEPT !.todo = Tail(@), !.temp = @ \o lines,
                                        !.exit = IF lines = <<line>> THEN @ ELSE 0])
  IN
  /\ me.at = "hash" /\ me.todo # <<>>
  /\ IF line = Other THEN next(<<line>>) /\ UNCHANGED <<recorded, meant>>
     ELSE IF now = 0 THEN /\ next(<<>>)
                          /\ meant' = Without(line.name) /\ UNCHANGED recorded
     ELSE /\ next(<<Entry(line.name, now)>>)
          /\ meant' = With(line.name, now)
          /\ recorded' = recorded \cup {<<line.name, now>>}
  /\ UNCHANGED <<content, list, calm, events>>

(* exit is set as soon as a line has changed: then the list is rewritten. *)
UpdateEnd(p) ==
  LET me == proc[p] IN
  /\ me.at = "hash" /\ me.todo = <<>>
  /\ IF me.exit = -1 THEN Exits(p, 0) ELSE Step(p, [me EXCEPT !.at = "truncate"])
  /\ UNCHANGED <<content, list, recorded, meant, calm, events>>

-----------------------------------------------------------------------------
(* Both: the list is emptied and, when the stream is closed, written. *)
Truncate(p) ==
  /\ proc[p].at = "truncate"
  /\ list' = <<>>
  /\ Step(p, [proc[p] EXCEPT !.at = "write"])
  /\ UNCHANGED <<content, recorded, meant, calm, events>>

Write(p) ==
  /\ proc[p].at = "write"
  /\ list' = Over(list, proc[p].temp)
  /\ Exits(p, IF proc[p].test THEN 1 ELSE 0)
  /\ UNCHANGED <<content, recorded, meant, calm, events>>

Kill(p) ==
  /\ proc[p].at # "idle"
  /\ Step(p, Idle)
  /\ calm' = FALSE
  /\ UNCHANGED <<content, list, recorded, meant, events>>

(* Others change the files. *)
Modify(f, h) ==
  /\ events < MaxEvents /\ events' = events + 1
  /\ content' = [content EXCEPT ![f] = h]
  /\ UNCHANGED <<list, proc, recorded, meant, calm>>

LInit ==
  /\ content \in [Files -> Hashes]
  /\ list \in Lists \cup {Missing}
  /\ proc = [p \in Processes |-> Idle]
  /\ LET lines == IF list = Missing THEN <<>> ELSE list
         hash(f) == CHOOSE h \in Hashes: <<f, h>> \in Pairs(lines)
     IN /\ recorded = Pairs(lines)
        /\ meant = [hash |-> [f \in {x[1]: x \in recorded} |-> hash(f)],
                    others |-> Others(lines)]
  /\ calm = TRUE
  /\ events = 0

LNext ==
  \/ \E p \in Processes:
       \/ \E f \in Files: TestStart(p, f)
       \/ TestOpen(p) \/ TestLine(p) \/ TestEnd(p) \/ TestOverwrite(p)
       \/ UpdateStart(p) \/ UpdateLine(p) \/ UpdateEnd(p)
       \/ Truncate(p) \/ Write(p) \/ Kill(p)
  \/ \E f \in Files, h \in Hashes: Modify(f, h)

LSpec == LInit /\ [][LNext]_lvars

LTypeOK ==
  /\ content \in [Files -> Hashes]
  /\ list \in Seq(Lines) \cup {Missing}
  /\ proc \in [Processes -> Runs]
  /\ recorded \subseteq Files \X Hashes
  /\ meant \in [hash: UNION {[set -> Hashes]: set \in SUBSET Files}, others: Nat]
  /\ calm \in BOOLEAN
  /\ events \in 0..MaxEvents

-----------------------------------------------------------------------------
(* However the processes interleave and whenever one is ended: fnvtest calls *)
(* a file unchanged only if the hash it has was entered for it before.      *)
(* Where none has come between the others, the list holds between two runs  *)
(* one entry of each file with the hash last entered, the files fnvupdate   *)
(* could not open left out, and every line that is no entry.  (Otherwise    *)
(* the list may lose entries, or all of them between Truncate and Write.)   *)
ListIsTrue ==
  /\ \A p \in Processes:
       proc[p].at = "idle" /\ proc[p].test /\ proc[p].exit = 0
       => <<proc[p].file, proc[p].hash>> \in recorded
  /\ calm /\ (\A p \in Processes: proc[p].at = "idle") /\ list # Missing
     => /\ Pairs(list) = {<<f, meant.hash[f]>>: f \in DOMAIN meant.hash}
        /\ Others(list) = meant.others
        /\ \A j, k \in DOMAIN list: list[j] = list[k] /\ j # k => list[j] = Other
=============================================================================
