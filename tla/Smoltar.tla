------------------------------ MODULE Smoltar ------------------------------
(***************************************************************************)
(* src/src/smoltar/smoltar.c: an archiver.  An archive is a sequence of    *)
(* cells, Block of them to a block: the cells of a header, the bytes of    *)
(* the members (numbers that are not 0) and zeros, that pad the members    *)
(* and end the archive.  A hash of a file is the file itself.              *)
(*                                                                         *)
(* While a member is added another process may change the file, after its  *)
(* size and its hash were taken; and any fwrite may come up short.         *)
(***************************************************************************)
EXTENDS Integers, Sequences

CONSTANTS
  Block,        \* BLOCK_SIZE
  Members,      \* names of files
  Output(_, _), \* the name that a prefix and a name make
  OutPrefixes,  \* values of -p; "" for none
  Contents,     \* what a file may hold: sequences of numbers
  Cuts,         \* bound on where a write is cut: how many cells get out
  MaxMembers    \* bound on the files of one archive

VARIABLES
  disk,      \* the files
  archive,   \* the cells of the archive file, <<>> when it was just truncated
  job,       \* what the running program does
  outcome,   \* of the last one: its return value and the names it listed
  source,    \* history: what was put into the archive, name by name
  sound      \* history: the archive was made without an error, and no file
             \* changed between its hash and its data

avars == <<disk, archive, job, outcome, source, sound>>

FileNames == Members \union {Output(p, m): p \in OutPrefixes, m \in Members}
Absent == <<-1>>
Modes == {"force", "normal", "safe"}

Idle == [op |-> "none"]
Done(ok, listed) == [ok |-> ok, listed |-> listed]

ATypeOK ==
  /\ \A f \in DOMAIN disk: disk[f] = Absent \/ disk[f] \in Seq(Nat)
  /\ DOMAIN disk = FileNames
  /\ job.op \in {"none", "create", "extract"}
  /\ outcome.ok \in BOOLEAN /\ sound \in BOOLEAN

-----------------------------------------------------------------------------
(* Cells. *)

Byte(b) == [kind |-> "byte", value |-> b]
ZeroCell == Byte(0)
Zeros(n) == [i \in 1..n |-> ZeroCell]

(* init_header: name, size and hash, with the checksum over them. *)
Header(name, size, hash) == [name |-> name, size |-> size, hash |-> hash]
HeaderCells(h) == [i \in 1..Block |-> [kind |-> "head", header |-> h, value |-> i]]
Bytes(content) == [i \in 1..Len(content) |-> Byte(content[i])]

(* The zeros after the data, from the size in the header. *)
Padding(size) == IF size % Block = 0 THEN 0 ELSE Block - (size % Block)
BlocksMutant(size) == size \div Block      \* the last block forgotten
Blocks(size) == (size + Block - 1) \div Block

Read(pos, n) == SubSeq(archive, pos + 1, IF pos + n < Len(archive) THEN pos + n ELSE Len(archive))

-----------------------------------------------------------------------------
(* main has parsed its options: exactly one of -c, -x and -t, an archive,   *)
(* at least one file for -c.                                                *)
StartCreate(files) ==
  /\ job = Idle
  /\ archive' = <<>>                          \* fopen "wb"
  /\ job' = [op |-> "create", files |-> files, stage |-> "open",
             size |-> 0, hash |-> <<>>, same |-> TRUE]
  /\ source' = <<>>
  /\ sound' = FALSE
  /\ UNCHANGED <<disk, outcome>>

(* Nothing changes the files while an archive is extracted. *)
StartExtract(mode, prefix) ==
  /\ job = Idle
  /\ job' = [op |-> "extract", mode |-> mode, prefix |-> prefix, pos |-> 0]
  /\ UNCHANGED <<disk, archive, outcome, source, sound>>

Finish(ok, listed) ==
  /\ job' = Idle
  /\ outcome' = Done(ok, listed)

-----------------------------------------------------------------------------
(* add_file_to_archive: the size and the hash, ... *)
AddOpen ==
  /\ job.op = "create" /\ job.files # <<>> /\ job.stage = "open"
  /\ LET f == Head(job.files) IN
     \/ /\ disk[f] = Absent
        /\ Finish(FALSE, <<>>)
        /\ UNCHANGED source
     \/ /\ disk[f] # Absent
        /\ job' = [job EXCEPT !.stage = "write", !.size = Len(disk[f]), !.hash = disk[f]]
        /\ source' = Append(source, <<f, disk[f]>>)
        /\ UNCHANGED outcome
  /\ UNCHANGED <<disk, archive, sound>>

(* ... then the header with them, the data as it is read now, and zeros up  *)
(* to what the size says.  The number of bytes written is counted and not   *)
(* compared.                                                                *)
AddWrite ==
  /\ job.op = "create" /\ job.files # <<>> /\ job.stage = "write"
  /\ LET f == Head(job.files)
         now == IF disk[f] = Absent THEN job.hash ELSE disk[f]  \* unlinked: still open
         cells == HeaderCells(Header(f, job.size, job.hash)) \o Bytes(now)
                    \o Zeros(Padding(job.size))
     IN \/ /\ archive' = archive \o cells
           /\ job' = [job EXCEPT !.stage = "open", !.files = Tail(@)]
           /\ UNCHANGED outcome
        \/ \E n \in Cuts:
             /\ n < Len(cells)
             /\ archive' = archive \o SubSeq(cells, 1, n)
             /\ Finish(FALSE, <<>>)
  /\ UNCHANGED <<disk, source, sound>>

CreateEnd ==
  /\ job.op = "create" /\ job.files = <<>>
  /\ \/ /\ archive' = archive \o Zeros(2 * Block)
        /\ Finish(TRUE, <<>>)
        /\ sound' = job.same
     \/ \E n \in Cuts:
          /\ archive' = archive \o Zeros(n)
          /\ Finish(FALSE, <<>>)
          /\ UNCHANGED sound
  /\ UNCHANGED <<disk, source>>

-----------------------------------------------------------------------------
(* Reading an archive. *)

AtEnd(pos) ==
  LET block == Read(pos, Block)
  IN Len(block) = Block => block[1] = ZeroCell

(* A header that is whole. list_archive looks at the magic alone, extraction *)
(* at the checksum too: here they agree, since the data of a member never    *)
(* looks like a header, so that the magic is in its place only where the     *)
(* whole header is.                                                          *)
IsHeader(pos) ==
  LET block == Read(pos, Block) IN
  \A i \in 1..Block: block[i].kind = "head" /\ block[i].value = i
                     /\ block[i].header = block[1].header
HeaderAt(pos) == archive[pos + 1].header

(* extract_archive, its loop's end and its errors. *)
ExtractEnd ==
  /\ job.op = "extract"
  /\ \/ AtEnd(job.pos) /\ Finish(TRUE, <<>>)
     \/ ~AtEnd(job.pos) /\ ~IsHeader(job.pos) /\ Finish(FALSE, <<>>)
  /\ UNCHANGED <<disk, archive, source, sound>>

Target(h) == Output(job.prefix, h.name)

(* The mode decides; a header without a hash does not occur here. *)
ShouldExtractMutant(h) == job.mode = "force" \/ disk[Target(h)] = Absent
ShouldExtract(h) ==
  CASE job.mode = "safe" -> disk[Target(h)] = Absent
    [] job.mode = "normal" -> disk[Target(h)] # h.hash
    [] OTHER -> TRUE

(* A seek over the member's blocks succeeds also past the end. *)
ExtractSkip ==
  /\ job.op = "extract"
  /\ ~AtEnd(job.pos) /\ IsHeader(job.pos)
  /\ LET h == HeaderAt(job.pos) IN
     /\ ~ShouldExtract(h)
     /\ job' = [job EXCEPT !.pos = @ + Block * (1 + Blocks(h.size))]
  /\ UNCHANGED <<disk, archive, outcome, source, sound>>

(* The data goes out block by block: a short read leaves the whole blocks   *)
(* before it in the output, a failing write any part.                       *)
ExtractMember ==
  /\ job.op = "extract"
  /\ ~AtEnd(job.pos) /\ IsHeader(job.pos)
  /\ LET h == HeaderAt(job.pos)
         data == Read(job.pos + Block, h.size)
         pad == Read(job.pos + Block + h.size, Padding(h.size))
         got == [i \in DOMAIN data |-> data[i].value]
     IN
     /\ ShouldExtract(h)
     /\ \/ /\ Len(data) = h.size
           /\ disk' = [disk EXCEPT ![Target(h)] = got]
           /\ IF Len(pad) = Padding(h.size)
              THEN /\ job' = [job EXCEPT !.pos = @ + Block + h.size + Padding(h.size)]
                   /\ UNCHANGED outcome
              ELSE Finish(FALSE, <<>>)
        \/ /\ Len(data) < h.size
           /\ disk' = [disk EXCEPT ![Target(h)] =
                         SubSeq(got, 1, (Len(data) \div Block) * Block)]
           /\ Finish(FALSE, <<>>)
        \/ \E n \in Cuts:
             /\ n < Len(data)
             /\ disk' = [disk EXCEPT ![Target(h)] = SubSeq(got, 1, n)]
             /\ Finish(FALSE, <<>>)
        \/ /\ UNCHANGED disk                      \* fopen fails
           /\ Finish(FALSE, <<>>)
  /\ UNCHANGED <<archive, source, sound>>

(* list_archive: the names, up to the end or to what is no header. *)
Listed ==
  LET next(pos) == pos + Block * (1 + Blocks(HeaderAt(pos).size))
      at[k \in 0..MaxMembers] ==
        IF k = 0 THEN 0
        ELSE IF AtEnd(at[k - 1]) \/ ~IsHeader(at[k - 1]) THEN at[k - 1]
        ELSE next(at[k - 1])
      last == CHOOSE k \in 0..MaxMembers:
                /\ k = MaxMembers \/ at[k + 1] = at[k]
                /\ \A j \in 1..k: at[j] # at[j - 1]
  IN [ok |-> AtEnd(at[last]),
      names |-> [k \in 1..last |-> HeaderAt(at[k - 1]).name]]

list_archive ==
  /\ job = Idle
  /\ outcome' = Done(Listed.ok, Listed.names)
  /\ UNCHANGED <<disk, archive, job, source, sound>>

-----------------------------------------------------------------------------
(* Another process writes a file, or removes it. *)
Modify(f, content) ==
  /\ job.op # "extract"
  /\ disk[f] # content
  /\ disk' = [disk EXCEPT ![f] = content]
  /\ job' = IF job.op = "create" /\ job.files # <<>> /\ job.stage = "write"
               /\ f = Head(job.files)
            THEN [job EXCEPT !.same = FALSE] ELSE job
  /\ UNCHANGED <<archive, outcome, source, sound>>

AInit ==
  /\ disk \in [FileNames -> Contents \union {Absent}]
  /\ \A f \in FileNames \ Members: disk[f] = Absent
  /\ archive = <<>>
  /\ job = Idle
  /\ outcome = Done(TRUE, <<>>)
  /\ source = <<>>
  /\ sound = FALSE

ANext ==
  \/ \E n \in 1..MaxMembers: \E files \in [1..n -> Members]: StartCreate(files)
  \/ \E mode \in Modes, prefix \in OutPrefixes: StartExtract(mode, prefix)
  \/ AddOpen \/ AddWrite \/ CreateEnd
  \/ ExtractEnd \/ ExtractSkip \/ ExtractMember
  \/ list_archive
  \/ \E f \in Members, content \in Contents \union {Absent}: Modify(f, content)

ASpec == AInit /\ [][ANext]_avars

-----------------------------------------------------------------------------
(* An archive that was made without an error, of files that nobody changed  *)
(* meanwhile, gives them back: after an extraction that reports success     *)
(* every member is there under its prefix, as it was when it was added last *)
(* (in mode safe: is there), whichever of them were skipped.                *)
LastOf(m) == CHOOSE k \in DOMAIN source:
  /\ source[k][1] = m
  /\ \A j \in DOMAIN source: source[j][1] = m => j <= k
GivesBack ==
  [][sound /\ job.op = "extract" /\ job' = Idle /\ outcome'.ok =>
       \A m \in {source[k][1]: k \in DOMAIN source}:
         LET now == disk'[Output(job.prefix, m)] IN
         IF job.mode = "safe" THEN now # Absent
         ELSE now = source[LastOf(m)][2]]_avars

(* Such an archive is read back without a complaint unless the disk fails,  *)
(* and lists the members in the order they were given.                      *)
ListsMembers ==
  sound /\ job = Idle =>
    /\ Listed.ok
    /\ Listed.names = [k \in DOMAIN source |-> source[k][1]]
=============================================================================
