------------------------------- MODULE Fat16 -------------------------------
(***************************************************************************)
(* The files and directories of src/fat16/vfs.c, in memory.  Every         *)
(* operation holds the one mutex from its first line to its return and is  *)
(* one step here; an operation that never returns leaves it locked.        *)
(*                                                                         *)
(* A directory entry and the unit of file data have the same size, 32      *)
(* bytes, so that a cluster is DirEntries slots whatever it is used for.   *)
(* The root table, which the structure has right before the data, is two   *)
(* clusters long: clusters 0 and 1 of "data" are that table, and an access *)
(* through a cluster number 0 reads and writes it.                         *)
(*                                                                         *)
(* The calls of findEntry without its third argument stand for parent =    *)
(* false; O_RDONLY is 1, O_WRONLY 2 and O_RDWR 3, so that any of them      *)
(* opens for both.  A path is the sequence of its components.              *)
(*                                                                         *)
(* The functions vfs_mkdir, vfs_opendir, vfs_readdir and vfs_closedir are   *)
(* called fat_mkdir ... here: VfsTable has functions of those names.        *)
(*                                                                         *)
(* findEntry goes past the zero that ends a path without a slash there and *)
(* reads the byte that follows: it is taken to be zero too.                *)
(***************************************************************************)
EXTENDS Integers, Sequences, FiniteSets, SequencesExt, FiniteSetsExt

CONSTANTS
  NumClusters,   \* cluster numbers, 0 and 1 included
  DirEntries,    \* slots of a cluster
  MaxDepth,      \* components of a path that findEntry keeps
  MaxOpenFiles, MaxOpenDirs,    \* one constant in the code
  Names,         \* file names
  Paths,         \* the paths the operations are called with
  Counts,        \* the counts of reads and writes, in slots
  Payloads,      \* what is written, as a search of a directory would read it
  MaxOffset      \* bound on where a write may end

VARIABLES
  fat,        \* 0: free, EndOfChain, or the next cluster
  data,       \* the slots of every cluster
  openFiles,
  openDirs,
  stuck,      \* the mutex is held by a call that does not return
  misled      \* something was freed that only written data names: history

tvars == <<fat, data, openFiles, openDirs, stuck, misled>>

EndOfChain == 65535
Clusters == 0..NumClusters - 1
Allocatable == 2..NumClusters - 1

(* A name of "" is a slot that is free; what a file holds is zeros, which   *)
(* read as free, text, which reads as a file of no name in use, or bytes    *)
(* that read as an entry of a name that is.  "made" tells the entries that  *)
(* vfs_open and vfs_mkdir made from what was written; no code looks at it.  *)
DirEntry(n, isDir, first, size) ==
  [name |-> n, dir |-> isDir, first |-> first, size |-> size, made |-> TRUE]
Zeros == ""
Text == "text"
Zero == [name |-> Zeros, dir |-> FALSE, first |-> 0, size |-> 0, made |-> FALSE]
Free(s) == s.name = ""

(* The other fields of a descriptor or a handle that is not used are never  *)
(* read: closing one clears them here.                                      *)
FileDesc == [used |-> FALSE, path |-> <<>>, first |-> 0, size |-> 0, offset |-> 0]
Handle == [used |-> FALSE, cluster |-> 0, index |-> 0]

(* The table has a number for each cluster besides the two of the root and  *)
(* the end of a chain; a path that ends in a slash has an empty component;  *)
(* "." and ".." are not asked for.  A number that the table has not got     *)
(* would be an access outside of it, and a directory at 0 would be searched *)
(* over one cluster of the root: no bytes written read as either.           *)
ASSUME FatAssumption ==
  /\ NumClusters \in 2..EndOfChain /\ DirEntries \in Nat /\ DirEntries > 0
  /\ MaxDepth \in Nat /\ Counts \subseteq Nat
  /\ Payloads \subseteq [name: Names \cup {Zeros, Text}, dir: BOOLEAN,
                        first: Clusters, size: Nat, made: {FALSE}]
  /\ \A v \in Payloads: v.dir => v.first # 0
  /\ Names \cap {Zeros, Text, ".", ".."} = {}
  /\ \A path \in Paths: path \in Seq(Names \cup {""})

TTypeOK ==
  /\ fat \in [Clusters -> Clusters \union {EndOfChain}]
  /\ DOMAIN data = Clusters
  /\ \A c \in Clusters: \A i \in 0..DirEntries - 1:
       /\ data[c][i].name \in Names \union {Zeros, Text, ".", ".."}
       /\ data[c][i].first \in Clusters /\ data[c][i].size \in Nat
  /\ DOMAIN openFiles = 0..MaxOpenFiles - 1
  /\ \A f \in DOMAIN openFiles:
       openFiles[f].first \in Clusters /\ openFiles[f].offset \in Nat
  /\ \A h \in DOMAIN openDirs: openDirs[h].cluster \in Clusters
  /\ stuck \in BOOLEAN /\ misled \in BOOLEAN

-----------------------------------------------------------------------------
(* Directories.  A table is named by its cluster, the root by 0. *)

Slots(c) == IF c = 0 THEN 0..2 * DirEntries - 1 ELSE 0..DirEntries - 1
At(d, c, i) == d[c + i \div DirEntries][i % DirEntries]
Put(d, c, i, s) == [d EXCEPT ![c + i \div DirEntries][i % DirEntries] = s]

LastName(path) == IF path = <<>> THEN "" ELSE Last(path)
NoTable == -1

(* The first slot of table c that has the name; the empty one is in no slot *)
(* that is searched.                                                        *)
Named(d, c, n) == {i \in Slots(c): ~Free(At(d, c, i)) /\ At(d, c, i).name = n}

(* The table that the components lead to, each of them a directory. *)
Enter(d, c, n) ==
  LET hits == {i \in Named(d, c, n): At(d, c, i).dir}
  IN IF c = NoTable \/ hits = {} THEN NoTable ELSE At(d, c, Min(hits)).first
Table(d, comps) ==
  LET at[k \in 0..Len(comps)] == IF k = 0 THEN 0 ELSE Enter(d, at[k - 1], comps[k])
  IN at[Len(comps)]

Kept(path) == SubSeq(path, 1, IF Len(path) < MaxDepth THEN Len(path) ELSE MaxDepth)

(* findEntry with parent: the table that holds the last component. *)
ParentTable(path) ==
  Table(data, IF Kept(path) = <<>> THEN <<>> ELSE Front(Kept(path)))

(* findEntry without it: the loop takes the last component too as a         *)
(* directory, and then looks for its name inside it.  (For "/" it compares  *)
(* with what stands before the array; that matches nothing here.)           *)
None == [cluster |-> NoTable, index |-> 0]
Found(d, path) ==
  LET c == Table(d, Kept(path))
      hits == Named(d, c, LastName(Kept(path)))
  IN IF c = NoTable \/ hits = {} THEN None
     ELSE [cluster |-> c, index |-> Min(hits)]
EntryOf(d, e) == At(d, e.cluster, e.index)

-----------------------------------------------------------------------------
(* Clusters. *)

FreeClustersMutant(f) == {c \in Allocatable: f[c] \in {0, EndOfChain}}   \* the ends of chains too
FreeClusters(f) == {c \in Allocatable: f[c] = 0}

(* What a walk from a cluster comes by, going from each to the next one up   *)
(* to an end: the least set with the cluster in it that the walk stays in.  *)
Closed(f, set) == \A c \in set: f[c] = EndOfChain \/ f[c] \in set
ChainOf(f, first) ==
  LET closed == {set \in SUBSET Clusters: first \in set /\ Closed(f, set)}
  IN {c \in Clusters: \A set \in closed: c \in set}

(* A walk that has no end goes round for ever, cluster 0 being its own       *)
(* successor.                                                               *)
EndsIn(f, first) == \E c \in ChainOf(f, first): f[c] = EndOfChain
EndOf(f, first) == CHOOSE c \in ChainOf(f, first): f[c] = EndOfChain

(* The k-th cluster of a chain, EndOfChain past its last. *)
Nth(f, first, k) ==
  LET at[j \in 0..k] == IF j = 0 THEN first
                        ELSE IF at[j - 1] = EndOfChain THEN EndOfChain ELSE f[at[j - 1]]
  IN at[k]

(* What is freed: the chain; one that has no end is walked for ever once    *)
(* 0 is reached.                                                            *)
Freed(f, first) == [c \in Clusters |-> IF c \in ChainOf(f, first) THEN 0 ELSE f[c]]

-----------------------------------------------------------------------------
(* vfs_open and fat_mkdir: a new entry in the table of the parent.          *)

FreeSlots(c) == {i \in Slots(c): Free(At(data, c, i))}
CanAdd(path) ==
  LET c == ParentTable(path) IN
  /\ c # NoTable
  /\ Named(data, c, LastName(path)) = {}
  /\ FreeSlots(c) # {}
  /\ FreeClusters(fat) # {}

NewDirectory(first, parent) ==
  [i \in 0..DirEntries - 1 |->
     CASE i = 0 -> DirEntry(".", TRUE, first, 0)
       [] i = 1 -> DirEntry("..", TRUE, parent, 0)
       [] OTHER -> Zero]

(* The name of a path that ends in a slash is empty: the slot stays free    *)
(* and the cluster is taken.                                                *)
Add(path, isDir) ==
  LET parent == ParentTable(path)
      first == Min(FreeClusters(fat))
      slot == Min(FreeSlots(parent))
      put == Put(data, parent, slot,
                 IF LastName(path) = "" THEN Zero
                 ELSE DirEntry(LastName(path), isDir, first, 0))
  IN /\ fat' = [fat EXCEPT ![first] = EndOfChain]
     /\ data' = IF isDir THEN [put EXCEPT ![first] = NewDirectory(first, parent)]
                         ELSE put

FreeFds == {f \in DOMAIN openFiles: ~openFiles[f].used}
Descriptor(path, first, size) ==
  IF FreeFds = {} THEN openFiles                              \* EMFILE
  ELSE [openFiles EXCEPT ![Min(FreeFds)] =
          [used |-> TRUE, path |-> path, first |-> first, size |-> size, offset |-> 0]]

(* EMFILE comes after the file has been made. *)
OpenNew(path) ==
  /\ ~stuck
  /\ Found(data, path) = None
  /\ CanAdd(path)
  /\ Add(path, FALSE)
  /\ openFiles' = Descriptor(path, Min(FreeClusters(fat)), 0)
  /\ UNCHANGED <<openDirs, stuck, misled>>

(* Without O_EXCL. *)
OpenFound(path) ==
  LET e == Found(data, path) IN
  /\ ~stuck
  /\ e # None
  /\ ~EntryOf(data, e).dir
  /\ openFiles' = Descriptor(path, EntryOf(data, e).first, EntryOf(data, e).size)
  /\ UNCHANGED <<fat, data, openDirs, stuck, misled>>

fat_mkdir(path) ==
  /\ ~stuck
  /\ CanAdd(path)
  /\ Add(path, TRUE)
  /\ UNCHANGED <<openFiles, openDirs, stuck, misled>>

vfs_close(fd) ==
  /\ ~stuck
  /\ openFiles[fd].used
  /\ openFiles' = [openFiles EXCEPT ![fd] = FileDesc]
  /\ UNCHANGED <<fat, data, openDirs, stuck, misled>>

-----------------------------------------------------------------------------
(* vfs_read and vfs_write.  A transfer stops where the chain ends. *)

Least(a, b) == IF a < b THEN a ELSE b
Greater(a, b) == IF a > b THEN a ELSE b
ClustersFor(n) == (n + DirEntries - 1) \div DirEntries

(* How many of the n slots from offset on the chain has. *)
Reached(f, first, offset, n) ==
  Cardinality({o \in offset..offset + n - 1: Nth(f, first, o \div DirEntries) # EndOfChain})

vfs_read(fd, n) ==
  LET file == openFiles[fd] IN
  /\ ~stuck
  /\ file.used
  /\ openFiles' = [openFiles EXCEPT ![fd].offset = file.offset +
       Reached(fat, file.first, file.offset,
               Greater(Least(n, file.size - file.offset), 0))]
  /\ UNCHANGED <<fat, data, openDirs, stuck, misled>>

(* The clusters that a write appends, one at a time: a new one is taken     *)
(* first and then linked behind the end of the chain.  The loop leaves off  *)
(* when none is free, and never comes back when the chain has no end.  A    *)
(* file of no cluster, which only written data can name, gets its first.    *)
LinkOne(s) ==
  LET new == Min(FreeClusters(s.fat))
      taken == [s.fat EXCEPT ![new] = EndOfChain]
  IN CASE s.ends # "ok" -> s
       [] s.ends = "ok" /\ FreeClusters(s.fat) = {} -> [s EXCEPT !.ends = "full"]
       [] s.ends = "ok" /\ FreeClusters(s.fat) # {} /\ s.last = 0 ->
            [fat |-> taken, last |-> new, ends |-> "ok"]
       [] OTHER -> IF EndsIn(taken, s.last)
                   THEN [fat |-> [taken EXCEPT ![EndOf(taken, s.last)] = new],
                         last |-> new, ends |-> "ok"]
                   ELSE [s EXCEPT !.fat = taken, !.ends = "stuck"]
Needed(file, n) ==
  Greater(ClustersFor(file.offset + n) - ClustersFor(file.size), 0)
Linked(file, n) ==
  LET after[k \in 0..Needed(file, n)] ==
        IF k = 0 THEN [fat |-> fat, last |-> file.first, ends |-> "ok"]
        ELSE LinkOne(after[k - 1])
  IN after[Needed(file, n)]
FirstLinked(file, n) ==
  IF file.first = 0 /\ Needed(file, n) > 0 /\ FreeClusters(fat) # {}
  THEN Min(FreeClusters(fat)) ELSE file.first

Filled(f, first, offset, n, v) ==
  LET hit == {o \in offset..offset + n - 1: Nth(f, first, o \div DirEntries) # EndOfChain}
      cells == {<<Nth(f, first, o \div DirEntries), o % DirEntries>>: o \in hit}
  IN [c \in Clusters |-> [i \in 0..DirEntries - 1 |->
        IF <<c, i>> \in cells THEN v ELSE data[c][i]]]

(* The size in the directory entry follows when findEntry finds the path of *)
(* the descriptor, in what the write has left of the tables.                *)
Resized(d, path, size) ==
  LET e == Found(d, path) IN
  IF e = None THEN d
  ELSE Put(d, e.cluster, e.index, [EntryOf(d, e) EXCEPT !.size = size])

WriteStops(fd, n) ==
  LET linked == Linked(openFiles[fd], n) IN
  /\ ~stuck
  /\ openFiles[fd].used
  /\ linked.ends # "ok"
  /\ fat' = linked.fat
  /\ stuck' = (linked.ends = "stuck")
  /\ openFiles' = [openFiles EXCEPT ![fd].first = FirstLinked(openFiles[fd], n)]
  /\ UNCHANGED <<data, openDirs, misled>>

WriteCopies(fd, n, v) ==
  LET file == openFiles[fd]
      linked == Linked(file, n)
      first == FirstLinked(file, n)
      done == Reached(linked.fat, first, file.offset, n)
      size == Greater(file.size, file.offset + done)
      filled == Filled(linked.fat, first, file.offset, n, v)
  IN
  /\ ~stuck
  /\ file.used
  /\ linked.ends = "ok"
  /\ fat' = linked.fat
  /\ data' = IF size > file.size THEN Resized(filled, file.path, size) ELSE filled
  /\ openFiles' = [openFiles EXCEPT ![fd].first = first, ![fd].size = size,
                                    ![fd].offset = file.offset + done]
  /\ UNCHANGED <<openDirs, stuck, misled>>

-----------------------------------------------------------------------------
Delete(path, isDir) ==
  LET e == Found(data, path)
      first == EntryOf(data, e).first
  IN
  /\ ~stuck
  /\ e # None
  /\ EntryOf(data, e).dir = isDir
  /\ fat' = Freed(fat, first)
  /\ stuck' = ~EndsIn(fat, first)
  /\ data' = Put(data, e.cluster, e.index, [EntryOf(data, e) EXCEPT !.name = ""])
  /\ misled' = (misled \/ ~EntryOf(data, e).made)
  /\ UNCHANGED <<openFiles, openDirs>>

vfs_unlink(path) == Delete(path, FALSE)

(* The table that is looked at for entries is the one the entry stands in,  *)
(* which holds at least the entry.                                          *)
vfs_rmdir(path) ==
  LET e == Found(data, path) IN
  /\ path # <<>>
  /\ e # None
  /\ \A i \in Slots(e.cluster) \ {0, 1}: Free(At(data, e.cluster, i))
  /\ Delete(path, TRUE)

-----------------------------------------------------------------------------
fat_opendir(path) ==
  LET e == Found(data, path)
      free == {h \in DOMAIN openDirs: ~openDirs[h].used}
  IN
  /\ ~stuck
  /\ path = <<>> \/ (e # None /\ EntryOf(data, e).dir)
  /\ free # {}
  /\ openDirs' = [openDirs EXCEPT ![Min(free)] =
       [used |-> TRUE, cluster |-> IF path = <<>> THEN 0 ELSE e.cluster, index |-> 2]]
  /\ UNCHANGED <<fat, data, openFiles, stuck, misled>>

fat_readdir(h) ==
  LET d == openDirs[h]
      rest == {i \in Slots(d.cluster): i >= d.index /\ ~Free(At(data, d.cluster, i))}
  IN
  /\ ~stuck
  /\ d.used
  /\ openDirs' = [openDirs EXCEPT ![h].index =
       IF rest = {} THEN Greater(d.index, Cardinality(Slots(d.cluster)))
                    ELSE Min(rest) + 1]
  /\ UNCHANGED <<fat, data, openFiles, stuck, misled>>

fat_closedir(h) ==
  /\ ~stuck
  /\ openDirs[h].used
  /\ openDirs' = [openDirs EXCEPT ![h] = Handle]
  /\ UNCHANGED <<fat, data, openFiles, stuck, misled>>

-----------------------------------------------------------------------------
TInit ==
  /\ fat = [c \in Clusters |-> 0]
  /\ data = [c \in Clusters |-> [i \in 0..DirEntries - 1 |-> Zero]]
  /\ openFiles = [f \in 0..MaxOpenFiles - 1 |-> FileDesc]
  /\ openDirs = [h \in 0..MaxOpenDirs - 1 |-> Handle]
  /\ stuck = FALSE /\ misled = FALSE

TNext ==
  \/ \E p \in Paths:
       \/ OpenNew(p) \/ OpenFound(p) \/ fat_mkdir(p)
       \/ vfs_unlink(p) \/ vfs_rmdir(p) \/ fat_opendir(p)
  \/ \E fd \in DOMAIN openFiles:
       \/ vfs_close(fd)
       \/ \E n \in Counts:
            \/ vfs_read(fd, n)
            \/ openFiles[fd].offset + n <= MaxOffset /\ WriteStops(fd, n)
            \/ \E v \in Payloads:
                 openFiles[fd].offset + n <= MaxOffset /\ WriteCopies(fd, n, v)
  \/ \E h \in DOMAIN openDirs: fat_readdir(h) \/ fat_closedir(h)

TSpec == TInit /\ [][TNext]_tvars

-----------------------------------------------------------------------------
(* The entries of the files and directories that were made.                 *)
Live == {e \in Clusters \X (0..DirEntries - 1):
           data[e[1]][e[2]].name \in Names /\ data[e[1]][e[2]].made}

(* The chains of two entries have no cluster in common and every chain      *)
(* ends, up to the moment when a file or directory is deleted that only the *)
(* data of a file names.  A write through a descriptor whose file is gone   *)
(* (vfs_write trusts its own first cluster and size) may put such an entry  *)
(* into a cluster that a directory has by then: opening it, reading,        *)
(* writing and appending to whatever it names, a full disk in the middle of *)
(* a chain and the reuse of clusters still cross-link nothing that is in    *)
(* use.  Deleting it frees clusters of others, and nothing is said after.   *)
NoCrossLinks ==
  ~misled =>
    /\ \A e \in Live: EndsIn(fat, data[e[1]][e[2]].first)
    /\ \A e1, e2 \in Live: e1 # e2 =>
         ChainOf(fat, data[e1[1]][e1[2]].first)
           \intersect ChainOf(fat, data[e2[1]][e2[2]].first) = {}
=============================================================================
