------------------------------ MODULE VfsTable ------------------------------
(***************************************************************************)
(* src/level2/vfs/vfs.c: a file system that is a table of inodes and one   *)
(* block per file.  The table is an array that realloc may move and that   *)
(* vfs_remove closes up, while open files and directories keep pointers    *)
(* into it.  An access through a pointer into memory that is gone, or      *)
(* outside of the array, sets "wild" and leaves the table alone: what else *)
(* it may do is beyond the model.                                          *)
(*                                                                         *)
(* A path is the sequence of its components, a number of bytes a count of  *)
(* small units; times and what the files hold are left out.  (As committed *)
(* the file does not compile: VFS_MAGIC is no number.)                     *)
(***************************************************************************)
EXTENDS Integers, Sequences, FiniteSets, SequencesExt, FiniteSetsExt

CONSTANTS
  VPaths,           \* the paths the operations are called with
  TotalBlocks,      \* VFS_TOTAL_BLOCKS
  BlockSize,        \* VFS_BLOCK_SIZE
  CountModulus,     \* child_count and free_blocks are unsigned: 2^32 in the code
  MaxInodes,        \* bound on the number of inodes
  MaxSaved,         \* bound on their number when they are saved
  MaxHandles        \* bound on what is open at a time

Name == {"/"} \cup UNION {{p[k]: k \in DOMAIN p}: p \in VPaths}

(* What the code fixes: paths are sequences of names, sizes are positive    *)
(* and the counters are wider than what they count.                         *)
ASSUME TableAssumption ==
  /\ \A p \in VPaths: p \in Seq(Name)
  /\ TotalBlocks \in Nat /\ TotalBlocks > 0
  /\ BlockSize \in Nat
  /\ CountModulus \in Nat /\ CountModulus > TotalBlocks
  /\ MaxInodes \in Nat /\ MaxInodes > 0

VARIABLES
  table,        \* the array, up to its allocated length
  count,        \* sb.inode_count
  blockMap,     \* sb.block_map
  freeBlocks,   \* sb.free_blocks
  fsMounted,    \* the VFS_FS exists
  files, dirs,  \* open handles
  disk,         \* what vfs_unmount, or the first mount, wrote
  wild,         \* history: an access outside of the table
  renumbered    \* history: a number was given while another inode had it

vvars == <<table, count, blockMap, freeBlocks, fsMounted, files, dirs,
           disk, wild, renumbered>>

Blocks == 0..TotalBlocks - 1
Inode(n, name, isDir, block, parent) ==
  [inode |-> n, name |-> name, dir |-> isDir, size |-> 0, block |-> block,
   parent |-> parent, children |-> 0]
Root == Inode(1, "/", TRUE, 0, 0)

FreshDisk == [count |-> 1, table |-> <<Root>>, freeBlocks |-> TotalBlocks,
              blockMap |-> [b \in Blocks |-> 0]]

VTypeOK ==
  /\ count \in 0..MaxInodes /\ count <= Len(table)
  /\ \A i \in DOMAIN table: /\ table[i].size \in 0..BlockSize
                            /\ table[i].block \in Blocks
                            /\ table[i].children \in 0..CountModulus - 1
  /\ blockMap \in [Blocks -> 0..MaxInodes]
  /\ freeBlocks \in 0..CountModulus - 1
  /\ fsMounted \in BOOLEAN
  /\ \A f \in files: f.ptr \in 1..MaxInodes /\ f.offset \in 0..BlockSize
  /\ wild \in BOOLEAN /\ renumbered \in BOOLEAN

-----------------------------------------------------------------------------
Inodes == {table[i]: i \in 1..count}
NotFound == 0

(* find_inode_by_path: at each component the first inode with the name and  *)
(* with the number of the directory so far as its parent.                   *)
Child(cur, name) ==
  LET hits == {i \in 1..count: table[i].parent = table[cur].inode /\ table[i].name = name}
  IN IF cur = NotFound \/ hits = {} THEN NotFound ELSE Min(hits)
find_inode_by_path(path) ==
  LET at[k \in 0..Len(path)] == IF k = 0 THEN 1 ELSE Child(at[k - 1], path[k])
  IN at[Len(path)]

Parent(path) == find_inode_by_path(Front(path))
IsDirectory(i) == i # NotFound /\ table[i].dir

(* The block that allocate_block returns; the caller marks it. *)
FreeBlockSet == {b \in Blocks: blockMap[b] = 0}

InTable(h) == h.ptr <= Len(table)

(* A new inode behind the last.  resize_inodes makes the array count + 1    *)
(* long, in place or elsewhere; in the second case the caller's pointer to  *)
(* the parent is used after its memory was freed: the parent's count of     *)
(* children is not the one that goes up, and the number read from there may *)
(* be anything.                                                             *)
Append1(parent, name, isDir, block) ==
  \E moved \in BOOLEAN:
  \E number \in IF moved THEN {table[parent].inode, 0} ELSE {table[parent].inode}:
    LET kept == SubSeq(table, 1, count)
        counted == IF moved THEN kept
                   ELSE [kept EXCEPT ![parent].children = (@ + 1) % CountModulus]
    IN /\ table' = Append(counted, Inode(count + 1, name, isDir, block, number))
       /\ UNCHANGED fsMounted
       /\ wild' = (wild \/ moved)
       /\ count' = count + 1
       /\ renumbered' = (renumbered \/ \E i \in 1..count: table[i].inode = count + 1)

-----------------------------------------------------------------------------
(* vfs_fopen.  Modes "w" and "a" make a file that is not there; neither     *)
(* empties one that is.                                                     *)
Handles == Cardinality(files) + Cardinality(dirs)
Open(i, mode, t) ==
  [ptr |-> i, mode |-> mode,
   offset |-> IF mode = "a" THEN t[i].size ELSE 0]

vfs_fopen_found(path, mode) ==
  LET i == find_inode_by_path(path) IN
  /\ i # NotFound
  /\ Handles < MaxHandles
  /\ files' = files \union {Open(i, mode, table)}
  /\ UNCHANGED <<table, count, blockMap, freeBlocks, fsMounted, dirs, disk, wild, renumbered>>

vfs_fopen_new(path, mode) ==
  /\ path # <<>>
  /\ find_inode_by_path(path) = NotFound
  /\ mode \in {"w", "a"}
  /\ IsDirectory(Parent(path))
  /\ FreeBlockSet # {}
  /\ count < MaxInodes /\ Handles < MaxHandles
  /\ Append1(Parent(path), Last(path), FALSE, Min(FreeBlockSet))
  /\ blockMap' = [blockMap EXCEPT ![Min(FreeBlockSet)] = count + 1]
  /\ freeBlocks' = (freeBlocks + CountModulus - 1) % CountModulus
  /\ files' = files \union {Open(count + 1, mode, table')}
  /\ UNCHANGED <<dirs, disk>>

(* realloc fails: the block was counted as taken and is not marked, so that *)
(* free_blocks, which nothing asks, drifts away from the map.  (Bound: once, *)
(* before anything is saved.)                                               *)
vfs_fopen_no_memory(path) ==
  /\ path # <<>>
  /\ find_inode_by_path(path) = NotFound
  /\ IsDirectory(Parent(path))
  /\ FreeBlockSet # {}
  /\ freeBlocks = Cardinality(FreeBlockSet) /\ disk = FreshDisk
  /\ freeBlocks' = (freeBlocks + CountModulus - 1) % CountModulus
  /\ UNCHANGED <<table, count, blockMap, fsMounted, files, dirs, disk, wild, renumbered>>

(* Any access through a handle whose memory is gone. *)
Stray(h) ==
  /\ ~InTable(h)
  /\ wild' = TRUE
  /\ UNCHANGED <<table, count, blockMap, freeBlocks, fsMounted, dirs, disk, renumbered>>

vfs_fclose(f) ==
  /\ files' = files \ {f}
  /\ \/ Stray(f)
     \/ /\ InTable(f)
        /\ UNCHANGED <<table, count, blockMap, freeBlocks, fsMounted, dirs,
                       disk, wild, renumbered>>

(* The length is cut at the size of the file the handle points to now; with *)
(* an offset beyond it the difference is negative and taken as unsigned.    *)
vfs_fread(f, n) ==
  /\ f.mode = "r"
  /\ InTable(f)
  /\ LET left == table[f.ptr].size - f.offset IN
     /\ wild' = (wild \/ left < 0)
     /\ files' = (files \ {f}) \union
          {[f EXCEPT !.offset = @ + (IF left < 0 THEN 0 ELSE IF n < left THEN n ELSE left)]}
  /\ UNCHANGED <<table, count, blockMap, freeBlocks, fsMounted, dirs, disk, renumbered>>

WritableMutant(f, n) == n
Writable(f, n) == IF f.offset + n > BlockSize THEN BlockSize - f.offset ELSE n

vfs_fwrite(f, n) ==
  LET end == f.offset + Writable(f, n)
      grown == IF end > table[f.ptr].size THEN end ELSE table[f.ptr].size
  IN
  /\ f.mode \in {"w", "a"}
  /\ InTable(f)
  /\ files' = (files \ {f}) \union {[f EXCEPT !.offset = end]}
  /\ table' = [table EXCEPT ![f.ptr].size = grown]
  /\ UNCHANGED <<count, blockMap, freeBlocks, fsMounted, dirs, disk, wild, renumbered>>

(* SEEK_SET, SEEK_CUR and SEEK_END come to a new offset that is in range. *)
vfs_fseek(f, offset) ==
  /\ InTable(f)
  /\ offset <= table[f.ptr].size /\ offset <= BlockSize
  /\ files' = (files \ {f}) \union {[f EXCEPT !.offset = offset]}
  /\ UNCHANGED <<table, count, blockMap, freeBlocks, fsMounted, dirs, disk,
                 wild, renumbered>>

StrayFile(f) ==
  /\ files' = files
  /\ Stray(f)

-----------------------------------------------------------------------------
vfs_mkdir(path) ==
  /\ path # <<>>
  /\ IsDirectory(Parent(path))
  /\ find_inode_by_path(path) = NotFound
  /\ count < MaxInodes
  /\ Append1(Parent(path), Last(path), TRUE, 0)
  /\ UNCHANGED <<blockMap, freeBlocks, files, dirs, disk>>

(* free_block: only a file has a block of its own. *)
ReleasesMutant(i) == blockMap[table[i].block] # 0
Releases(i) == ~table[i].dir /\ blockMap[table[i].block] # 0

(* The parent is looked up at the index that its number had at first; what  *)
(* is closed up is the place of the first inode with the number.            *)
vfs_remove(path) ==
  LET i == find_inode_by_path(path)
      p == table[i].parent
      gone == Min({j \in 1..count: table[j].inode = table[i].inode})
      uncounted == IF p \in DOMAIN table
                   THEN [table EXCEPT ![p].children = (@ + CountModulus - 1) % CountModulus]
                   ELSE table
  IN
  /\ i # NotFound
  /\ table[i].children = 0
  /\ wild' = (wild \/ p \notin DOMAIN table)
  /\ IF Releases(i)
     THEN /\ blockMap' = [blockMap EXCEPT ![table[i].block] = 0]
          /\ freeBlocks' = (freeBlocks + 1) % CountModulus
     ELSE UNCHANGED <<blockMap, freeBlocks>>
  /\ table' = [j \in DOMAIN table |-> IF j \in gone..count - 1 THEN uncounted[j + 1]
                                                               ELSE uncounted[j]]
  /\ count' = count - 1
  /\ UNCHANGED <<fsMounted, files, dirs, disk, renumbered>>

(* Nothing keeps a directory from becoming its own descendant, nor a name   *)
(* from being there twice.                                                  *)
vfs_rename(old, new) ==
  LET i == find_inode_by_path(old)
      q == Parent(new)
      p == table[i].parent
      left == IF p \in DOMAIN table
              THEN [table EXCEPT ![p].children = (@ + CountModulus - 1) % CountModulus]
              ELSE table
  IN
  /\ new # <<>>
  /\ i # NotFound
  /\ IsDirectory(q)
  /\ wild' = (wild \/ p \notin DOMAIN table)
  /\ table' = [left EXCEPT ![q].children = (@ + 1) % CountModulus,
                           ![i].name = Last(new), ![i].parent = table[q].inode]
  /\ UNCHANGED <<count, blockMap, freeBlocks, fsMounted, files, dirs, disk, renumbered>>

-----------------------------------------------------------------------------
vfs_opendir(path) ==
  LET i == find_inode_by_path(path) IN
  /\ IsDirectory(i)
  /\ Handles < MaxHandles
  /\ dirs' = dirs \union {[ptr |-> i, child |-> 0]}
  /\ UNCHANGED <<table, count, blockMap, freeBlocks, fsMounted, files, disk,
                 wild, renumbered>>

vfs_closedir(d) ==
  /\ dirs' = dirs \ {d}
  /\ UNCHANGED <<table, count, blockMap, freeBlocks, fsMounted, files, disk,
                 wild, renumbered>>

(* vfs_readdir and vfs_readdir_r: the child with the next index, if any. *)
vfs_readdir(d) ==
  LET children == {j \in 1..count: table[j].parent = table[d.ptr].inode} IN
  /\ \/ /\ ~InTable(d)
        /\ wild' = TRUE
        /\ UNCHANGED dirs
     \/ /\ InTable(d)
        /\ d.child < Cardinality(children)
        /\ dirs' = (dirs \ {d}) \union {[d EXCEPT !.child = @ + 1]}
        /\ UNCHANGED wild
  /\ UNCHANGED <<table, count, blockMap, freeBlocks, fsMounted, files, disk, renumbered>>

vfs_rewinddir(d) ==
  /\ dirs' = (dirs \ {d}) \union {[d EXCEPT !.child = 0]}
  /\ UNCHANGED <<table, count, blockMap, freeBlocks, fsMounted, files, disk,
                 wild, renumbered>>

-----------------------------------------------------------------------------
(* The inode table goes where the data of the first blocks is: what files   *)
(* hold, which is left out here, does not survive.  (Bound: it is called    *)
(* once, and not after a number of free blocks has drifted.)                *)
vfs_unmount ==
  /\ fsMounted /\ files = {} /\ dirs = {}
  /\ disk = FreshDisk /\ count <= MaxSaved /\ freeBlocks = Cardinality(FreeBlockSet)
  /\ fsMounted' = FALSE
  /\ disk' = [count |-> count, table |-> SubSeq(table, 1, count),
              freeBlocks |-> freeBlocks, blockMap |-> blockMap]
  /\ UNCHANGED <<table, count, blockMap, freeBlocks, files, dirs, wild, renumbered>>

(* The process ends without: the server never leaves its loop.              *)
End ==
  /\ fsMounted
  /\ fsMounted' = FALSE
  /\ UNCHANGED <<table, count, blockMap, freeBlocks, files, dirs, disk,
                 wild, renumbered>>

(* A new process; with a count of 1 the root is made anew.                  *)
vfs_mount_disk ==
  /\ ~fsMounted
  /\ count' = disk.count
  /\ table' = IF disk.count = 1 THEN <<Root>> ELSE disk.table
  /\ freeBlocks' = disk.freeBlocks
  /\ blockMap' = disk.blockMap
  /\ fsMounted' = TRUE
  /\ files' = {} /\ dirs' = {}
  /\ UNCHANGED <<disk, wild, renumbered>>

VInit ==
  /\ disk = FreshDisk
  /\ table = <<Root>> /\ count = 1
  /\ blockMap = FreshDisk.blockMap /\ freeBlocks = TotalBlocks
  /\ fsMounted = TRUE /\ files = {} /\ dirs = {}
  /\ wild = FALSE /\ renumbered = FALSE

VNext ==
  /\ ~wild /\ ~renumbered
  /\ \/ vfs_unmount \/ vfs_mount_disk \/ End
     \/ /\ fsMounted
        /\ \E path \in VPaths:
             \/ \E mode \in {"r", "w", "a"}:
                  vfs_fopen_found(path, mode) \/ vfs_fopen_new(path, mode)
             \/ vfs_fopen_no_memory(path) \/ vfs_mkdir(path)
             \/ vfs_remove(path) \/ vfs_opendir(path)
             \/ \E new \in VPaths: vfs_rename(path, new)
     \/ /\ fsMounted
        /\ \E f \in files:
             \/ vfs_fclose(f) \/ StrayFile(f)
             \/ \E n \in 0..BlockSize:
                  vfs_fread(f, n) \/ vfs_fwrite(f, n) \/ vfs_fseek(f, n)
     \/ /\ fsMounted
        /\ \E d \in dirs: vfs_closedir(d) \/ vfs_readdir(d) \/ vfs_rewinddir(d)

VSpec == VInit /\ [][VNext]_vvars

-----------------------------------------------------------------------------
(* As long as no number is given a second time, two files never share a     *)
(* block, and the map says whose each one is: vfs_remove and vfs_rename,    *)
(* which take an inode by its number and a parent by an index, are right    *)
(* up to there.  (A removal followed by a creation gives one twice: the     *)
(* number is the new count.)                                                *)
NoSharedBlocks ==
  ~renumbered /\ ~wild =>
    \A i, j \in 1..count: ~table[i].dir /\ ~table[j].dir =>
      /\ blockMap[table[i].block] = table[i].inode
      /\ table[i].block = table[j].block => i = j
=============================================================================
