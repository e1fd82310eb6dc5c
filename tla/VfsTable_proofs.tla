-------------------------- MODULE VfsTable_proofs --------------------------
(***************************************************************************)
(* VfsTable, proved for every set of paths, number of blocks and of        *)
(* inodes: its types, and that no two files share a block.                 *)
(***************************************************************************)
EXTENDS VfsTable, WellFoundedInduction, SequenceTheorems, TLAPS

InodeType ==
  [inode: 1..MaxInodes, name: Name, dir: BOOLEAN, size: 0..BlockSize, block: Blocks,
   parent: 0..MaxInodes, children: 0..CountModulus - 1]
FileType == [ptr: 1..MaxInodes, mode: {"r", "w", "a"}, offset: 0..BlockSize]
Maps == [Blocks -> 0..MaxInodes]

(* The first n inodes of t have numbers of their own, and map says whose    *)
(* the block of each file is; the first one is the root, which has no       *)
(* parent in the table, so that it cannot be removed or renamed in peace.   *)
Distinct(t, n) == \A i, j \in 1..n: t[i].inode = t[j].inode => i = j
Owned(t, n, map) == \A i \in 1..n: ~t[i].dir => map[t[i].block] = t[i].inode
Rooted(t, n) == n > 0 /\ t[1].parent = 0
Sound(t, n, map) == Distinct(t, n) /\ Owned(t, n, map) /\ Rooted(t, n)

Types ==
  /\ table \in Seq(InodeType) /\ count \in 0..MaxInodes /\ count <= Len(table)
  /\ blockMap \in Maps /\ freeBlocks \in 0..CountModulus - 1
  /\ fsMounted \in BOOLEAN /\ wild \in BOOLEAN /\ renumbered \in BOOLEAN
  /\ files \in SUBSET FileType
  /\ disk.table \in Seq(InodeType) /\ disk.count \in 0..MaxInodes
  /\ disk.count <= Len(disk.table)
  /\ disk.blockMap \in Maps /\ disk.freeBlocks \in 0..CountModulus - 1

TInv ==
  /\ Types
  /\ ~wild /\ ~renumbered => /\ Sound(table, count, blockMap)
                             /\ Sound(disk.table, disk.count, disk.blockMap)

-----------------------------------------------------------------------------
(* Numbers, and the least of a set of them.                                 *)
LEMMA Wraps ==
  ASSUME NEW m \in Nat, m > 0, NEW x \in Int
  PROVE  x % m \in 0..m - 1
  BY SMT

LEMMA LeastIsMember ==
  ASSUME NEW S \in SUBSET Nat, S # {}
  PROVE  Min(S) \in S /\ \A x \in S: Min(S) <= x
<1> DEFINE R == {ss \in Nat \X Nat : ss[1] < ss[2]}
<1>1. IsWellFoundedOn(R, Nat)
  BY NatLessThanWellFounded DEF OpToRel
<1>2. PICK x \in S: \A y \in S: ~ (<<y, x>> \in R)
  <2> HIDE DEF R
  <2>. QED  BY <1>1, WFMin
<1>3. \A y \in S: ~(y < x)
  BY <1>2 DEF R
<1>4. \A y \in S: x <= y
  BY <1>3
<1>. QED  BY <1>4 DEF Min

-----------------------------------------------------------------------------
(* Looking a path up: each step finds an inode or none, so the walk is a    *)
(* function, and what it ends at is an inode of the table or NotFound.      *)
LEMMA ChildInTable ==
  ASSUME count \in Nat, NEW cur, NEW name
  PROVE  Child(cur, name) \in 0..count
<1> DEFINE hits == {i \in 1..count: table[i].parent = table[cur].inode /\ table[i].name = name}
<1>1. hits \in SUBSET Nat /\ \A i \in hits: i \in 0..count
  OBVIOUS
<1>2. Child(cur, name) = IF cur = NotFound \/ hits = {} THEN 0 ELSE Min(hits)
  BY DEF Child, NotFound
<1>3. hits # {} => Min(hits) \in hits
  <2> HIDE DEF hits
  <2>. QED  BY <1>1, LeastIsMember
<1>. QED  BY <1>1, <1>2, <1>3

(* The walk along the first m names of a path. *)
Walk(at, path, m) ==
  at = [k \in 0..m |-> IF k = 0 THEN 1 ELSE Child(at[k - 1], path[k])]

LEMMA WalkExists ==
  ASSUME count \in Nat, NEW path, NEW n \in Nat
  PROVE  \E at: Walk(at, path, n)
<1> DEFINE Left == {m \in Nat: ~ \E at: Walk(at, path, m)}
<1>1. SUFFICES ASSUME Left # {} PROVE FALSE
  OBVIOUS
<1>2. Min(Left) \in Left /\ \A m \in Left: Min(Left) <= m
  <2>1. Left \in SUBSET Nat
    OBVIOUS
  <2> HIDE DEF Left
  <2>. QED  BY <1>1, <2>1, LeastIsMember
<1>3. PICK m \in Nat: m \in Left /\ \A l \in Left: m <= l
  BY <1>2
<1>4. m # 0
  <2>1. Walk([k \in 0..0 |-> 1], path, 0)
    BY DEF Walk
  <2>. QED  BY <1>3, <2>1
<1>5. m - 1 \in Nat /\ m - 1 \notin Left
  BY <1>3, <1>4
<1>6. PICK f: Walk(f, path, m - 1)
  BY <1>5
<1> DEFINE g == [k \in 0..m |-> IF k = m THEN Child(f[m - 1], path[m]) ELSE f[k]]
<1>7. \A k \in 0..m: g[k] = IF k = 0 THEN 1 ELSE Child(g[k - 1], path[k])
  <2>1. \A k \in 0..m - 1: f[k] = IF k = 0 THEN 1 ELSE Child(f[k - 1], path[k])
    BY <1>6 DEF Walk
  <2>. QED  BY <1>4, <1>5, <2>1
<1>8. Walk(g, path, m)
  <2>1. g = [k \in 0..m |-> g[k]]
    OBVIOUS
  <2>2. [k \in 0..m |-> g[k]] = [k \in 0..m |-> IF k = 0 THEN 1 ELSE Child(g[k - 1], path[k])]
    <3> HIDE DEF g
    <3>. QED  BY <1>7
  <2> HIDE DEF g
  <2>. QED  BY <2>1, <2>2 DEF Walk
<1>. QED  BY <1>3, <1>8

LEMMA PathInTable ==
  ASSUME count \in Nat, NEW path, Len(path) \in Nat
  PROVE  find_inode_by_path(path) \in 0..count \cup {1}
<1> DEFINE n == Len(path)
           at == CHOOSE f: Walk(f, path, n)
<1>1. Walk(at, path, n)
  BY WalkExists
<1>2. find_inode_by_path(path) = at[n]
  BY DEF find_inode_by_path, Walk
<1>3. ASSUME NEW f, NEW m \in Nat, Walk(f, path, m)
      PROVE  f[m] = IF m = 0 THEN 1 ELSE Child(f[m - 1], path[m])
  BY <1>3 DEF Walk
<1> HIDE DEF at
<1>4. at[n] = IF n = 0 THEN 1 ELSE Child(at[n - 1], path[n])
  BY <1>1, <1>3
<1>. QED  BY <1>2, <1>4, ChildInTable

-----------------------------------------------------------------------------
(* What every step may rely on; after a stray access there is none. *)
Before == TInv /\ ~wild /\ ~renumbered

(* The inode a path leads to. *)
LEMMA PathFound ==
  ASSUME Before, NEW path, Len(path) \in Nat
  PROVE  LET i == find_inode_by_path(path) IN
         i # NotFound => i \in 1..count /\ i \in 1..MaxInodes /\ i \in DOMAIN table
                         /\ table[i] \in InodeType
<1>1. count \in Nat /\ count > 0 /\ count <= MaxInodes /\ MaxInodes \in Int
      /\ count <= Len(table) /\ table \in Seq(InodeType)
  BY TableAssumption DEF Before, TInv, Types, Sound, Rooted
<1>2. find_inode_by_path(path) \in 0..count \cup {1}
  BY <1>1, PathInTable
<1>. QED  BY <1>1, <1>2 DEF NotFound

LEMMA PathsAreSequences ==
  ASSUME NEW path \in VPaths
  PROVE  /\ Len(path) \in Nat
         /\ path # <<>> => Len(Front(path)) \in Nat /\ Last(path) \in Name
<1>1. path \in Seq(Name)
  BY TableAssumption
<1>2. ASSUME path # <<>>
      PROVE  Len(Front(path)) \in Nat /\ Last(path) \in Name
  <2>1. Len(path) \in Nat /\ Len(path) > 0
    BY <1>1, <1>2
  <2>2. Last(path) \in Name
    BY <1>1, <2>1 DEF Last
  <2>3. Front(path) \in Seq(Name)
    BY <1>1, <2>1 DEF Front
  <2>. QED  BY <2>2, <2>3
<1>. QED  BY <1>1, <1>2

(* A step that leaves the table, the map and the disk alone. *)
LEMMA TableKept ==
  ASSUME Before,
         UNCHANGED <<table, count, blockMap, disk, renumbered>>,
         freeBlocks' \in 0..CountModulus - 1, fsMounted' \in BOOLEAN, wild' \in BOOLEAN,
         files' \in SUBSET FileType
  PROVE  TInv'
  BY DEF Before, TInv, Types, Sound, Distinct, Owned, Rooted

(* What is known of the parts that stay. *)
LEMMA Known ==
  ASSUME Before
  PROVE  /\ freeBlocks \in 0..CountModulus - 1 /\ CountModulus \in Nat /\ CountModulus > 0
         /\ fsMounted \in BOOLEAN /\ wild \in BOOLEAN
         /\ files \in SUBSET FileType /\ BlockSize \in Nat
         /\ table \in Seq(InodeType) /\ count \in 1..MaxInodes /\ count <= Len(table)
         /\ MaxInodes \in Nat /\ TotalBlocks \in Nat /\ blockMap \in Maps
  BY TableAssumption DEF Before, TInv, Types, Sound, Rooted

LEMMA OpenedIsTyped ==
  ASSUME BlockSize \in Nat, NEW i \in 1..MaxInodes, NEW mode \in {"r", "w", "a"}, NEW t,
         t[i].size \in 0..BlockSize
  PROVE  Open(i, mode, t) \in FileType
  BY DEF Open, FileType

LEMMA FoundOpens ==
  ASSUME Before, NEW path \in VPaths, NEW mode \in {"r", "w", "a"},
         vfs_fopen_found(path, mode)
  PROVE  TInv'
<1> DEFINE i == find_inode_by_path(path)
<1>1. i \in 1..MaxInodes /\ table[i] \in InodeType
  BY PathFound, PathsAreSequences DEF vfs_fopen_found, Before
<1>2. table[i].size \in 0..BlockSize
  BY <1>1 DEF InodeType
<1>3. files' = files \union {Open(i, mode, table)}
  BY DEF vfs_fopen_found
<1>4. UNCHANGED <<table, count, blockMap, freeBlocks, fsMounted, disk, wild, renumbered>>
  BY DEF vfs_fopen_found
<1> HIDE DEF i
<1>5. Open(i, mode, table) \in FileType
  BY <1>1, <1>2, Known, OpenedIsTyped
<1>6. files' \in SUBSET FileType
  BY <1>3, <1>5, Known
<1>. QED  BY <1>4, <1>6, Known, TableKept

LEMMA NoMemoryKeeps ==
  ASSUME Before, NEW path \in VPaths, vfs_fopen_no_memory(path)
  PROVE  TInv'
<1>1. freeBlocks' \in 0..CountModulus - 1
  BY Known, Wraps DEF vfs_fopen_no_memory
<1>. QED  BY <1>1, Known, TableKept DEF vfs_fopen_no_memory

LEMMA CloseAndStrayKeep ==
  ASSUME Before, NEW f \in files, vfs_fclose(f) \/ StrayFile(f)
  PROVE  TInv'
<1>1. UNCHANGED <<table, count, blockMap, freeBlocks, fsMounted, disk, renumbered>>
      /\ wild' \in BOOLEAN /\ files' \subseteq files
  BY Known DEF vfs_fclose, StrayFile, Stray
<1>2. files' \in SUBSET FileType
  BY <1>1, Known
<1>. QED  BY <1>1, <1>2, Known, TableKept

LEMMA HandleKnown ==
  ASSUME Before, NEW f \in files, InTable(f)
  PROVE  f \in FileType /\ f.ptr \in DOMAIN table /\ table[f.ptr] \in InodeType
         /\ table[f.ptr].size \in 0..BlockSize /\ f.offset \in 0..BlockSize
<1>1. f \in FileType
  BY Known
<1>2. f.ptr \in DOMAIN table
  BY <1>1, Known DEF InTable, FileType
<1>3. table[f.ptr] \in InodeType
  BY <1>2, Known
<1>. QED  BY <1>1, <1>2, <1>3 DEF InodeType, FileType

LEMMA MovedIsTyped ==
  ASSUME NEW f \in FileType, NEW offset \in 0..BlockSize
  PROVE  [f EXCEPT !.offset = offset] \in FileType
  BY DEF FileType

LEMMA ReadKeeps ==
  ASSUME Before, NEW f \in files, NEW n \in 0..BlockSize, vfs_fread(f, n)
  PROVE  TInv'
<1> DEFINE left == table[f.ptr].size - f.offset
           offset == f.offset + (IF left < 0 THEN 0 ELSE IF n < left THEN n ELSE left)
<1>1. InTable(f)
  BY DEF vfs_fread
<1>2. offset \in 0..BlockSize
  <2>1. \A b \in Nat: \A size, o, m \in 0..b:
          (o + (IF size - o < 0 THEN 0 ELSE IF m < size - o THEN m ELSE size - o)) \in 0..b
    OBVIOUS
  <2>2. BlockSize \in Nat /\ table[f.ptr].size \in 0..BlockSize /\ f.offset \in 0..BlockSize
    BY <1>1, HandleKnown, Known
  <2>. QED  BY <2>1, <2>2
<1>3. files' = (files \ {f}) \union {[f EXCEPT !.offset = offset]}
  BY DEF vfs_fread
<1>4. UNCHANGED <<table, count, blockMap, freeBlocks, fsMounted, disk, renumbered>>
      /\ wild' \in BOOLEAN
  BY Known DEF vfs_fread
<1> HIDE DEF offset
<1>5. files' \in SUBSET FileType
  BY <1>1, <1>2, <1>3, HandleKnown, MovedIsTyped, Known
<1>. QED  BY <1>4, <1>5, Known, TableKept

LEMMA SeekKeeps ==
  ASSUME Before, NEW f \in files, NEW n \in 0..BlockSize, vfs_fseek(f, n)
  PROVE  TInv'
<1>1. files' \in SUBSET FileType
  BY HandleKnown, MovedIsTyped, Known DEF vfs_fseek
<1>. QED  BY <1>1, Known, TableKept DEF vfs_fseek

LEMMA DirsKeep ==
  ASSUME Before,
         \/ \E path \in VPaths: vfs_opendir(path)
         \/ \E d \in dirs: vfs_closedir(d) \/ vfs_readdir(d) \/ vfs_rewinddir(d)
         \/ End
  PROVE  TInv'
<1>1. UNCHANGED <<table, count, blockMap, freeBlocks, files, disk, renumbered>>
      /\ fsMounted' \in BOOLEAN /\ wild' \in BOOLEAN
  BY Known DEF vfs_opendir, vfs_closedir, vfs_readdir, vfs_rewinddir, End
<1>. QED  BY <1>1, Known, TableKept

-----------------------------------------------------------------------------
(* Changes of the table.  Two inodes agree when they have the same number,  *)
(* kind, block and parent.                                                  *)
Agree(x, y) == x.inode = y.inode /\ x.dir = y.dir /\ x.block = y.block /\ x.parent = y.parent
SameInodes(t, u) ==
  u \in Seq(InodeType) /\ Len(u) = Len(t) /\ \A k \in DOMAIN t: Agree(u[k], t[k])

LEMMA Fields ==
  ASSUME NEW x \in InodeType
  PROVE  /\ x.inode \in 1..MaxInodes /\ x.dir \in BOOLEAN /\ x.block \in Blocks
         /\ x.size \in 0..BlockSize /\ x.children \in 0..CountModulus - 1
  BY DEF InodeType

LEMMA SizeAndChildren ==
  ASSUME NEW x \in InodeType, NEW size \in 0..BlockSize, NEW n \in 0..CountModulus - 1
  PROVE  /\ [x EXCEPT !.size = size] \in InodeType /\ Agree([x EXCEPT !.size = size], x)
         /\ [x EXCEPT !.children = n] \in InodeType /\ Agree([x EXCEPT !.children = n], x)
  BY DEF InodeType, Agree

LEMMA Replaced ==
  ASSUME NEW t \in Seq(InodeType), NEW i \in DOMAIN t, NEW x \in InodeType, Agree(x, t[i])
  PROVE  SameInodes(t, [t EXCEPT ![i] = x])
  BY DEF SameInodes, Agree

LEMMA WriteKeeps ==
  ASSUME Before, NEW f \in files, NEW n \in 0..BlockSize, vfs_fwrite(f, n)
  PROVE  TInv'
<1> DEFINE end == f.offset + Writable(f, n)
           grown == IF end > table[f.ptr].size THEN end ELSE table[f.ptr].size
<1>1. InTable(f)
  BY DEF vfs_fwrite
<1>2. f \in FileType /\ f.ptr \in DOMAIN table /\ table[f.ptr] \in InodeType
      /\ table[f.ptr].size \in 0..BlockSize /\ f.offset \in 0..BlockSize
  BY <1>1, HandleKnown
<1>3. end \in 0..BlockSize
  BY <1>2, Known, SMTT(30) DEF Writable
<1>4. /\ files' = (files \ {f}) \union {[f EXCEPT !.offset = end]}
      /\ table' = [table EXCEPT ![f.ptr].size = grown]
      /\ UNCHANGED <<count, blockMap, freeBlocks, fsMounted, disk, wild, renumbered>>
  BY DEF vfs_fwrite
<1> HIDE DEF end
<1>5. grown \in 0..BlockSize
  BY <1>2, <1>3
<1> HIDE DEF grown
<1>6. files' \in SUBSET FileType
  BY <1>2, <1>3, <1>4, MovedIsTyped, Known
<1>7. SameInodes(table, table')
  <2> DEFINE x == [table[f.ptr] EXCEPT !.size = grown]
  <2>1. x \in InodeType /\ Agree(x, table[f.ptr])
    <3>1. 0 \in 0..CountModulus - 1
      BY Known
    <3>. QED  BY <1>2, <1>5, <3>1, SizeAndChildren
  <2>2. table' = [table EXCEPT ![f.ptr] = x]
    BY <1>4
  <2> HIDE DEF x
  <2>. QED  BY <1>2, <2>1, <2>2, Known, Replaced
<1>8. TInv /\ Types
  BY DEF Before, TInv
<1>9. Types'
  BY <1>4, <1>6, <1>7, <1>8 DEF Types, SameInodes
<1>10. ASSUME ~wild', ~renumbered' PROVE Sound(table, count, blockMap)'
                                         /\ Sound(disk.table, disk.count, disk.blockMap)'
  <2>1. Sound(table, count, blockMap) /\ Sound(disk.table, disk.count, disk.blockMap)
    BY DEF Before, TInv
  <2>2. \A k \in 1..count: Agree(table'[k], table[k])
    BY <1>7, Known DEF SameInodes
  <2>3. Sound(table', count, blockMap)
    BY <2>1, <2>2, Known DEF Sound, Distinct, Owned, Rooted, Agree
  <2>. QED  BY <1>4, <2>1, <2>3
<1>. QED  BY <1>9, <1>10 DEF TInv

(* A new inode behind the last one leaves the others as they were. *)
LEMMA AppendKeeps ==
  ASSUME Before, count < MaxInodes, NEW parent \in 1..count, NEW name \in Name,
         NEW isDir \in BOOLEAN, NEW block \in Blocks, Append1(parent, name, isDir, block)
  PROVE  /\ table' \in Seq(InodeType) /\ Len(table') = count + 1
         /\ count' = count + 1 /\ count' \in 1..MaxInodes
         /\ UNCHANGED fsMounted /\ wild' \in BOOLEAN /\ renumbered' \in BOOLEAN
         /\ \A k \in 1..count: Agree(table'[k], table[k])
         /\ ~renumbered' => \A k \in 1..count: table[k].inode # count + 1
         /\ table'[count + 1].inode = count + 1 /\ table'[count + 1].dir = isDir
         /\ table'[count + 1].block = block /\ table'[count + 1].size = 0
<1>1. PICK moved \in BOOLEAN, number \in {table[parent].inode, 0}:
        LET kept == SubSeq(table, 1, count)
            counted == IF moved THEN kept
                       ELSE [kept EXCEPT ![parent].children = (@ + 1) % CountModulus]
        IN /\ table' = Append(counted, Inode(count + 1, name, isDir, block, number))
           /\ UNCHANGED fsMounted
           /\ wild' = (wild \/ moved)
           /\ count' = count + 1
           /\ renumbered' = (renumbered \/ \E i \in 1..count: table[i].inode = count + 1)
  BY DEF Append1
<1> DEFINE kept == SubSeq(table, 1, count)
           one == [kept[parent] EXCEPT !.children = (kept[parent].children + 1) % CountModulus]
           counted == IF moved THEN kept ELSE [kept EXCEPT ![parent] = one]
           new == Inode(count + 1, name, isDir, block, number)
<1>2. /\ table' = Append(counted, new) /\ UNCHANGED fsMounted /\ wild' = (wild \/ moved)
      /\ count' = count + 1
      /\ renumbered' = (renumbered \/ \E i \in 1..count: table[i].inode = count + 1)
  BY <1>1
<1>3. kept \in Seq(InodeType) /\ Len(kept) = count /\ \A k \in 1..count: kept[k] = table[k]
  BY Known
<1> HIDE DEF kept
<1>4. one \in InodeType /\ Agree(one, kept[parent])
  <2>1. kept[parent] \in InodeType /\ 0 \in 0..BlockSize
    BY <1>3, Known
  <2>2. (kept[parent].children + 1) % CountModulus \in 0..CountModulus - 1
    <3>1. kept[parent].children \in 0..CountModulus - 1
      BY <2>1, Fields
    <3>2. kept[parent].children + 1 \in Int
      BY <3>1, Known
    <3>. QED  BY <3>2, Wraps, Known
  <2>. QED  BY <2>1, <2>2, SizeAndChildren
<1> HIDE DEF one
<1>5. SameInodes(kept, counted)
  <2>1. parent \in DOMAIN kept
    BY <1>3, Known
  <2>2. SameInodes(kept, [kept EXCEPT ![parent] = one])
    BY <1>3, <1>4, <2>1, Replaced
  <2>3. SameInodes(kept, kept)
    BY <1>3 DEF SameInodes, Agree
  <2>. QED  BY <2>2, <2>3
<1> HIDE DEF counted
<1>6. new \in InodeType /\ new.inode = count + 1 /\ new.dir = isDir /\ new.block = block
      /\ new.size = 0
  <2>1. number \in 0..MaxInodes
    <3>1. table[parent] \in InodeType
      BY Known
    <3>. QED  BY <3>1, Fields, Known
  <2>2. count + 1 \in 1..MaxInodes /\ 0 \in 0..CountModulus - 1 /\ 0 \in 0..BlockSize
    BY Known
  <2>. QED  BY <2>1, <2>2 DEF Inode, InodeType
<1> HIDE DEF new
<1>7. /\ counted \in Seq(InodeType) /\ Len(counted) = count
      /\ \A k \in 1..count: Agree(counted[k], table[k])
  BY <1>3, <1>5, Known DEF SameInodes
<1>8. /\ table' \in Seq(InodeType) /\ Len(table') = count + 1
      /\ \A k \in 1..count: table'[k] = counted[k]
      /\ table'[count + 1] = new
  BY <1>2, <1>6, <1>7, Known
<1>9. count' \in 1..MaxInodes /\ wild' \in BOOLEAN /\ renumbered' \in BOOLEAN
  BY <1>2, Known
<1>10. ~renumbered' => \A k \in 1..count: table[k].inode # count + 1
  BY <1>2
<1>. QED  BY <1>2, <1>6, <1>7, <1>8, <1>9, <1>10

(* The numbers stay distinct, and whoever had a block still has it. *)
LEMMA CreationKeeps ==
  ASSUME Before, NEW parent \in 1..count, NEW name \in Name, NEW isDir \in BOOLEAN,
         NEW block \in Blocks, count < MaxInodes, Append1(parent, name, isDir, block),
         freeBlocks' \in 0..CountModulus - 1, files' \in SUBSET FileType, UNCHANGED disk,
         \/ isDir /\ UNCHANGED blockMap
         \/ blockMap[block] = 0 /\ blockMap' = [blockMap EXCEPT ![block] = count + 1]
  PROVE  TInv'
<1>1. /\ table' \in Seq(InodeType) /\ Len(table') = count + 1
      /\ count' = count + 1 /\ count' \in 1..MaxInodes
      /\ UNCHANGED fsMounted /\ wild' \in BOOLEAN /\ renumbered' \in BOOLEAN
      /\ \A k \in 1..count: Agree(table'[k], table[k])
      /\ ~renumbered' => \A k \in 1..count: table[k].inode # count + 1
      /\ table'[count + 1].inode = count + 1 /\ table'[count + 1].dir = isDir
      /\ table'[count + 1].block = block
  BY AppendKeeps
<1>2. Types /\ Sound(table, count, blockMap) /\ Sound(disk.table, disk.count, disk.blockMap)
  BY DEF Before, TInv
<1>3. blockMap' \in Maps
  BY <1>1, Known DEF Maps
<1>4. Types'
  BY <1>1, <1>2, <1>3, Known DEF Types
<1>5. ASSUME ~renumbered' PROVE Sound(table', count', blockMap')
  <2>1. Distinct(table', count')
    <3>1. \A i, j \in 1..count: table'[i].inode = table'[j].inode => i = j
      BY <1>1, <1>2 DEF Sound, Distinct, Agree
    <3>2. \A i \in 1..count: table'[i].inode # table'[count + 1].inode
      BY <1>1, <1>5 DEF Agree
    <3>3. \A i \in 1..count + 1: i \in 1..count \/ i = count + 1
      BY Known
    <3>. QED  BY <1>1, <3>1, <3>2, <3>3 DEF Distinct
  <2>2. Owned(table', count', blockMap')
    <3>1. ASSUME NEW i \in 1..count, ~table'[i].dir
          PROVE  blockMap'[table'[i].block] = table'[i].inode
      <4>1. table[i] \in InodeType
        BY Known
      <4>2. blockMap[table[i].block] = table[i].inode /\ ~table[i].dir
        BY <1>1, <1>2, <3>1 DEF Sound, Owned, Agree
      <4>3. table[i].inode # 0
        BY <4>1, Fields, Known
      <4>4. blockMap'[table[i].block] = table[i].inode
        BY <4>2, <4>3, <4>1, Known DEF Maps, InodeType
      <4>. QED  BY <1>1, <4>4 DEF Agree
    <3>2. ASSUME ~isDir
          PROVE  blockMap'[block] = count + 1
      BY <3>2, Known DEF Maps
    <3>3. \A i \in 1..count + 1: i \in 1..count \/ i = count + 1
      BY Known
    <3>. QED  BY <1>1, <3>1, <3>2, <3>3 DEF Owned
  <2>3. Rooted(table', count')
    BY <1>1, <1>2, Known DEF Sound, Rooted, Agree
  <2>. QED  BY <2>1, <2>2, <2>3 DEF Sound
<1>. QED  BY <1>2, <1>4, <1>5 DEF TInv

LEMMA ParentKnown ==
  ASSUME Before, NEW path \in VPaths, path # <<>>, IsDirectory(Parent(path))
  PROVE  Parent(path) \in 1..count /\ Last(path) \in Name
  BY PathFound, PathsAreSequences DEF Before, Parent, IsDirectory

LEMMA MkdirKeeps ==
  ASSUME Before, NEW path \in VPaths, vfs_mkdir(path)
  PROVE  TInv'
<1>1. /\ path # <<>> /\ IsDirectory(Parent(path)) /\ count < MaxInodes
      /\ Append1(Parent(path), Last(path), TRUE, 0)
      /\ UNCHANGED <<blockMap, freeBlocks, files, dirs, disk>>
  BY DEF vfs_mkdir
<1>2. Parent(path) \in 1..count /\ Last(path) \in Name
  BY <1>1, ParentKnown
<1>3. 0 \in Blocks
  BY TableAssumption DEF Blocks, Before
<1>. QED  BY <1>1, <1>2, <1>3, Known, CreationKeeps

LEMMA NewFileKeeps ==
  ASSUME Before, NEW path \in VPaths, NEW mode \in {"r", "w", "a"}, vfs_fopen_new(path, mode)
  PROVE  TInv'
<1> DEFINE b == Min(FreeBlockSet)
           made == Open(count + 1, mode, table')
<1>1. /\ path # <<>> /\ IsDirectory(Parent(path)) /\ count < MaxInodes /\ FreeBlockSet # {}
      /\ Append1(Parent(path), Last(path), FALSE, b)
      /\ blockMap' = [blockMap EXCEPT ![b] = count + 1]
      /\ freeBlocks' = (freeBlocks + CountModulus - 1) % CountModulus
      /\ files' = files \union {made}
      /\ UNCHANGED disk
  BY DEF vfs_fopen_new
<1>2. Parent(path) \in 1..count /\ Last(path) \in Name
  BY <1>1, ParentKnown
<1>3. b \in Blocks /\ blockMap[b] = 0
  <2>1. FreeBlockSet \in SUBSET Nat
    BY Known DEF FreeBlockSet, Blocks
  <2>2. b \in FreeBlockSet
    BY <1>1, <2>1, LeastIsMember
  <2>. QED  BY <2>2 DEF FreeBlockSet
<1> HIDE DEF b
<1>4. freeBlocks' \in 0..CountModulus - 1
  BY <1>1, Wraps, Known
<1>5. files' \in SUBSET FileType
  <2>1. table'[count + 1].size = 0
    BY <1>1, <1>2, <1>3, AppendKeeps
  <2>2. made \in FileType
    <3>1. count + 1 \in 1..MaxInodes /\ table'[count + 1].size \in 0..BlockSize
      BY <1>1, <2>1, Known
    <3>. QED  BY <3>1, Known, OpenedIsTyped
  <2> HIDE DEF made
  <2>. QED  BY <1>1, <2>2, Known
<1>. QED  BY <1>1, <1>2, <1>3, <1>4, <1>5, CreationKeeps

(* An inode the less, or the more, in the count of a parent. *)
LEMMA Recounted ==
  ASSUME NEW t \in Seq(InodeType), NEW q \in DOMAIN t, NEW d \in Int,
         CountModulus \in Nat, CountModulus > 0, BlockSize \in Nat
  PROVE  SameInodes(t, [t EXCEPT ![q].children = (@ + d) % CountModulus])
<1> DEFINE x == [t[q] EXCEPT !.children = (t[q].children + d) % CountModulus]
<1>1. t[q] \in InodeType
  OBVIOUS
<1>2. t[q].children + d \in Int
  BY <1>1, Fields
<1>3. (t[q].children + d) % CountModulus \in 0..CountModulus - 1
  BY <1>2, Wraps
<1>4. 0 \in 0..BlockSize
  OBVIOUS
<1>5. x \in InodeType /\ Agree(x, t[q])
  BY <1>1, <1>3, <1>4, SizeAndChildren
<1>6. [t EXCEPT ![q].children = (@ + d) % CountModulus] = [t EXCEPT ![q] = x]
  OBVIOUS
<1> HIDE DEF x
<1>. QED  BY <1>5, <1>6, Replaced

Uncounted(t, p) ==
  IF p \in DOMAIN t THEN [t EXCEPT ![p].children = (@ + (CountModulus - 1)) % CountModulus]
  ELSE t

LEMMA UncountedIsSame ==
  ASSUME Before, NEW p
  PROVE  SameInodes(table, Uncounted(table, p))
<1>1. SameInodes(table, table)
  BY Known DEF SameInodes, Agree
<1>2. CountModulus - 1 \in Int
  BY Known
<1>. QED  BY <1>1, <1>2, Known, Recounted DEF Uncounted

(* What is closed up is the place of the inode itself, as its number is its *)
(* own; its block goes back to the map and belongs to nobody else.          *)
LEMMA RemoveKeeps ==
  ASSUME Before, NEW path \in VPaths, vfs_remove(path)
  PROVE  TInv'
<1> DEFINE i == find_inode_by_path(path)
           p == table[i].parent
           gone == Min({j \in 1..count: table[j].inode = table[i].inode})
           u == Uncounted(table, p)
<1>1. /\ i # NotFound
      /\ wild' = (wild \/ p \notin DOMAIN table)
      /\ IF Releases(i)
         THEN /\ blockMap' = [blockMap EXCEPT ![table[i].block] = 0]
              /\ freeBlocks' = (freeBlocks + 1) % CountModulus
         ELSE UNCHANGED <<blockMap, freeBlocks>>
      /\ count' = count - 1
      /\ UNCHANGED <<fsMounted, files, dirs, disk, renumbered>>
  BY DEF vfs_remove
<1>2. table' = [j \in DOMAIN table |-> IF j \in gone..count - 1 THEN u[j + 1] ELSE u[j]]
  <2>1. u = IF p \in DOMAIN table
            THEN [table EXCEPT ![p].children = (@ + CountModulus - 1) % CountModulus]
            ELSE table
    <3>1. ASSUME p \in DOMAIN table
          PROVE  table[p].children + CountModulus - 1 = table[p].children + (CountModulus - 1)
      <4>1. table[p].children \in Int
        BY <3>1, Known, Fields
      <4>. QED  BY <4>1, Known
    <3>. QED  BY <3>1 DEF Uncounted
  <2>. QED  BY <2>1 DEF vfs_remove
<1>3. i \in 1..count /\ i \in DOMAIN table /\ table[i] \in InodeType
  BY <1>1, PathFound, PathsAreSequences DEF Before
<1> HIDE DEF i
<1>4. gone = i
  <2> DEFINE same == {j \in 1..count: table[j].inode = table[i].inode}
  <2>1. same = {i}
    BY <1>3 DEF Before, TInv, Sound, Distinct
  <2>2. i \in Nat /\ same # {} /\ same \in SUBSET Nat
    BY <1>3, <2>1
  <2>3. Min(same) \in same
    <3> HIDE DEF same
    <3>. QED  BY <2>2, LeastIsMember
  <2>. QED  BY <2>1, <2>3
<1>5. SameInodes(table, u)
  BY UncountedIsSame
<1> HIDE DEF gone, u
<1>6. /\ u \in Seq(InodeType) /\ Len(u) = Len(table)
      /\ \A k \in 1..Len(table): Agree(u[k], table[k])
  BY <1>5, Known DEF SameInodes
<1>7. /\ table' \in Seq(InodeType) /\ Len(table') = Len(table)
      /\ \A k \in 1..Len(table): table'[k] = IF k \in i..count - 1 THEN u[k + 1] ELSE u[k]
  <2> DEFINE r == [j \in 1..Len(table) |-> IF j \in i..count - 1 THEN u[j + 1] ELSE u[j]]
  <2>1. table' = r
    BY <1>2, <1>4, Known
  <2>2. \A k \in 1..Len(table): r[k] \in InodeType
    BY <1>3, <1>6, Known
  <2>3. Len(table) \in Nat
    BY Known
  <2>4. r \in Seq(InodeType) /\ Len(r) = Len(table)
    BY <2>2, <2>3
  <2>. QED  BY <2>1, <2>4
<1> DEFINE old(k) == IF k \in i..count - 1 THEN k + 1 ELSE k
<1>8. \A k \in 1..count - 1: old(k) \in 1..count /\ old(k) # i /\ Agree(table'[k], table[old(k)])
  BY <1>3, <1>6, <1>7, Known
<1>9. \A j, k \in 1..count - 1: old(j) = old(k) => j = k
  BY <1>3, Known
<1> HIDE DEF old
<1>10. Types /\ Sound(table, count, blockMap) /\ Sound(disk.table, disk.count, disk.blockMap)
  BY DEF Before, TInv
<1>11. Types'
  <2>1. blockMap' \in Maps
    <3>1. \A b \in Blocks: [blockMap EXCEPT ![b] = 0] \in Maps
      BY Known DEF Maps
    <3>2. table[i].block \in Blocks
      BY <1>3, Fields
    <3>. QED  BY <1>1, <3>1, <3>2, Known
  <2>2. freeBlocks' \in 0..CountModulus - 1
    <3>1. freeBlocks + 1 \in Int
      BY Known
    <3>. QED  BY <1>1, <3>1, Wraps, Known
  <2>3. count' \in 0..MaxInodes /\ count' <= Len(table') /\ wild' \in BOOLEAN
    BY <1>1, <1>7, Known, SMTT(30)
  <2>. QED  BY <1>1, <1>7, <1>10, <2>1, <2>2, <2>3 DEF Types
<1>12. ASSUME ~wild' PROVE Sound(table', count', blockMap')
  <2>1. Distinct(table', count')
    BY <1>1, <1>8, <1>9, <1>10 DEF Sound, Distinct, Agree
  <2>2. ASSUME NEW k \in 1..count - 1, ~table'[k].dir
        PROVE  blockMap'[table'[k].block] = table'[k].inode
    <3>1. /\ blockMap[table[old(k)].block] = table[old(k)].inode
          /\ table[old(k)] \in InodeType /\ table[old(k)].inode # table[i].inode
      <4>1. old(k) \in 1..count /\ old(k) # i /\ ~table[old(k)].dir
        BY <1>8, <2>2 DEF Agree
      <4>2. table[old(k)] \in InodeType
        BY <4>1, Known
      <4>. QED  BY <1>3, <1>10, <4>1, <4>2 DEF Sound, Owned, Distinct
    <3>2. ASSUME Releases(i) PROVE table[old(k)].block # table[i].block
      BY <1>3, <1>10, <3>1, <3>2 DEF Releases, Sound, Owned
    <3>3. blockMap'[table[old(k)].block] = blockMap[table[old(k)].block]
      BY <1>1, <3>1, <3>2, Fields, Known DEF Maps
    <3>. QED  BY <1>8, <3>1, <3>3 DEF Agree
  <2>3. Rooted(table', count')
    <3>1. i # 1
      <4>1. p \in DOMAIN table
        BY <1>1, <1>12
      <4>2. 0 \notin DOMAIN table
        BY Known
      <4>. QED  BY <1>10, <4>1, <4>2 DEF Sound, Rooted
    <3>2. count - 1 > 0 /\ 1 \in 1..count - 1 /\ old(1) = 1
      BY <1>3, <3>1, Known DEF old
    <3>. QED  BY <1>1, <1>8, <1>10, <3>2 DEF Sound, Rooted, Agree
  <2>. QED  BY <1>1, <2>1, <2>2, <2>3 DEF Sound, Owned
<1>. QED  BY <1>1, <1>10, <1>11, <1>12 DEF TInv

(* A new name and place; the root would be a stray access. *)
LEMMA RenameKeeps ==
  ASSUME Before, NEW path \in VPaths, NEW new \in VPaths, vfs_rename(path, new)
  PROVE  TInv'
<1> DEFINE i == find_inode_by_path(path)
           q == Parent(new)
           p == table[i].parent
           u == Uncounted(table, p)
           v == [u EXCEPT ![q].children = (@ + 1) % CountModulus]
           x == [v[i] EXCEPT !.name = Last(new), !.parent = table[q].inode]
<1>1. /\ new # <<>> /\ i # NotFound /\ IsDirectory(q)
      /\ wild' = (wild \/ p \notin DOMAIN table)
      /\ UNCHANGED <<count, blockMap, freeBlocks, fsMounted, files, dirs, disk, renumbered>>
  BY DEF vfs_rename
<1>2. i \in 1..count /\ i \in DOMAIN table /\ table[i] \in InodeType
  BY <1>1, PathFound, PathsAreSequences DEF Before
<1>3. q \in 1..count /\ q \in DOMAIN table /\ Last(new) \in Name
  BY <1>1, ParentKnown, Known
<1>4. table' = [u EXCEPT ![q].children = (@ + 1) % CountModulus,
                         ![i].name = Last(new), ![i].parent = table[q].inode]
  <2>1. u = IF p \in DOMAIN table
            THEN [table EXCEPT ![p].children = (@ + CountModulus - 1) % CountModulus]
            ELSE table
    <3>1. ASSUME p \in DOMAIN table
          PROVE  table[p].children + CountModulus - 1 = table[p].children + (CountModulus - 1)
      <4>1. table[p].children \in Int
        BY <3>1, Known, Fields
      <4>. QED  BY <4>1, Known
    <3>. QED  BY <3>1 DEF Uncounted
  <2>. QED  BY <2>1 DEF vfs_rename
<1>5. SameInodes(table, u)
  BY UncountedIsSame
<1> HIDE DEF i, q, u
<1>6. SameInodes(u, v)
  <2>1. u \in Seq(InodeType) /\ q \in DOMAIN u
    BY <1>3, <1>5, Known DEF SameInodes
  <2>2. 1 \in Int /\ CountModulus \in Nat /\ CountModulus > 0 /\ BlockSize \in Nat
    BY Known
  <2>3. \A t \in Seq(InodeType): \A k \in DOMAIN t: \A d \in Int:
          SameInodes(t, [t EXCEPT ![k].children = (@ + d) % CountModulus])
    BY <2>2, Recounted
  <2>. QED  BY <2>1, <2>2, <2>3
<1>7. table' = [v EXCEPT ![i] = x]
  BY <1>2, <1>3, <1>4, <1>5, Known DEF SameInodes
<1> HIDE DEF v
<1>8. /\ v \in Seq(InodeType) /\ Len(v) = Len(table)
      /\ \A k \in 1..Len(table): Agree(v[k], table[k])
  BY <1>5, <1>6, Known DEF SameInodes, Agree
<1>9. x \in InodeType /\ x.inode = v[i].inode /\ x.dir = v[i].dir /\ x.block = v[i].block
  <2>1. v[i] \in InodeType
    BY <1>2, <1>8
  <2>2. table[q].inode \in 0..MaxInodes
    <3>1. table[q].inode \in 1..MaxInodes
      BY <1>3, Known, Fields
    <3>. QED  BY <3>1, Known
  <2>. QED  BY <1>3, <2>1, <2>2 DEF InodeType
<1> HIDE DEF x
<1>10. /\ table' \in Seq(InodeType) /\ Len(table') = Len(table)
       /\ \A k \in 1..Len(table): /\ table'[k].inode = table[k].inode
                                  /\ table'[k].dir = table[k].dir
                                  /\ table'[k].block = table[k].block
                                  /\ k # i => table'[k].parent = table[k].parent
  BY <1>2, <1>7, <1>8, <1>9, Known DEF Agree
<1>11. Types /\ Sound(table, count, blockMap) /\ Sound(disk.table, disk.count, disk.blockMap)
  BY DEF Before, TInv
<1>12. Types'
  <2>1. wild' \in BOOLEAN
    BY <1>1, Known
  <2>. QED  BY <1>1, <1>10, <1>11, <2>1 DEF Types
<1>13. ASSUME ~wild' PROVE Sound(table', count, blockMap)
  <2>1. i # 1
    <3>1. p \in DOMAIN table
      BY <1>1, <1>13
    <3>2. 0 \notin DOMAIN table
      BY Known
    <3>. QED  BY <1>11, <3>1, <3>2 DEF Sound, Rooted
  <2>2. \A k \in 1..count: k \in 1..Len(table)
    BY Known
  <2>3. 1 \in 1..count
    BY Known
  <2>. QED  BY <1>10, <1>11, <2>1, <2>2, <2>3 DEF Sound, Distinct, Owned, Rooted
<1>. QED  BY <1>1, <1>11, <1>12, <1>13 DEF TInv

-----------------------------------------------------------------------------
(* What is saved was sound when it was; the root made anew is.              *)
LEMMA FreshIsSound ==
  /\ <<Root>> \in Seq(InodeType) /\ Len(<<Root>>) = 1
  /\ FreshDisk.blockMap \in Maps
  /\ \A map: Sound(<<Root>>, 1, map)
<1>1. Root \in InodeType /\ Root.dir /\ Root.parent = 0
  <2>1. /\ 1 \in 1..MaxInodes /\ 0 \in 0..BlockSize /\ 0 \in 0..TotalBlocks - 1
        /\ 0 \in 0..MaxInodes /\ 0 \in 0..CountModulus - 1
    BY TableAssumption
  <2>2. "/" \in Name
    BY DEF Name
  <2>. QED  BY <2>1, <2>2 DEF Root, Inode, InodeType, Blocks
<1>2. FreshDisk.blockMap \in Maps
  BY TableAssumption DEF FreshDisk, Maps
<1> HIDE DEF Root
<1>3. \A map: Sound(<<Root>>, 1, map)
  BY <1>1 DEF Sound, Distinct, Owned, Rooted
<1>. QED  BY <1>1, <1>2, <1>3

LEMMA UnmountKeeps ==
  ASSUME Before, vfs_unmount
  PROVE  TInv'
<1>1. /\ fsMounted' = FALSE
      /\ disk' = [count |-> count, table |-> SubSeq(table, 1, count),
                  freeBlocks |-> freeBlocks, blockMap |-> blockMap]
      /\ UNCHANGED <<table, count, blockMap, freeBlocks, files, dirs, wild, renumbered>>
  BY DEF vfs_unmount
<1> DEFINE saved == SubSeq(table, 1, count)
<1>2. saved \in Seq(InodeType) /\ Len(saved) = count /\ \A k \in 1..count: saved[k] = table[k]
  BY Known
<1> HIDE DEF saved
<1>3. /\ disk'.count = count /\ disk'.table = saved /\ disk'.freeBlocks = freeBlocks
      /\ disk'.blockMap = blockMap
  BY <1>1 DEF saved
<1>4. Types /\ Sound(table, count, blockMap)
  BY DEF Before, TInv
<1>5. Types'
  <2>1. fsMounted' \in BOOLEAN /\ UNCHANGED <<table, count, blockMap, freeBlocks, files, wild, renumbered>>
    BY <1>1
  <2>2. /\ disk'.table \in Seq(InodeType) /\ disk'.count \in 0..MaxInodes
        /\ disk'.count <= Len(disk'.table)
        /\ disk'.blockMap \in Maps /\ disk'.freeBlocks \in 0..CountModulus - 1
    BY <1>2, <1>3, Known
  <2>. QED  BY <1>4, <2>1, <2>2 DEF Types
<1>6. Sound(saved, count, blockMap)
  <2>1. Distinct(saved, count)
    BY <1>2, <1>4 DEF Sound, Distinct
  <2>2. Owned(saved, count, blockMap)
    BY <1>2, <1>4 DEF Sound, Owned
  <2>3. 1 \in 1..count
    BY Known
  <2>4. Rooted(saved, count)
    BY <1>2, <1>4, <2>3 DEF Sound, Rooted
  <2>. QED  BY <2>1, <2>2, <2>4 DEF Sound
<1>. QED  BY <1>1, <1>3, <1>4, <1>5, <1>6 DEF TInv

LEMMA MountKeeps ==
  ASSUME Before, vfs_mount_disk
  PROVE  TInv'
<1>1. /\ count' = disk.count
      /\ table' = IF disk.count = 1 THEN <<Root>> ELSE disk.table
      /\ freeBlocks' = disk.freeBlocks /\ blockMap' = disk.blockMap
      /\ fsMounted' = TRUE /\ files' = {} /\ UNCHANGED <<disk, wild, renumbered>>
  BY DEF vfs_mount_disk
<1>2. Types /\ Sound(disk.table, disk.count, disk.blockMap)
  BY DEF Before, TInv
<1>3. /\ <<Root>> \in Seq(InodeType) /\ Len(<<Root>>) = 1
      /\ \A map: Sound(<<Root>>, 1, map)
  BY FreshIsSound DEF Before
<1>4. table' \in Seq(InodeType) /\ count' <= Len(table') /\ Sound(table', count', blockMap')
  <2>1. CASE disk.count = 1
    <3>1. table' = <<Root>> /\ count' = 1
      BY <1>1, <2>1
    <3>. QED  BY <1>3, <3>1
  <2>2. CASE disk.count # 1
    <3>1. table' = disk.table
      BY <1>1, <2>2
    <3>. QED  BY <1>1, <1>2, <3>1 DEF Types
  <2>. QED  BY <2>1, <2>2
<1>5. Types'
  BY <1>1, <1>2, <1>4 DEF Types
<1>. QED  BY <1>1, <1>2, <1>4, <1>5 DEF TInv

LEMMA InvInit ==
  ASSUME VInit
  PROVE  TInv
<1>1. /\ <<Root>> \in Seq(InodeType) /\ Len(<<Root>>) = 1 /\ FreshDisk.blockMap \in Maps
      /\ \A map: Sound(<<Root>>, 1, map)
  BY FreshIsSound
<1>2. /\ disk.table = <<Root>> /\ disk.count = 1 /\ disk.freeBlocks = TotalBlocks
      /\ disk.blockMap = FreshDisk.blockMap
  BY DEF VInit, FreshDisk
<1>3. /\ table = <<Root>> /\ count = 1 /\ freeBlocks = TotalBlocks
      /\ blockMap = FreshDisk.blockMap /\ fsMounted = TRUE /\ files = {}
      /\ wild = FALSE /\ renumbered = FALSE
  BY DEF VInit
<1>4. 1 \in 0..MaxInodes /\ TotalBlocks \in 0..CountModulus - 1
  BY TableAssumption
<1>5. Types
  <2>1. /\ table \in Seq(InodeType) /\ count \in 0..MaxInodes /\ count <= Len(table)
        /\ blockMap \in Maps /\ freeBlocks \in 0..CountModulus - 1
    BY <1>1, <1>3, <1>4
  <2>2. /\ disk.table \in Seq(InodeType) /\ disk.count \in 0..MaxInodes
        /\ disk.count <= Len(disk.table)
        /\ disk.blockMap \in Maps /\ disk.freeBlocks \in 0..CountModulus - 1
    BY <1>1, <1>2, <1>4
  <2>3. /\ fsMounted \in BOOLEAN /\ wild \in BOOLEAN /\ renumbered \in BOOLEAN
        /\ files \in SUBSET FileType
    BY <1>3
  <2>. QED  BY <2>1, <2>2, <2>3 DEF Types
<1>. QED  BY <1>1, <1>2, <1>3, <1>5 DEF TInv

LEMMA InvNext ==
  ASSUME TInv, [VNext]_vvars
  PROVE  TInv'
<1>1. CASE UNCHANGED vvars
  BY <1>1 DEF vvars, TInv, Types, Sound, Distinct, Owned, Rooted
<1>2. CASE VNext
  <2>1. Before
    BY <1>2 DEF VNext, Before
  <2>2. CASE vfs_unmount \/ vfs_mount_disk \/ End
    BY <2>1, <2>2, UnmountKeeps, MountKeeps, DirsKeep
  <2>3. ASSUME NEW path \in VPaths, NEW mode \in {"r", "w", "a"},
               vfs_fopen_found(path, mode) \/ vfs_fopen_new(path, mode)
        PROVE  TInv'
    BY <2>1, <2>3, FoundOpens, NewFileKeeps
  <2>4. ASSUME NEW path \in VPaths,
               \/ vfs_fopen_no_memory(path) \/ vfs_mkdir(path)
               \/ vfs_remove(path) \/ vfs_opendir(path)
               \/ \E new \in VPaths: vfs_rename(path, new)
        PROVE  TInv'
    BY <2>1, <2>4, NoMemoryKeeps, MkdirKeeps, RemoveKeeps, RenameKeeps, DirsKeep
  <2>5. ASSUME NEW f \in files, vfs_fclose(f) \/ StrayFile(f)
        PROVE  TInv'
    BY <2>1, <2>5, CloseAndStrayKeep
  <2>6. ASSUME NEW f \in files, NEW n \in 0..BlockSize,
               vfs_fread(f, n) \/ vfs_fwrite(f, n) \/ vfs_fseek(f, n)
        PROVE  TInv'
    BY <2>1, <2>6, ReadKeeps, WriteKeeps, SeekKeeps
  <2>7. ASSUME NEW d \in dirs, vfs_closedir(d) \/ vfs_readdir(d) \/ vfs_rewinddir(d)
        PROVE  TInv'
    BY <2>1, <2>7, DirsKeep
  <2>. QED  BY <1>2, <2>2, <2>3, <2>4, <2>5, <2>6, <2>7 DEF VNext
<1>. QED  BY <1>1, <1>2

LEMMA AlwaysTInv == VSpec => []TInv
<1>1. VInit => TInv
  BY InvInit
<1>2. TInv /\ [VNext]_vvars => TInv'
  BY InvNext
<1>. QED  BY <1>1, <1>2, PTL DEF VSpec

(* Types: sizes and offsets stay within a block, counters within their      *)
(* width, blocks and numbers in range, whatever is called in whatever order.*)
THEOREM TableTypes == VSpec => []VTypeOK
<1>1. TInv => VTypeOK
  <2> SUFFICES ASSUME TInv PROVE VTypeOK
    OBVIOUS
  <2>1. Types
    BY DEF TInv
  <2>2. \A i \in DOMAIN table: /\ table[i].size \in 0..BlockSize
                               /\ table[i].block \in Blocks
                               /\ table[i].children \in 0..CountModulus - 1
    BY <2>1, Fields DEF Types
  <2>3. \A f \in files: f.ptr \in 1..MaxInodes /\ f.offset \in 0..BlockSize
    BY <2>1 DEF Types, FileType
  <2>. QED  BY <2>1, <2>2, <2>3 DEF Types, VTypeOK, Maps
<1>. QED  BY <1>1, AlwaysTInv, PTL

(* As long as no number is given a second time and no pointer strays, the   *)
(* block of a file (allocate_block, free_block) is that file's alone.       *)
THEOREM BlocksAreNotShared == VSpec => []NoSharedBlocks
<1>1. TInv => NoSharedBlocks
  BY DEF TInv, NoSharedBlocks, Sound, Distinct, Owned
<1>. QED  BY <1>1, AlwaysTInv, PTL
=============================================================================
