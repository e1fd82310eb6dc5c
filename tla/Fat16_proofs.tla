---------------------------- MODULE Fat16_proofs ----------------------------
(***************************************************************************)
(* Fat16, proved for every number of clusters, size of a cluster, set of   *)
(* names and paths: its types, and that no two entries share a cluster.    *)
(***************************************************************************)
EXTENDS Fat16, FiniteSetTheorems, SequenceTheorems, WellFoundedInduction, TLAPS

EntryType ==
  [name: Names \cup {Zeros, Text, ".", ".."}, dir: BOOLEAN, first: Clusters, size: Nat,
   made: BOOLEAN]
Tables == [Clusters -> [0..DirEntries - 1 -> EntryType]]
Fats == [Clusters -> Clusters \cup {EndOfChain}]
DescType ==
  [used: BOOLEAN, path: Paths \cup {<<>>}, first: Clusters, size: Nat, offset: Nat]
HandleType == [used: BOOLEAN, cluster: Clusters, index: Nat]

Types ==
  /\ fat \in Fats /\ data \in Tables
  /\ openFiles \in [0..MaxOpenFiles - 1 -> DescType]
  /\ openDirs \in [0..MaxOpenDirs - 1 -> HandleType]
  /\ stuck \in BOOLEAN /\ misled \in BOOLEAN

(* The chain of an entry ends and has no free cluster in it, so that what   *)
(* is allocated next is in no chain; no two entries share a cluster.        *)
LiveIn(d) == {e \in Clusters \X (0..DirEntries - 1):
                d[e[1]][e[2]].name \in Names /\ d[e[1]][e[2]].made}
First(d, e) == d[e[1]][e[2]].first
Whole(f, c) == EndsIn(f, c) /\ \A x \in ChainOf(f, c): f[x] # 0
Apart(f, d) ==
  /\ \A e \in LiveIn(d): Whole(f, First(d, e))
  /\ \A e1, e2 \in LiveIn(d): e1 # e2 =>
       ChainOf(f, First(d, e1)) \cap ChainOf(f, First(d, e2)) = {}

XInv == Types /\ (~misled => Apart(fat, data))

-----------------------------------------------------------------------------
(* The least of a set of numbers, and loops.                                *)
LEMMA LeastIsMember ==
  ASSUME NEW S \in SUBSET Nat, S # {}
  PROVE  Min(S) \in S /\ \A x \in S: Min(S) <= x
<1> DEFINE R == {ss \in Nat \X Nat : ss[1] < ss[2]}
<1>1. IsWellFoundedOn(R, Nat)
  BY NatLessThanWellFounded DEF OpToRel
<1>2. PICK x \in S: \A y \in S: ~ (<<y, x>> \in R)
  <2> HIDE DEF R
  <2>. QED  BY <1>1, WFMin
<1>3. \A y \in S: ~(y < x)
  BY <1>2 DEF R
<1>4. \A y \in S: x <= y
  BY <1>3
<1>. QED  BY <1>4 DEF Min

(* A loop of n rounds whose rounds stay in T ends in T.                     *)
LEMMA LoopStays ==
  ASSUME NEW n \in Nat, NEW T, NEW f, f[0] \in T,
         \A k \in 1..n: f[k - 1] \in T => f[k] \in T
  PROVE  \A k \in 0..n: f[k] \in T
<1> DEFINE Out == {k \in 0..n: f[k] \notin T}
<1>1. SUFFICES ASSUME Out # {} PROVE FALSE
  OBVIOUS
<1>2. PICK k \in Out: \A l \in Out: k <= l
  <2>1. Out \in SUBSET Nat
    OBVIOUS
  <2> HIDE DEF Out
  <2>. QED  BY <1>1, <2>1, LeastIsMember
<1>3. k \in 1..n /\ k - 1 \in 0..n /\ k - 1 \notin Out
  BY <1>2
<1>. QED  BY <1>2, <1>3

(* Such a loop exists: round k takes t to step[k, t].                        *)
Loops(f, n, a, step) == f = [k \in 0..n |-> IF k = 0 THEN a ELSE step[<<k, f[k - 1]>>]]

LEMMA LoopExists ==
  ASSUME NEW n \in Nat, NEW a, NEW step
  PROVE  \E f: Loops(f, n, a, step)
<1> DEFINE Left == {m \in Nat: ~ \E f: Loops(f, m, a, step)}
<1>1. SUFFICES ASSUME Left # {} PROVE FALSE
  OBVIOUS
<1>2. PICK m \in Nat: m \in Left /\ \A l \in Left: m <= l
  <2>1. Left \in SUBSET Nat
    OBVIOUS
  <2> HIDE DEF Left
  <2>. QED  BY <1>1, <2>1, LeastIsMember
<1>3. m # 0
  <2>1. Loops([k \in 0..0 |-> a], 0, a, step)
    BY DEF Loops
  <2>. QED  BY <1>2, <2>1
<1>4. m - 1 \in Nat /\ m - 1 \notin Left
  BY <1>2, <1>3
<1>5. PICK f: Loops(f, m - 1, a, step)
  BY <1>4
<1> DEFINE g == [k \in 0..m |-> IF k = m THEN step[<<m, f[m - 1]>>] ELSE f[k]]
<1>6. \A k \in 0..m: g[k] = IF k = 0 THEN a ELSE step[<<k, g[k - 1]>>]
  <2>1. \A k \in 0..m - 1: f[k] = IF k = 0 THEN a ELSE step[<<k, f[k - 1]>>]
    BY <1>5 DEF Loops
  <2>2. ASSUME NEW k \in 0..m - 1 PROVE g[k] = IF k = 0 THEN a ELSE step[<<k, g[k - 1]>>]
    <3>1. g[k] = f[k] /\ (k # 0 => g[k - 1] = f[k - 1])
      BY <1>4
    <3> HIDE DEF g
    <3>. QED  BY <2>1, <3>1
  <2>3. g[m] = step[<<m, g[m - 1]>>]
    <3>1. g[m] = step[<<m, f[m - 1]>>] /\ g[m - 1] = f[m - 1]
      BY <1>3, <1>4
    <3> HIDE DEF g
    <3>. QED  BY <3>1
  <2> HIDE DEF g
  <2>. QED  BY <1>3, <1>4, <2>2, <2>3
<1>7. Loops(g, m, a, step)
  <2>1. g = [k \in 0..m |-> g[k]]
    OBVIOUS
  <2>2. [k \in 0..m |-> g[k]] = [k \in 0..m |-> IF k = 0 THEN a ELSE step[<<k, g[k - 1]>>]]
    <3> HIDE DEF g
    <3>. QED  BY <1>6
  <2> HIDE DEF g
  <2>. QED  BY <2>1, <2>2 DEF Loops
<1>. QED  BY <1>2, <1>7

-----------------------------------------------------------------------------
(* Chains: a chain is closed, and within every closed set that it begins in. *)
LEMMA ChainIsLeast ==
  ASSUME NEW f \in Fats, NEW c \in Clusters
  PROVE  /\ ChainOf(f, c) \subseteq Clusters /\ c \in ChainOf(f, c)
         /\ Closed(f, ChainOf(f, c))
         /\ \A set \in SUBSET Clusters: c \in set /\ Closed(f, set) => ChainOf(f, c) \subseteq set
<1> DEFINE closed == {set \in SUBSET Clusters: c \in set /\ Closed(f, set)}
           C == {x \in Clusters: \A set \in closed: x \in set}
<1>1. C = ChainOf(f, c)
  BY DEF ChainOf
<1>2. ASSUME NEW x \in C, f[x] # EndOfChain
      PROVE  f[x] \in C
  <2>1. f[x] \in Clusters
    BY <1>2 DEF Fats
  <2>2. \A set \in closed: f[x] \in set
    BY <1>2 DEF Closed
  <2>. QED  BY <2>1, <2>2
<1>3. Closed(f, C)
  BY <1>2 DEF Closed
<1>4. C \subseteq Clusters /\ c \in C
  OBVIOUS
<1>5. \A set \in SUBSET Clusters: c \in set /\ Closed(f, set) => C \subseteq set
  OBVIOUS
<1> HIDE DEF C
<1>. QED  BY <1>1, <1>3, <1>4, <1>5

(* Where nothing changes in a chain it stays that chain.                    *)
LEMMA SameChain ==
  ASSUME NEW f \in Fats, NEW g \in Fats, NEW c \in Clusters,
         \A x \in ChainOf(f, c): g[x] = f[x]
  PROVE  /\ ChainOf(g, c) = ChainOf(f, c)
         /\ Whole(f, c) => Whole(g, c)
<1> DEFINE C == ChainOf(f, c)
           D == ChainOf(g, c)
<1>1. Closed(g, C)
  BY ChainIsLeast DEF Closed
<1>2. D \subseteq C
  BY <1>1, ChainIsLeast
<1>3. Closed(f, D)
  BY <1>2, ChainIsLeast DEF Closed
<1>4. C \subseteq D
  BY <1>3, ChainIsLeast
<1>. QED  BY <1>2, <1>4 DEF Whole, EndsIn

(* A free cluster that is taken begins a chain of its own.                   *)
LEMMA NewChain ==
  ASSUME NEW f \in Fats, NEW new \in Clusters, f[new] = EndOfChain
  PROVE  ChainOf(f, new) = {new} /\ (new # 0 => Whole(f, new))
<1>1. Closed(f, {new})
  BY DEF Closed
<1>2. ChainOf(f, new) = {new}
  BY <1>1, ChainIsLeast
<1>3. EndOfChain # 0
  BY DEF EndOfChain
<1>. QED  BY <1>2, <1>3 DEF Whole, EndsIn

LEMMA EndIsNoCluster == EndOfChain \notin Clusters /\ 0 \in Clusters /\ 1 \in Clusters
<1>1. NumClusters \in 2..EndOfChain
  BY FatAssumption
<1>. QED  BY <1>1 DEF EndOfChain, Clusters

(* A new cluster is linked behind the end of a chain: that chain has it     *)
(* besides, and the others do not change.                                   *)
Links(f, g, w, new) ==
  /\ g[w] = new
  /\ \A x \in Clusters \ {new, w}: g[x] = f[x]
  /\ w # new => g[new] = EndOfChain

LEMMA LinkedChain ==
  ASSUME NEW f \in Fats, NEW g \in Fats, NEW c \in Clusters, Whole(f, c),
         NEW new \in Clusters \ {0}, f[new] = 0,
         NEW w \in Clusters, w = new \/ f[w] = EndOfChain, Links(f, g, w, new)
  PROVE  /\ Whole(g, c)
         /\ ChainOf(g, c) \subseteq ChainOf(f, c) \cup {new}
         /\ w \notin ChainOf(f, c) => ChainOf(g, c) \subseteq ChainOf(f, c)
<1> DEFINE C == ChainOf(f, c)
           D == ChainOf(g, c)
<1>1. C \subseteq Clusters /\ c \in C /\ new \notin C /\ \A x \in C: f[x] # 0
  BY ChainIsLeast DEF Whole
<1>2. D \subseteq Clusters /\ c \in D /\ Closed(g, D)
  BY ChainIsLeast
<1>3. /\ g[w] = new
      /\ \A x \in Clusters \ {new, w}: g[x] = f[x]
      /\ w # new => g[new] = EndOfChain
  BY DEF Links
<1>4. CASE w \notin C
  <2>1. \A x \in C: g[x] = f[x]
    BY <1>1, <1>3, <1>4
  <2>2. D = C /\ Whole(g, c)
    BY <2>1, SameChain
  <2>. QED  BY <1>4, <2>2
<1>5. CASE w \in C
  <2>1. w # new
    BY <1>1, <1>5
  <2>2. Closed(g, C \cup {new})
    BY <1>1, <1>3, <2>1, ChainIsLeast DEF Closed
  <2>3. D \subseteq C \cup {new}
    BY <1>1, <2>2, ChainIsLeast
  <2>4. \A x \in D: g[x] # 0
    <3>1. EndOfChain # 0
      BY DEF EndOfChain
    <3>. QED  BY <1>1, <1>3, <2>1, <2>3, <3>1
  <2>5. ASSUME \A x \in D: g[x] # EndOfChain PROVE FALSE
    <3>1. new \notin D
      BY <1>3, <2>1, <2>5
    <3>2. w \notin D
      BY <1>2, <1>3, <3>1, EndIsNoCluster DEF Closed
    <3>3. Closed(f, D)
      BY <1>2, <1>3, <3>1, <3>2 DEF Closed
    <3>4. C \subseteq D
      BY <1>2, <3>3, ChainIsLeast
    <3>. QED  BY <1>5, <3>2, <3>4
  <2>. QED  BY <1>5, <2>3, <2>4, <2>5 DEF Whole, EndsIn
<1>. QED  BY <1>4, <1>5

-----------------------------------------------------------------------------
(* What keeps the entries apart.                                            *)
LEMMA LiveHasChain ==
  ASSUME NEW d \in Tables, NEW e \in LiveIn(d)
  PROVE  e \in Clusters \X (0..DirEntries - 1) /\ First(d, e) \in Clusters
<1>1. d[e[1]][e[2]] \in EntryType
  BY DEF Tables, LiveIn
<1>. QED  BY <1>1 DEF EntryType, First, LiveIn

(* Entries that go, or that change in what is not their first cluster.      *)
LEMMA FewerStayApart ==
  ASSUME NEW f, NEW d, NEW d2, Apart(f, d),
         \A e \in LiveIn(d2): e \in LiveIn(d) /\ First(d2, e) = First(d, e)
  PROVE  Apart(f, d2)
BY DEF Apart

(* Clusters that are in no chain may change.                                *)
LEMMA OthersStayApart ==
  ASSUME NEW f \in Fats, NEW g \in Fats, NEW d \in Tables, Apart(f, d),
         \A e \in LiveIn(d): \A x \in ChainOf(f, First(d, e)): g[x] = f[x]
  PROVE  /\ Apart(g, d)
         /\ \A e \in LiveIn(d): ChainOf(g, First(d, e)) = ChainOf(f, First(d, e))
<1>1. ASSUME NEW e \in LiveIn(d)
      PROVE  /\ ChainOf(g, First(d, e)) = ChainOf(f, First(d, e))
             /\ Whole(g, First(d, e))
  BY LiveHasChain, SameChain DEF Apart
<1>. QED  BY <1>1 DEF Apart

(* vfs_open, vfs_mkdir and vfs_write take a cluster that is free. *)
LEMMA TakeKeepsApart ==
  ASSUME NEW f \in Fats, NEW d \in Tables, Apart(f, d), NEW new \in Clusters, f[new] = 0,
         NEW g, g = [f EXCEPT ![new] = EndOfChain]
  PROVE  /\ g \in Fats /\ Apart(g, d)
         /\ \A e \in LiveIn(d): new \notin ChainOf(g, First(d, e))
<1>1. g \in Fats
  BY DEF Fats
<1>2. \A e \in LiveIn(d): new \notin ChainOf(f, First(d, e))
  BY DEF Apart, Whole
<1>3. \A e \in LiveIn(d): \A x \in ChainOf(f, First(d, e)): g[x] = f[x]
  BY <1>2, LiveHasChain, ChainIsLeast DEF Fats
<1>4. /\ Apart(g, d)
      /\ \A e \in LiveIn(d): ChainOf(g, First(d, e)) = ChainOf(f, First(d, e))
  BY <1>1, <1>3, OthersStayApart
<1>. QED  BY <1>1, <1>2, <1>4

(* vfs_write links it behind the end of a chain. *)
LEMMA LinkKeepsApart ==
  ASSUME NEW f \in Fats, NEW d \in Tables, Apart(f, d),
         NEW new \in Clusters \ {0}, f[new] = 0,
         NEW w \in Clusters, w = new \/ f[w] = EndOfChain,
         NEW g \in Fats, Links(f, g, w, new)
  PROVE  Apart(g, d)
<1>1. ASSUME NEW e \in LiveIn(d)
      PROVE  /\ Whole(g, First(d, e)) /\ new \notin ChainOf(f, First(d, e))
             /\ ChainOf(g, First(d, e)) \subseteq ChainOf(f, First(d, e)) \cup {new}
             /\ w \notin ChainOf(f, First(d, e)) =>
                  ChainOf(g, First(d, e)) \subseteq ChainOf(f, First(d, e))
  <2>1. Whole(f, First(d, e)) /\ First(d, e) \in Clusters
    BY LiveHasChain DEF Apart
  <2>2. new \notin ChainOf(f, First(d, e))
    BY <2>1 DEF Whole
  <2>. QED  BY <2>1, <2>2, LinkedChain
<1>2. ASSUME NEW e1 \in LiveIn(d), NEW e2 \in LiveIn(d), e1 # e2
      PROVE  ChainOf(g, First(d, e1)) \cap ChainOf(g, First(d, e2)) = {}
  <2> DEFINE C1 == ChainOf(f, First(d, e1))
             C2 == ChainOf(f, First(d, e2))
  <2>1. C1 \cap C2 = {} /\ new \notin C1 /\ new \notin C2
    BY <1>1, <1>2 DEF Apart
  <2>2. /\ ChainOf(g, First(d, e1)) \subseteq C1 \cup {new}
        /\ w \notin C1 => ChainOf(g, First(d, e1)) \subseteq C1
    BY <1>1
  <2>3. /\ ChainOf(g, First(d, e2)) \subseteq C2 \cup {new}
        /\ w \notin C2 => ChainOf(g, First(d, e2)) \subseteq C2
    BY <1>1
  <2> HIDE DEF C1, C2
  <2>. QED  BY <2>1, <2>2, <2>3
<1>. QED  BY <1>1, <1>2 DEF Apart

(* vfs_unlink and vfs_rmdir free the chain of one entry, which goes. *)
LEMMA FreeKeepsApart ==
  ASSUME NEW f \in Fats, NEW d \in Tables, Apart(f, d), NEW e \in LiveIn(d),
         NEW d2 \in Tables, \A x \in LiveIn(d2): x \in LiveIn(d) \ {e} /\ First(d2, x) = First(d, x)
  PROVE  Freed(f, First(d, e)) \in Fats /\ Apart(Freed(f, First(d, e)), d2)
<1> DEFINE g == Freed(f, First(d, e))
<1>1. Apart(f, d2)
  BY FewerStayApart
<1>2. g \in Fats /\ \A x \in Clusters \ ChainOf(f, First(d, e)): g[x] = f[x]
  BY EndIsNoCluster DEF Fats, Freed
<1>3. ASSUME NEW x \in LiveIn(d2), NEW c \in ChainOf(f, First(d2, x))
      PROVE  g[c] = f[c]
  <2>1. c \notin ChainOf(f, First(d, e))
    BY <1>3 DEF Apart
  <2>2. c \in Clusters
    BY LiveHasChain, ChainIsLeast
  <2> HIDE DEF g
  <2>. QED  BY <1>2, <2>1, <2>2
<1> HIDE DEF g
<1>4. Apart(g, d2)
  BY <1>1, <1>2, <1>3, OthersStayApart
<1>. QED  BY <1>2, <1>4 DEF g

-----------------------------------------------------------------------------
(* The clusters that a write appends.                                       *)
LEMMA FreeIsFree ==
  ASSUME NEW f \in Fats, FreeClusters(f) # {}
  PROVE  /\ Min(FreeClusters(f)) \in Clusters \ {0}
         /\ f[Min(FreeClusters(f))] = 0
<1>1. FreeClusters(f) \in SUBSET Nat /\ FreeClusters(f) \subseteq Clusters \ {0}
  <2>1. NumClusters \in 2..EndOfChain
    BY FatAssumption
  <2>. QED  BY <2>1 DEF FreeClusters, Allocatable, Clusters, EndOfChain
<1>2. Min(FreeClusters(f)) \in FreeClusters(f)
  BY <1>1, LeastIsMember
<1>. QED  BY <1>1, <1>2 DEF FreeClusters

LinkState == {s \in [fat: Fats, last: Clusters, ends: {"ok", "full", "stuck"}]:
                Apart(fat, data) => Apart(s.fat, data)}

LEMMA LinkOneKeeps ==
  ASSUME data \in Tables, NEW s \in LinkState
  PROVE  LinkOne(s) \in LinkState
<1> DEFINE new == Min(FreeClusters(s.fat))
           taken == [s.fat EXCEPT ![new] = EndOfChain]
           w == EndOf(taken, s.last)
           linked == [taken EXCEPT ![w] = new]
<1>1. s.fat \in Fats /\ s.last \in Clusters /\ (Apart(fat, data) => Apart(s.fat, data))
  BY DEF LinkState
<1>2. CASE s.ends # "ok"
  BY <1>2 DEF LinkOne
<1>3. CASE s.ends = "ok" /\ FreeClusters(s.fat) = {}
  BY <1>3 DEF LinkOne, LinkState
<1>4. CASE s.ends = "ok" /\ FreeClusters(s.fat) # {}
  <2>1. new \in Clusters \ {0} /\ s.fat[new] = 0
    BY <1>1, <1>4, FreeIsFree
  <2>2. taken \in Fats /\ (Apart(fat, data) => Apart(taken, data))
    <3> HIDE DEF new
    <3>1. taken \in Fats
      BY <1>1, <2>1 DEF Fats
    <3>2. Apart(s.fat, data) => Apart(taken, data)
      BY <1>1, <2>1, TakeKeepsApart
    <3> HIDE DEF taken
    <3>. QED  BY <1>1, <3>1, <3>2
  <2>5. CASE s.last = 0
    <3>1. LinkOne(s) = [fat |-> taken, last |-> new, ends |-> "ok"]
      BY <1>4, <2>5 DEF LinkOne
    <3> HIDE DEF taken, new
    <3>. QED  BY <2>1, <2>2, <3>1 DEF LinkState
  <2>3. CASE s.last # 0 /\ ~EndsIn(taken, s.last)
    <3>1. LinkOne(s) = [s EXCEPT !.fat = taken, !.ends = "stuck"]
      BY <1>4, <2>3 DEF LinkOne
    <3> HIDE DEF taken
    <3>. QED  BY <1>1, <2>2, <3>1 DEF LinkState
  <2>4. CASE s.last # 0 /\ EndsIn(taken, s.last)
    <3>1. LinkOne(s) = [fat |-> linked, last |-> new, ends |-> "ok"]
      BY <1>4, <2>4 DEF LinkOne
    <3>2. w \in Clusters /\ taken[w] = EndOfChain
      <4> HIDE DEF taken
      <4>. QED  BY <1>1, <2>2, <2>4, ChainIsLeast DEF EndsIn, EndOf
    <3>3. w = new \/ s.fat[w] = EndOfChain
      <4> HIDE DEF new, w
      <4>. QED  BY <1>1, <2>1, <3>2 DEF Fats
    <3>4. linked \in Fats /\ Links(s.fat, linked, w, new)
      <4> HIDE DEF new, w
      <4>. QED  BY <1>1, <2>1, <3>2 DEF Fats, Links
    <3>5. Apart(fat, data) => Apart(linked, data)
      <4> HIDE DEF new, w, linked
      <4>. QED  BY <1>1, <2>1, <3>2, <3>3, <3>4, LinkKeepsApart
    <3> HIDE DEF new, linked
    <3>. QED  BY <2>1, <3>1, <3>4, <3>5 DEF LinkState
  <2>. QED  BY <2>3, <2>4, <2>5
<1>. QED  BY <1>2, <1>3, <1>4

LEMMA NeededIsNat ==
  ASSUME NEW file \in DescType, NEW n \in Nat
  PROVE  Needed(file, n) \in Nat
<1>1. DirEntries \in Nat /\ DirEntries > 0
  BY FatAssumption
<1>2. \A k \in Nat: ClustersFor(k) \in Int
  BY <1>1 DEF ClustersFor
<1>3. file.offset + n \in Nat /\ file.size \in Nat
  BY DEF DescType
<1>. QED  BY <1>2, <1>3 DEF Needed, Greater

LEMMA LinkedKeeps ==
  ASSUME Types, NEW file \in DescType, NEW n \in Nat
  PROVE  Linked(file, n) \in LinkState
<1> DEFINE m == Needed(file, n)
           a == [fat |-> fat, last |-> file.first, ends |-> "ok"]
           step == [ks \in (1..m) \X LinkState |-> LinkOne(ks[2])]
           Round(f) == f = [k \in 0..m |-> IF k = 0 THEN a ELSE LinkOne(f[k - 1])]
           after == CHOOSE f: Round(f)
<1>1. m \in Nat
  BY NeededIsNat
<1> HIDE DEF m
<1>2. a \in LinkState /\ data \in Tables
  BY DEF LinkState, Types, DescType
<1> HIDE DEF a
<1>3. \E f: Round(f)
  <2>1. PICK f: Loops(f, m, a, step)
    BY <1>1, LoopExists
  <2>2. \A k \in 0..m: f[k] = IF k = 0 THEN a ELSE step[<<k, f[k - 1]>>]
    BY <2>1 DEF Loops
  <2>3. \A s \in LinkState: \A k \in 1..m: step[<<k, s>>] = LinkOne(s)
    OBVIOUS
  <2> HIDE DEF step
  <2>4. f[0] = a /\ \A k \in 1..m: f[k] = step[<<k, f[k - 1]>>]
    <3> HIDE DEF step
    <3>1. ASSUME NEW k \in 1..m PROVE f[k] = step[<<k, f[k - 1]>>]
      <4>1. k \in 0..m /\ k # 0
        BY <1>1
      <4>. QED  BY <2>2, <4>1, Zenon
    <3>2. 0 \in 0..m
      BY <1>1
    <3>. QED  BY <2>2, <3>1, <3>2, Zenon
  <2>5. \A k \in 1..m: f[k - 1] \in LinkState => f[k] = LinkOne(f[k - 1])
    BY <2>3, <2>4
  <2>6. \A k \in 1..m: f[k - 1] \in LinkState => f[k] \in LinkState
    BY <1>2, <2>5, LinkOneKeeps
  <2>7. \A k \in 0..m: f[k] \in LinkState
    BY <1>1, <1>2, <2>4, <2>6, LoopStays
  <2>8. ASSUME NEW k \in 0..m PROVE f[k] = IF k = 0 THEN a ELSE LinkOne(f[k - 1])
    <3>1. k # 0 => k \in 1..m /\ k - 1 \in 0..m
      BY <1>1
    <3>. QED  BY <2>4, <2>5, <2>7, <3>1
  <2>9. f = [k \in 0..m |-> f[k]]
    BY <2>1 DEF Loops
  <2>10. [k \in 0..m |-> f[k]] = [k \in 0..m |-> IF k = 0 THEN a ELSE LinkOne(f[k - 1])]
    BY <2>8
  <2>. QED  BY <2>9, <2>10
<1>4. Round(after)
  BY <1>3
<1>5. Linked(file, n) = after[m]
  BY DEF Linked, m, a
<1>6. \A k \in 0..m: after[k] = IF k = 0 THEN a ELSE LinkOne(after[k - 1])
  BY <1>4
<1> HIDE DEF after
<1>7. \A k \in 0..m: after[k] \in LinkState
  <2>1. \A k \in 1..m: after[k - 1] \in LinkState => after[k] \in LinkState
    BY <1>1, <1>2, <1>6, LinkOneKeeps
  <2>. QED  BY <1>1, <1>2, <1>6, <2>1, LoopStays
<1>. QED  BY <1>1, <1>5, <1>7

-----------------------------------------------------------------------------
LEMMA FirstLinkedIsCluster ==
  ASSUME Types, NEW file \in DescType, NEW n
  PROVE  FirstLinked(file, n) \in Clusters
<1>1. CASE file.first = 0 /\ Needed(file, n) > 0 /\ FreeClusters(fat) # {}
  BY <1>1, FreeIsFree DEF FirstLinked, Types
<1>2. CASE ~(file.first = 0 /\ Needed(file, n) > 0 /\ FreeClusters(fat) # {})
  <2>1. file.first \in Clusters
    BY DEF DescType
  <2>. QED  BY <1>2, <2>1 DEF FirstLinked
<1>. QED  BY <1>1, <1>2

(* Tables and their slots.  The root is two clusters long.                  *)
LEMMA DirEntriesIsNat == DirEntries \in Nat /\ DirEntries > 0
  BY FatAssumption

LEMMA SlotIsNat ==
  ASSUME NEW c \in Clusters
  PROVE  Slots(c) \subseteq Nat
BY DirEntriesIsNat DEF Slots

LEMMA Division ==
  ASSUME NEW n \in Nat, n > 0, NEW i \in 0..2 * n - 1
  PROVE  /\ i \div n \in {0, 1} /\ i % n \in 0..n - 1
         /\ i < n => i \div n = 0
<1>1. CASE i < n
  BY <1>1
<1>2. CASE ~(i < n)
  <2>1. i - n \in 0..n - 1
    BY <1>2
  <2>2. i \div n = 1
    BY <2>1
  <2>. QED  BY <1>2, <2>2
<1>. QED  BY <1>1, <1>2

LEMMA SlotIsInTable ==
  ASSUME NEW c \in Clusters, NEW i \in Slots(c)
  PROVE  /\ c + i \div DirEntries \in Clusters
         /\ i % DirEntries \in 0..DirEntries - 1
<1> USE DirEntriesIsNat
<1>1. c \in Int
  <2>1. NumClusters \in 2..EndOfChain
    BY FatAssumption
  <2>. QED  BY <2>1 DEF Clusters, EndOfChain
<1>2. CASE c = 0
  <2>1. i \in 0..2 * DirEntries - 1
    BY <1>2 DEF Slots
  <2>2. i \div DirEntries \in {0, 1} /\ i % DirEntries \in 0..DirEntries - 1
    BY <2>1, Division
  <2>. QED  BY <1>2, <2>2, EndIsNoCluster
<1>3. CASE c # 0
  <2>1. i \in 0..DirEntries - 1
    BY <1>3 DEF Slots
  <2>2. i \div DirEntries = 0 /\ i % DirEntries \in 0..DirEntries - 1
    BY <2>1, Division
  <2>. QED  BY <1>1, <2>2
<1>. QED  BY <1>2, <1>3

Place(c, i) == <<c + i \div DirEntries, i % DirEntries>>

LEMMA PutChangesOne ==
  ASSUME NEW d \in Tables, NEW c \in Clusters, NEW i \in Slots(c), NEW s \in EntryType
  PROVE  /\ Put(d, c, i, s) \in Tables
         /\ Place(c, i) \in Clusters \X (0..DirEntries - 1)
         /\ \A e \in Clusters \X (0..DirEntries - 1):
              Put(d, c, i, s)[e[1]][e[2]] = IF e = Place(c, i) THEN s ELSE d[e[1]][e[2]]
<1> DEFINE a == c + i \div DirEntries
           b == i % DirEntries
<1>1. a \in Clusters /\ b \in 0..DirEntries - 1
  BY SlotIsInTable
<1>2. Put(d, c, i, s) = [d EXCEPT ![a][b] = s] /\ Place(c, i) = <<a, b>>
  BY DEF Put, Place
<1> HIDE DEF a, b
<1>3. [d EXCEPT ![a][b] = s] \in Tables
  BY <1>1 DEF Tables
<1>4. ASSUME NEW x \in Clusters, NEW y \in 0..DirEntries - 1
      PROVE  [d EXCEPT ![a][b] = s][x][y] = IF <<x, y>> = <<a, b>> THEN s ELSE d[x][y]
  BY <1>1 DEF Tables
<1>. QED  BY <1>1, <1>2, <1>3, <1>4

LEMMA AtIsEntry ==
  ASSUME NEW d \in Tables, NEW c \in Clusters, NEW i \in Slots(c)
  PROVE  /\ At(d, c, i) \in EntryType
         /\ At(d, c, i) = d[Place(c, i)[1]][Place(c, i)[2]]
BY SlotIsInTable DEF At, Place, Tables

(* findEntry comes to a table, or to none. *)
LEMMA EnterIsTable ==
  ASSUME NEW d \in Tables, NEW c \in Clusters \cup {NoTable}, NEW n
  PROVE  Enter(d, c, n) \in Clusters \cup {NoTable}
<1> DEFINE hits == {i \in Named(d, c, n): At(d, c, i).dir}
<1>1. CASE c = NoTable \/ hits = {}
  BY <1>1 DEF Enter
<1>2. CASE c # NoTable /\ hits # {}
  <2>1. c \in Clusters
    BY <1>2
  <2>2. hits \subseteq Slots(c) /\ hits \in SUBSET Nat
    BY <2>1, SlotIsNat DEF Named
  <2>3. Min(hits) \in Slots(c)
    <3> HIDE DEF hits
    <3>. QED  BY <1>2, <2>2, LeastIsMember
  <2>4. At(d, c, Min(hits)).first \in Clusters
    <3> HIDE DEF hits
    <3>. QED  BY <2>1, <2>3, AtIsEntry DEF EntryType
  <2>. QED  BY <1>2, <2>4 DEF Enter
<1>. QED  BY <1>1, <1>2

LEMMA TableIsTable ==
  ASSUME NEW d \in Tables, NEW comps, Len(comps) \in Nat
  PROVE  Table(d, comps) \in Clusters \cup {NoTable}
<1> DEFINE m == Len(comps)
           T == Clusters \cup {NoTable}
           step == [ks \in (1..m) \X T |-> Enter(d, ks[2], comps[ks[1]])]
           Round(f) == f = [k \in 0..m |-> IF k = 0 THEN 0 ELSE Enter(d, f[k - 1], comps[k])]
           at == CHOOSE f: Round(f)
<1>1. m \in Nat /\ 0 \in T
  BY EndIsNoCluster
<1> HIDE DEF m
<1>2. \A c \in T: \A n: Enter(d, c, n) \in T
  BY EnterIsTable
<1>3. \E f: Round(f)
  <2>1. PICK f: Loops(f, m, 0, step)
    BY <1>1, LoopExists
  <2>2. \A k \in 0..m: f[k] = IF k = 0 THEN 0 ELSE step[<<k, f[k - 1]>>]
    BY <2>1 DEF Loops
  <2>3. \A c \in T: \A k \in 1..m: step[<<k, c>>] = Enter(d, c, comps[k])
    OBVIOUS
  <2> HIDE DEF step, T
  <2>4. f[0] = 0 /\ \A k \in 1..m: f[k] = step[<<k, f[k - 1]>>]
    <3>1. 0 \in 0..m /\ \A k \in 1..m: k \in 0..m /\ k # 0
      BY <1>1
    <3>. QED  BY <2>2, <3>1, Zenon
  <2>5. \A k \in 1..m: f[k - 1] \in T => f[k] = Enter(d, f[k - 1], comps[k])
    BY <2>3, <2>4
  <2>6. \A k \in 1..m: f[k - 1] \in T => f[k] \in T
    BY <1>2, <2>5
  <2>7. \A k \in 0..m: f[k] \in T
    BY <1>1, <2>4, <2>6, LoopStays
  <2>8. ASSUME NEW k \in 0..m PROVE f[k] = IF k = 0 THEN 0 ELSE Enter(d, f[k - 1], comps[k])
    <3>1. k # 0 => k \in 1..m /\ k - 1 \in 0..m
      BY <1>1
    <3>. QED  BY <2>4, <2>5, <2>7, <3>1
  <2>9. f = [k \in 0..m |-> f[k]]
    BY <2>1 DEF Loops
  <2>10. [k \in 0..m |-> f[k]] = [k \in 0..m |-> IF k = 0 THEN 0 ELSE Enter(d, f[k - 1], comps[k])]
    BY <2>8
  <2>. QED  BY <2>9, <2>10
<1>4. Round(at)
  BY <1>3
<1>5. Table(d, comps) = at[m]
  BY DEF Table, m
<1>6. \A k \in 0..m: at[k] = IF k = 0 THEN 0 ELSE Enter(d, at[k - 1], comps[k])
  BY <1>4
<1> HIDE DEF at, T
<1>7. \A k \in 0..m: at[k] \in T
  <2>1. at[0] = 0 /\ \A k \in 1..m: at[k] = Enter(d, at[k - 1], comps[k])
    <3>1. 0 \in 0..m /\ \A k \in 1..m: k \in 0..m /\ k # 0
      BY <1>1
    <3>. QED  BY <1>6, <3>1, Zenon
  <2>2. \A k \in 1..m: at[k - 1] \in T => at[k] \in T
    BY <1>2, <2>1
  <2>. QED  BY <1>1, <2>1, <2>2, LoopStays
<1>. QED  BY <1>1, <1>5, <1>7 DEF T

(* The components of a path. *)
LEMMA BeginningOfSeq ==
  ASSUME NEW T, NEW s \in Seq(T), NEW m \in Int, m <= Len(s)
  PROVE  SubSeq(s, 1, m) \in Seq(T) /\ Len(SubSeq(s, 1, m)) \in Nat
<1>1. \A i \in 1..m: s[i] \in T
  BY ElementOfSeq
<1>. QED  BY <1>1, SubSeqProperties

LEMMA OneToItself == \A k \in Nat \ {0}: k \in 1..k
  OBVIOUS

LEMMA LastNameIsName ==
  ASSUME NEW s \in Seq(Names \cup {""})
  PROVE  LastName(s) \in Names \cup {""}
<1>1. CASE s = <<>>
  BY <1>1 DEF LastName
<1>2. CASE s # <<>>
  <2>1. Len(s) \in 1..Len(s)
    <3>1. \A T: \A t \in Seq(T): t # <<>> => Len(t) \in Nat \ {0}
      BY EmptySeq
    <3>2. Len(s) \in Nat \ {0}
      BY <1>2, <3>1
    <3>. QED  BY <3>2, OneToItself, Zenon
  <2>2. LastName(s) = s[Len(s)]
    BY <1>2 DEF LastName, Last
  <2>. QED  BY <2>1, <2>2, ElementOfSeq
<1>. QED  BY <1>1, <1>2

LEMMA KeptIsPath ==
  ASSUME NEW path \in Paths \cup {<<>>}
  PROVE  /\ Kept(path) \in Seq(Names \cup {""}) /\ Len(Kept(path)) \in Nat
         /\ LastName(Kept(path)) \in Names \cup {""}
         /\ LastName(path) \in Names \cup {""}
<1>1. path \in Seq(Names \cup {""})
  <2>1. \A x \in Paths: x \in Seq(Names \cup {""})
    BY FatAssumption
  <2>2. <<>> \in Seq(Names \cup {""})
    BY EmptySeq
  <2>. QED  BY <2>1, <2>2
<1>2. MaxDepth \in Nat /\ Len(path) \in Nat
  BY <1>1, FatAssumption, LenProperties
<1>3. Kept(path) \in Seq(Names \cup {""}) /\ Len(Kept(path)) \in Nat
  <2> DEFINE m == IF Len(path) < MaxDepth THEN Len(path) ELSE MaxDepth
  <2>1. m \in Int /\ m <= Len(path)
    BY <1>2
  <2>2. Kept(path) = SubSeq(path, 1, m)
    BY DEF Kept
  <2> HIDE DEF m
  <2>. QED  BY <1>1, <2>1, <2>2, BeginningOfSeq
<1>. QED  BY <1>1, <1>3, LastNameIsName

LEMMA ParentIsTable ==
  ASSUME data \in Tables, NEW path \in Paths
  PROVE  ParentTable(path) \in Clusters \cup {NoTable}
<1>1. Kept(path) \in Seq(Names \cup {""})
  BY KeptIsPath
<1>2. CASE Kept(path) = <<>>
  <2>1. Len(<<>>) \in Nat
    OBVIOUS
  <2>. QED  BY <1>2, <2>1, TableIsTable DEF ParentTable
<1>3. CASE Kept(path) # <<>>
  <2>1. Len(Front(Kept(path))) \in Nat
    <3>1. Len(Kept(path)) \in Nat
      BY KeptIsPath
    <3>2. Len(Kept(path)) - 1 \in Int /\ Len(Kept(path)) - 1 <= Len(Kept(path))
      BY <3>1
    <3>. QED  BY <1>1, <3>2, BeginningOfSeq DEF Front
  <2>. QED  BY <1>3, <2>1, TableIsTable DEF ParentTable
<1>. QED  BY <1>2, <1>3

(* What it finds is an entry in use: made, or what a write has left.        *)
LEMMA FoundIsLive ==
  ASSUME NEW d \in Tables, NEW path \in Paths \cup {<<>>},
         NEW e, e = Found(d, path), e # None
  PROVE  /\ e.cluster \in Clusters /\ e.index \in Slots(e.cluster)
         /\ EntryOf(d, e) \in EntryType
         /\ EntryOf(d, e).name \in Names
         /\ Place(e.cluster, e.index) \in Clusters \X (0..DirEntries - 1)
         /\ EntryOf(d, e) = d[Place(e.cluster, e.index)[1]][Place(e.cluster, e.index)[2]]
<1> DEFINE n == LastName(Kept(path))
           c == Table(d, Kept(path))
           hits == Named(d, c, n)
<1>1. c \in Clusters \cup {NoTable}
  <2>1. Len(Kept(path)) \in Nat
    BY KeptIsPath
  <2>. QED  BY <2>1, TableIsTable
<1>2. c # NoTable /\ hits # {} /\ e = [cluster |-> c, index |-> Min(hits)]
  BY DEF Found
<1>3. n \in Names \cup {""}
  BY KeptIsPath
<1> HIDE DEF c, n
<1>4. c \in Clusters /\ hits \subseteq Slots(c) /\ hits \in SUBSET Nat
  BY <1>1, <1>2, SlotIsNat DEF Named
<1>5. Min(hits) \in hits
  <2> HIDE DEF hits
  <2>. QED  BY <1>2, <1>4, LeastIsMember
<1>6. e.cluster = c /\ e.index \in Slots(c) /\ At(d, c, e.index).name = n /\ ~Free(At(d, c, e.index))
  BY <1>2, <1>5 DEF Named
<1>7. n \in Names
  BY <1>3, <1>6 DEF Free
<1>8. /\ EntryOf(d, e) \in EntryType
      /\ EntryOf(d, e) = d[Place(c, e.index)[1]][Place(c, e.index)[2]]
  BY <1>4, <1>6, AtIsEntry DEF EntryOf
<1>9. Place(c, e.index) \in Clusters \X (0..DirEntries - 1)
  BY <1>4, <1>6, SlotIsInTable DEF Place
<1>10. EntryOf(d, e).name \in Names
  BY <1>6, <1>7 DEF EntryOf
<1>. QED  BY <1>4, <1>6, <1>8, <1>9, <1>10

-----------------------------------------------------------------------------
(* vfs_open and vfs_mkdir: a new entry, with a cluster of its own.          *)
LEMMA NewStaysApart ==
  ASSUME NEW f \in Fats, NEW d \in Tables, Apart(f, d), NEW new \in Clusters \ {0}, f[new] = 0,
         NEW d2 \in Tables, NEW p,
         \A e \in LiveIn(d2):
           \/ e \in LiveIn(d) /\ First(d2, e) = First(d, e)
           \/ e = p /\ First(d2, e) = new
  PROVE  [f EXCEPT ![new] = EndOfChain] \in Fats /\ Apart([f EXCEPT ![new] = EndOfChain], d2)
<1> DEFINE g == [f EXCEPT ![new] = EndOfChain]
<1>1. /\ g \in Fats /\ Apart(g, d)
      /\ \A e \in LiveIn(d): new \notin ChainOf(g, First(d, e))
  <2>1. f \in Fats /\ new \in Clusters
    OBVIOUS
  <2>. QED  BY <2>1, TakeKeepsApart
<1>2. g[new] = EndOfChain
  BY DEF Fats
<1> HIDE DEF g
<1>3. ChainOf(g, new) = {new} /\ Whole(g, new)
  BY <1>1, <1>2, NewChain
<1>4. ASSUME NEW e \in LiveIn(d2) PROVE Whole(g, First(d2, e))
  BY <1>1, <1>3 DEF Apart
<1>5. ASSUME NEW e1 \in LiveIn(d2), NEW e2 \in LiveIn(d2), e1 # e2
      PROVE  ChainOf(g, First(d2, e1)) \cap ChainOf(g, First(d2, e2)) = {}
  <2>1. CASE e1 \in LiveIn(d) /\ First(d2, e1) = First(d, e1)
    <3>1. CASE e2 \in LiveIn(d) /\ First(d2, e2) = First(d, e2)
      BY <1>1, <1>5, <2>1, <3>1 DEF Apart
    <3>2. CASE First(d2, e2) = new
      BY <1>1, <1>3, <2>1, <3>2
    <3>. QED  BY <3>1, <3>2
  <2>2. CASE e1 = p /\ First(d2, e1) = new
    <3>1. e2 \in LiveIn(d) /\ First(d2, e2) = First(d, e2)
      BY <1>5, <2>2
    <3>. QED  BY <1>1, <1>3, <2>2, <3>1
  <2>. QED  BY <2>1, <2>2
<1>6. Apart(g, d2)
  BY <1>4, <1>5 DEF Apart
<1>. QED  BY <1>1, <1>6 DEF g

LEMMA ReservedNames ==
  "" \notin Names /\ Text \notin Names /\ "." \notin Names /\ ".." \notin Names
BY FatAssumption DEF Zeros

LEMMA ReservedEntry ==
  ASSUME NEW n \in {Zeros, Text, ".", ".."}, NEW b \in BOOLEAN, NEW c \in Clusters
  PROVE  DirEntry(n, b, c, 0) \in EntryType /\ DirEntry(n, b, c, 0).name \notin Names
<1>1. n \notin Names
  BY ReservedNames DEF Zeros
<1>. QED  BY <1>1 DEF DirEntry, EntryType

LEMMA ZeroIsEntry == Zero \in EntryType /\ Zero.name \notin Names
<1>1. Zeros \notin Names
  BY ReservedNames DEF Zeros
<1>. QED  BY <1>1, EndIsNoCluster DEF Zero, EntryType

LEMMA NewDirectoryIsTable ==
  ASSUME NEW first \in Clusters, NEW parent \in Clusters
  PROVE  /\ NewDirectory(first, parent) \in [0..DirEntries - 1 -> EntryType]
         /\ \A i \in 0..DirEntries - 1: NewDirectory(first, parent)[i].name \notin Names
<1>1. ASSUME NEW i \in 0..DirEntries - 1
      PROVE  /\ NewDirectory(first, parent)[i] \in EntryType
             /\ NewDirectory(first, parent)[i].name \notin Names
  <2>1. CASE i = 0
    <3>1. NewDirectory(first, parent)[i] = DirEntry(".", TRUE, first, 0)
      BY <2>1 DEF NewDirectory
    <3>. QED  BY <3>1, ReservedEntry
  <2>2. CASE i = 1
    <3>1. NewDirectory(first, parent)[i] = DirEntry("..", TRUE, parent, 0)
      BY <2>2 DEF NewDirectory
    <3>. QED  BY <3>1, ReservedEntry
  <2>3. CASE i # 0 /\ i # 1
    <3>1. NewDirectory(first, parent)[i] = Zero
      BY <2>3 DEF NewDirectory
    <3>. QED  BY <3>1, ZeroIsEntry
  <2>. QED  BY <2>1, <2>2, <2>3
<1>2. NewDirectory(first, parent) = [i \in 0..DirEntries - 1 |-> NewDirectory(first, parent)[i]]
  BY DEF NewDirectory
<1>. QED  BY <1>1, <1>2

LEMMA AddKeeps ==
  ASSUME Types, NEW path \in Paths, NEW isDir \in BOOLEAN,
         CanAdd(path), Add(path, isDir)
  PROVE  /\ fat' \in Fats /\ data' \in Tables
         /\ Apart(fat, data) => Apart(fat', data')
         /\ Min(FreeClusters(fat)) \in Clusters
<1> DEFINE parent == ParentTable(path)
           first == Min(FreeClusters(fat))
           slot == Min(FreeSlots(parent))
           s == IF LastName(path) = "" THEN Zero ELSE DirEntry(LastName(path), isDir, first, 0)
           put == Put(data, parent, slot, s)
           p == Place(parent, slot)
<1>1. fat \in Fats /\ data \in Tables
  BY DEF Types
<1>2. parent \in Clusters
  BY <1>1, ParentIsTable DEF CanAdd
<1>3. first \in Clusters \ {0} /\ fat[first] = 0
  BY <1>1, FreeIsFree DEF CanAdd
<1>4. slot \in Slots(parent)
  <2>1. FreeSlots(parent) \subseteq Slots(parent) /\ FreeSlots(parent) \in SUBSET Nat
    BY <1>2, SlotIsNat DEF FreeSlots
  <2>2. FreeSlots(parent) # {}
    BY DEF CanAdd
  <2> HIDE DEF parent
  <2>. QED  BY <2>1, <2>2, LeastIsMember
<1>5. s \in EntryType /\ (s.name \in Names => s.first = first)
  <2>1. LastName(path) \in Names \cup {""}
    BY KeptIsPath
  <2> HIDE DEF first
  <2>2. CASE LastName(path) = ""
    BY <2>2, ZeroIsEntry
  <2>3. CASE LastName(path) # ""
    BY <1>3, <2>1, <2>3 DEF DirEntry, EntryType
  <2>. QED  BY <2>2, <2>3
<1>6. /\ fat' = [fat EXCEPT ![first] = EndOfChain]
      /\ data' = IF isDir THEN [put EXCEPT ![first] = NewDirectory(first, parent)] ELSE put
  BY DEF Add
<1> HIDE DEF parent, first, slot, s
<1>7. /\ put \in Tables /\ p \in Clusters \X (0..DirEntries - 1)
      /\ \A e \in Clusters \X (0..DirEntries - 1):
           put[e[1]][e[2]] = IF e = p THEN s ELSE data[e[1]][e[2]]
  BY <1>1, <1>2, <1>4, <1>5, PutChangesOne
<1> HIDE DEF put, p
<1>8. ASSUME NEW e \in LiveIn(put)
      PROVE  \/ e \in LiveIn(data) /\ First(put, e) = First(data, e)
             \/ e = p /\ First(put, e) = first
  BY <1>5, <1>7 DEF LiveIn, First
<1>9. data' \in Tables /\ \A e \in LiveIn(data'): e \in LiveIn(put) /\ First(data', e) = First(put, e)
  <2>1. CASE ~isDir
    BY <1>6, <1>7, <2>1
  <2>2. CASE isDir
    <3>1. data' = [put EXCEPT ![first] = NewDirectory(first, parent)]
      BY <1>6, <2>2
    <3>2. /\ NewDirectory(first, parent) \in [0..DirEntries - 1 -> EntryType]
          /\ \A i \in 0..DirEntries - 1: NewDirectory(first, parent)[i].name \notin Names
      BY <1>2, <1>3, NewDirectoryIsTable
    <3>3. data' \in Tables
      BY <1>3, <1>7, <3>1, <3>2 DEF Tables
    <3>4. ASSUME NEW e \in LiveIn(data') PROVE e \in LiveIn(put) /\ First(data', e) = First(put, e)
      <4>1. e[1] # first
        BY <1>3, <1>7, <3>1, <3>2 DEF LiveIn, Tables
      <4>. QED  BY <1>7, <3>1, <4>1 DEF LiveIn, First, Tables
    <3>. QED  BY <3>3, <3>4
  <2>. QED  BY <2>1, <2>2
<1>10. \A e \in LiveIn(data'):
         \/ e \in LiveIn(data) /\ First(data', e) = First(data, e)
         \/ e = p /\ First(data', e) = first
  BY <1>8, <1>9
<1>11. /\ [fat EXCEPT ![first] = EndOfChain] \in Fats
       /\ Apart(fat, data) => Apart([fat EXCEPT ![first] = EndOfChain], data')
  <2>1. [fat EXCEPT ![first] = EndOfChain] \in Fats
    BY <1>1, <1>3 DEF Fats
  <2>2. ASSUME Apart(fat, data) PROVE Apart([fat EXCEPT ![first] = EndOfChain], data')
    BY <1>1, <1>3, <1>9, <1>10, <2>2, NewStaysApart
  <2>. QED  BY <2>1, <2>2
<1>. QED  BY <1>3, <1>6, <1>9, <1>11 DEF first

-----------------------------------------------------------------------------
(* The entries, where a write has left them.                                *)
LEMMA FilledKeeps ==
  ASSUME data \in Tables, NEW f, NEW first, NEW offset, NEW n, NEW v \in Payloads
  PROVE  /\ Filled(f, first, offset, n, v) \in Tables
         /\ \A e \in LiveIn(Filled(f, first, offset, n, v)):
              e \in LiveIn(data) /\ First(Filled(f, first, offset, n, v), e) = First(data, e)
<1> DEFINE hit == {o \in offset..offset + n - 1: Nth(f, first, o \div DirEntries) # EndOfChain}
           cells == {<<Nth(f, first, o \div DirEntries), o % DirEntries>>: o \in hit}
           d == [c \in Clusters |-> [i \in 0..DirEntries - 1 |->
                   IF <<c, i>> \in cells THEN v ELSE data[c][i]]]
<1>1. Filled(f, first, offset, n, v) = d
  BY DEF Filled
<1>2. v \in EntryType /\ ~v.made
  <2>1. v \in [name: Names \cup {Zeros, Text}, dir: BOOLEAN, first: Clusters, size: Nat,
              made: {FALSE}]
    BY FatAssumption
  <2>. QED  BY <2>1 DEF EntryType
<1> HIDE DEF cells
<1>3. d \in Tables
  BY <1>2 DEF Tables
<1>4. ASSUME NEW e \in LiveIn(d)
      PROVE  e \in LiveIn(data) /\ First(d, e) = First(data, e)
  <2>1. e[1] \in Clusters /\ e[2] \in 0..DirEntries - 1
    BY DEF LiveIn
  <2>2. d[e[1]][e[2]] = v \/ d[e[1]][e[2]] = data[e[1]][e[2]]
    BY <2>1
  <2> HIDE DEF d
  <2>. QED  BY <1>2, <2>2 DEF LiveIn, First
<1>. QED  BY <1>1, <1>3, <1>4

LEMMA ResizedKeeps ==
  ASSUME NEW d \in Tables, NEW path \in Paths \cup {<<>>}, NEW size \in Nat
  PROVE  /\ Resized(d, path, size) \in Tables
         /\ \A x \in LiveIn(Resized(d, path, size)):
              x \in LiveIn(d) /\ First(Resized(d, path, size), x) = First(d, x)
<1> DEFINE e == Found(d, path)
           s == [EntryOf(d, e) EXCEPT !.size = size]
           d2 == Put(d, e.cluster, e.index, s)
<1>1. CASE e = None
  BY <1>1 DEF Resized
<1>2. CASE e # None
  <2>1. /\ e.cluster \in Clusters /\ e.index \in Slots(e.cluster)
        /\ EntryOf(d, e) \in EntryType /\ EntryOf(d, e).name \in Names
        /\ EntryOf(d, e) = d[Place(e.cluster, e.index)[1]][Place(e.cluster, e.index)[2]]
    BY <1>2, FoundIsLive
  <2>2. Resized(d, path, size) = d2
    BY <1>2 DEF Resized
  <2> HIDE DEF e
  <2>3. s \in EntryType /\ s.first = EntryOf(d, e).first /\ s.made = EntryOf(d, e).made
    BY <2>1 DEF EntryType
  <2> HIDE DEF s
  <2>4. /\ d2 \in Tables
        /\ \A x \in Clusters \X (0..DirEntries - 1):
             d2[x[1]][x[2]] = IF x = Place(e.cluster, e.index) THEN s ELSE d[x[1]][x[2]]
    BY <2>1, <2>3, PutChangesOne
  <2> HIDE DEF d2
  <2>5. ASSUME NEW x \in LiveIn(d2)
        PROVE  x \in LiveIn(d) /\ First(d2, x) = First(d, x)
    <3>1. CASE x = Place(e.cluster, e.index)
      BY <2>1, <2>3, <2>4, <3>1 DEF First, LiveIn
    <3>2. CASE x # Place(e.cluster, e.index)
      BY <2>4, <3>2 DEF First, LiveIn
    <3>. QED  BY <3>1, <3>2
  <2>. QED  BY <2>2, <2>4, <2>5
<1>. QED  BY <1>1, <1>2

LEMMA ReachedIsNat ==
  ASSUME NEW f, NEW first, NEW offset \in Nat, NEW n \in Nat
  PROVE  Reached(f, first, offset, n) \in Nat
<1> DEFINE hit == {o \in offset..offset + n - 1: Nth(f, first, o \div DirEntries) # EndOfChain}
<1>1. IsFiniteSet(offset..offset + n - 1)
  <2>1. offset \in Int /\ offset + n - 1 \in Int
    OBVIOUS
  <2>. QED  BY <2>1, FS_Interval
<1>2. IsFiniteSet(hit)
  <2>1. hit \subseteq offset..offset + n - 1
    OBVIOUS
  <2> HIDE DEF hit
  <2>. QED  BY <1>1, <2>1, FS_Subset
<1>3. Cardinality(hit) \in Nat
  BY <1>2, FS_CardinalityType
<1>. QED  BY <1>3 DEF Reached

-----------------------------------------------------------------------------
(* The operations.                                                          *)
LEMMA DescriptorKeeps ==
  ASSUME Types, NEW path \in Paths, NEW first \in Clusters, NEW size \in Nat
  PROVE  Descriptor(path, first, size) \in [0..MaxOpenFiles - 1 -> DescType]
<1> DEFINE new == [used |-> TRUE, path |-> path, first |-> first, size |-> size, offset |-> 0]
<1>1. new \in DescType
  BY DEF DescType
<1> HIDE DEF new
<1>2. [openFiles EXCEPT ![Min(FreeFds)] = new] \in [0..MaxOpenFiles - 1 -> DescType]
  BY <1>1 DEF Types
<1>. QED  BY <1>2 DEF Descriptor, Types, new

LEMMA OpenNewKeeps ==
  ASSUME XInv, NEW path \in Paths, OpenNew(path)
  PROVE  XInv'
<1>1. Types /\ (~misled => Apart(fat, data))
  BY DEF XInv
<1>2. /\ fat' \in Fats /\ data' \in Tables /\ (Apart(fat, data) => Apart(fat', data'))
      /\ Min(FreeClusters(fat)) \in Clusters
  BY <1>1, AddKeeps DEF OpenNew
<1>3. openFiles' \in [0..MaxOpenFiles - 1 -> DescType]
  BY <1>1, <1>2, DescriptorKeeps DEF OpenNew
<1>4. /\ openDirs' \in [0..MaxOpenDirs - 1 -> HandleType] /\ stuck' \in BOOLEAN
      /\ misled' = misled /\ misled' \in BOOLEAN
  BY <1>1 DEF OpenNew, Types
<1>. QED  BY <1>1, <1>2, <1>3, <1>4 DEF XInv, Types

LEMMA OpenFoundKeeps ==
  ASSUME XInv, NEW path \in Paths, OpenFound(path)
  PROVE  XInv'
<1> DEFINE e == Found(data, path)
<1>1. Types /\ (~misled => Apart(fat, data))
  BY DEF XInv
<1>2. EntryOf(data, e).first \in Clusters /\ EntryOf(data, e).size \in Nat
  <2>1. EntryOf(data, e) \in EntryType
    BY <1>1, FoundIsLive DEF OpenFound, Types
  <2>. QED  BY <2>1 DEF EntryType
<1>3. openFiles' \in [0..MaxOpenFiles - 1 -> DescType]
  BY <1>1, <1>2, DescriptorKeeps DEF OpenFound
<1>. QED  BY <1>1, <1>3 DEF XInv, Types, OpenFound

LEMMA MkdirKeeps ==
  ASSUME XInv, NEW path \in Paths, fat_mkdir(path)
  PROVE  XInv'
<1>1. Types /\ (~misled => Apart(fat, data))
  BY DEF XInv
<1>2. fat' \in Fats /\ data' \in Tables /\ (Apart(fat, data) => Apart(fat', data'))
  BY <1>1, AddKeeps DEF fat_mkdir
<1>. QED  BY <1>1, <1>2 DEF XInv, Types, fat_mkdir

LEMMA CloseKeeps ==
  ASSUME XInv, NEW fd \in DOMAIN openFiles, vfs_close(fd)
  PROVE  XInv'
<1>1. FileDesc \in DescType
  BY EndIsNoCluster DEF FileDesc, DescType
<1>. QED  BY <1>1 DEF XInv, Types, vfs_close

LEMMA ReadKeeps ==
  ASSUME XInv, NEW fd \in DOMAIN openFiles, NEW n \in Counts, vfs_read(fd, n)
  PROVE  XInv'
<1> DEFINE file == openFiles[fd]
           m == Greater(Least(n, file.size - file.offset), 0)
           done == Reached(fat, file.first, file.offset, m)
<1>1. file \in DescType /\ n \in Nat
  BY FatAssumption DEF XInv, Types
<1>2. file.offset \in Nat /\ file.size \in Nat
  BY <1>1 DEF DescType
<1>3. m \in Nat
  BY <1>1, <1>2 DEF Greater, Least
<1>4. done \in Nat
  BY <1>2, <1>3, ReachedIsNat
<1>5. openFiles' = [openFiles EXCEPT ![fd].offset = file.offset + done]
  BY DEF vfs_read
<1> HIDE DEF m, done
<1>6. openFiles' \in [0..MaxOpenFiles - 1 -> DescType]
  <2>1. file.offset + done \in Nat
    BY <1>2, <1>4
  <2>. QED  BY <1>5, <2>1 DEF XInv, Types, DescType
<1>. QED  BY <1>6 DEF XInv, Types, vfs_read

LEMMA WriteStopsKeeps ==
  ASSUME XInv, NEW fd \in DOMAIN openFiles, NEW n \in Counts, WriteStops(fd, n)
  PROVE  XInv'
<1> DEFINE linked == Linked(openFiles[fd], n)
           first == FirstLinked(openFiles[fd], n)
<1>1. openFiles[fd] \in DescType /\ n \in Nat
  BY FatAssumption DEF XInv, Types
<1>2. linked \in LinkState
  BY <1>1, LinkedKeeps DEF XInv
<1>3. /\ fat' = linked.fat /\ stuck' = (linked.ends = "stuck")
      /\ openFiles' = [openFiles EXCEPT ![fd].first = first]
      /\ UNCHANGED <<data, openDirs, misled>>
  BY DEF WriteStops
<1>4. first \in Clusters
  BY <1>1, FirstLinkedIsCluster DEF XInv
<1> HIDE DEF linked, first
<1>5. linked.fat \in Fats /\ (Apart(fat, data) => Apart(linked.fat, data))
  BY <1>2 DEF LinkState
<1>6. stuck' \in BOOLEAN
  BY <1>3
<1>7. openFiles' \in [0..MaxOpenFiles - 1 -> DescType]
  BY <1>3, <1>4 DEF XInv, Types, DescType
<1>. QED  BY <1>3, <1>5, <1>6, <1>7 DEF XInv, Types

LEMMA WriteCopiesKeeps ==
  ASSUME XInv, NEW fd \in DOMAIN openFiles, NEW n \in Counts, NEW v \in Payloads,
         WriteCopies(fd, n, v)
  PROVE  XInv'
<1> DEFINE file == openFiles[fd]
           linked == Linked(file, n)
           first == FirstLinked(file, n)
           done == Reached(linked.fat, first, file.offset, n)
           size == Greater(file.size, file.offset + done)
           filled == Filled(linked.fat, first, file.offset, n, v)
<1>1. file \in DescType /\ n \in Nat /\ data \in Tables
  BY FatAssumption DEF XInv, Types
<1>2. linked \in LinkState
  BY <1>1, LinkedKeeps DEF XInv
<1>3. /\ file.offset \in Nat /\ file.size \in Nat /\ file.path \in Paths \cup {<<>>}
      /\ first \in Clusters
  BY <1>1, FirstLinkedIsCluster DEF DescType, XInv
<1>4. done \in Nat
  BY <1>1, <1>3, ReachedIsNat
<1>5. /\ fat' = linked.fat
      /\ data' = IF size > file.size THEN Resized(filled, file.path, size) ELSE filled
      /\ openFiles' = [openFiles EXCEPT ![fd].first = first, ![fd].size = size,
                                        ![fd].offset = file.offset + done]
      /\ UNCHANGED <<openDirs, stuck, misled>>
  BY DEF WriteCopies
<1>6. filled \in Tables /\ \A e \in LiveIn(filled): e \in LiveIn(data) /\ First(filled, e) = First(data, e)
  BY <1>1, FilledKeeps
<1> HIDE DEF linked, first, done, filled
<1>7. size \in Nat /\ file.offset + done \in Nat
  BY <1>3, <1>4 DEF Greater
<1> HIDE DEF size
<1>8. /\ data' \in Tables
      /\ \A e \in LiveIn(data'): e \in LiveIn(data) /\ First(data', e) = First(data, e)
  <2>1. CASE data' = filled
    BY <1>6, <2>1
  <2>2. CASE data' = Resized(filled, file.path, size)
    <3>1. /\ data' \in Tables
          /\ \A e \in LiveIn(data'): e \in LiveIn(filled) /\ First(data', e) = First(filled, e)
      BY <1>3, <1>6, <1>7, <2>2, ResizedKeeps
    <3>. QED  BY <1>6, <3>1
  <2>. QED  BY <1>5, <2>1, <2>2
<1>9. fat' \in Fats /\ (Apart(fat, data) => Apart(fat', data'))
  <2>1. fat' \in Fats /\ (Apart(fat, data) => Apart(fat', data))
    BY <1>2, <1>5 DEF LinkState
  <2>. QED  BY <1>8, <2>1, FewerStayApart
<1>10. openFiles' \in [0..MaxOpenFiles - 1 -> DescType]
  BY <1>3, <1>5, <1>7 DEF XInv, Types, DescType
<1>. QED  BY <1>5, <1>8, <1>9, <1>10 DEF XInv, Types

LEMMA DeleteKeeps ==
  ASSUME XInv, NEW path \in Paths, NEW isDir \in BOOLEAN, Delete(path, isDir)
  PROVE  XInv'
<1> DEFINE e == Found(data, path)
           s == [EntryOf(data, e) EXCEPT !.name = ""]
           p == Place(e.cluster, e.index)
<1>1. fat \in Fats /\ data \in Tables /\ (~misled => Apart(fat, data))
  BY DEF XInv, Types
<1>2. /\ e.cluster \in Clusters /\ e.index \in Slots(e.cluster)
      /\ EntryOf(data, e) \in EntryType /\ EntryOf(data, e).name \in Names
      /\ p \in Clusters \X (0..DirEntries - 1)
      /\ EntryOf(data, e) = data[p[1]][p[2]]
  BY <1>1, FoundIsLive DEF Delete
<1>3. /\ fat' = Freed(fat, EntryOf(data, e).first)
      /\ stuck' = ~EndsIn(fat, EntryOf(data, e).first)
      /\ data' = Put(data, e.cluster, e.index, s)
      /\ misled' = (misled \/ ~EntryOf(data, e).made)
      /\ UNCHANGED <<openFiles, openDirs>>
  BY DEF Delete
<1> HIDE DEF e
<1>4. s \in EntryType /\ s.name \notin Names
  BY <1>2, ReservedNames DEF EntryType, Zeros
<1> HIDE DEF s
<1>5. /\ data' \in Tables
      /\ \A x \in Clusters \X (0..DirEntries - 1):
           data'[x[1]][x[2]] = IF x = p THEN s ELSE data[x[1]][x[2]]
  <2>1. e.cluster \in Clusters /\ e.index \in Slots(e.cluster)
    BY <1>2
  <2>. QED  BY <1>1, <1>3, <1>4, <2>1, PutChangesOne
<1>6. \A x \in LiveIn(data'): x \in LiveIn(data) \ {p} /\ First(data', x) = First(data, x)
  BY <1>4, <1>5 DEF LiveIn, First
<1> HIDE DEF p
<1>7. fat' \in Fats
  BY <1>1, <1>3, EndIsNoCluster DEF Fats, Freed
<1>8. ~misled' => Apart(fat', data')
  <2>1. SUFFICES ASSUME ~misled' PROVE Apart(fat', data')
    OBVIOUS
  <2>2. Apart(fat, data) /\ EntryOf(data, e).made
    BY <1>1, <1>3, <2>1
  <2>3. p \in LiveIn(data) /\ First(data, p) = EntryOf(data, e).first
    BY <1>2, <2>2 DEF LiveIn, First
  <2>. QED  BY <1>1, <1>3, <1>5, <1>6, <2>2, <2>3, FreeKeepsApart
<1>9. stuck' \in BOOLEAN /\ misled' \in BOOLEAN
  BY <1>2, <1>3 DEF XInv, Types, EntryType
<1>. QED  BY <1>3, <1>5, <1>7, <1>8, <1>9 DEF XInv, Types

LEMMA OpendirKeeps ==
  ASSUME XInv, NEW path \in Paths, fat_opendir(path)
  PROVE  XInv'
<1> DEFINE e == Found(data, path)
           c == IF path = <<>> THEN 0 ELSE e.cluster
           h == Min({x \in DOMAIN openDirs: ~openDirs[x].used})
           new == [used |-> TRUE, cluster |-> c, index |-> 2]
<1>1. c \in Clusters
  BY FoundIsLive, EndIsNoCluster DEF fat_opendir, XInv, Types
<1>2. openDirs' = [openDirs EXCEPT ![h] = new]
  BY DEF fat_opendir
<1> HIDE DEF c, h
<1>3. new \in HandleType
  BY <1>1 DEF HandleType
<1> HIDE DEF new
<1>. QED  BY <1>2, <1>3 DEF XInv, Types, fat_opendir

LEMMA ReaddirKeeps ==
  ASSUME XInv, NEW h \in DOMAIN openDirs, fat_readdir(h)
  PROVE  XInv'
<1> DEFINE d == openDirs[h]
           rest == {i \in Slots(d.cluster): i >= d.index /\ ~Free(At(data, d.cluster, i))}
           next == IF rest = {} THEN Greater(d.index, Cardinality(Slots(d.cluster)))
                                ELSE Min(rest) + 1
<1>1. d.cluster \in Clusters /\ d.index \in Nat
  <2>1. d \in HandleType
    BY DEF XInv, Types
  <2>. QED  BY <2>1 DEF HandleType
<1>2. openDirs' = [openDirs EXCEPT ![h].index = next]
  BY DEF fat_readdir
<1>3. next \in Nat
  <2>1. CASE rest = {}
    <3>1. IsFiniteSet(Slots(d.cluster))
      <4>1. 0 \in Int /\ 2 * DirEntries - 1 \in Int /\ DirEntries - 1 \in Int
        BY DirEntriesIsNat
      <4>2. IsFiniteSet(0..2 * DirEntries - 1) /\ IsFiniteSet(0..DirEntries - 1)
        BY <4>1, FS_Interval
      <4>. QED  BY <4>2 DEF Slots
    <3>2. Cardinality(Slots(d.cluster)) \in Nat
      BY <3>1, FS_CardinalityType
    <3>. QED  BY <1>1, <2>1, <3>2 DEF Greater
  <2>2. CASE rest # {}
    <3>1. rest \in SUBSET Nat
      BY <1>1, SlotIsNat
    <3>2. Min(rest) \in Nat
      <4> HIDE DEF rest
      <4>. QED  BY <2>2, <3>1, LeastIsMember
    <3>. QED  BY <2>2, <3>2
  <2>. QED  BY <2>1, <2>2
<1> HIDE DEF next
<1>4. openDirs' \in [0..MaxOpenDirs - 1 -> HandleType]
  BY <1>2, <1>3 DEF XInv, Types, HandleType
<1>. QED  BY <1>4 DEF XInv, Types, fat_readdir

LEMMA ClosedirKeeps ==
  ASSUME XInv, NEW h \in DOMAIN openDirs, fat_closedir(h)
  PROVE  XInv'
<1>1. Handle \in HandleType
  BY EndIsNoCluster DEF Handle, HandleType
<1>. QED  BY <1>1 DEF XInv, Types, fat_closedir

-----------------------------------------------------------------------------
LEMMA InitHolds ==
  ASSUME TInit
  PROVE  XInv
<1>1. fat \in Fats
  BY EndIsNoCluster DEF TInit, Fats
<1>2. data \in Tables /\ LiveIn(data) = {}
  <2>1. Zero \in EntryType /\ Zero.name \notin Names
    BY ZeroIsEntry
  <2>2. data = [c \in Clusters |-> [i \in 0..DirEntries - 1 |-> Zero]]
    BY DEF TInit
  <2>. QED  BY <2>1, <2>2 DEF Tables, LiveIn
<1>3. openFiles \in [0..MaxOpenFiles - 1 -> DescType]
  BY EndIsNoCluster DEF TInit, FileDesc, DescType
<1>4. openDirs \in [0..MaxOpenDirs - 1 -> HandleType]
  BY EndIsNoCluster DEF TInit, Handle, HandleType
<1>5. stuck \in BOOLEAN /\ misled \in BOOLEAN
  BY DEF TInit
<1>6. Apart(fat, data)
  BY <1>2 DEF Apart
<1>. QED  BY <1>1, <1>2, <1>3, <1>4, <1>5, <1>6 DEF XInv, Types

LEMMA StepKeeps ==
  ASSUME XInv, [TNext]_tvars
  PROVE  XInv'
<1>1. CASE UNCHANGED tvars
  BY <1>1 DEF tvars, XInv, Types
<1>2. ASSUME NEW p \in Paths,
             \/ OpenNew(p) \/ OpenFound(p) \/ fat_mkdir(p)
             \/ vfs_unlink(p) \/ vfs_rmdir(p) \/ fat_opendir(p)
      PROVE  XInv'
  <2>1. CASE OpenNew(p)
    BY <2>1, OpenNewKeeps
  <2>2. CASE OpenFound(p)
    BY <2>2, OpenFoundKeeps
  <2>3. CASE fat_mkdir(p)
    BY <2>3, MkdirKeeps
  <2>4. CASE vfs_unlink(p)
    BY <2>4, DeleteKeeps DEF vfs_unlink
  <2>5. CASE vfs_rmdir(p)
    BY <2>5, DeleteKeeps DEF vfs_rmdir
  <2>6. CASE fat_opendir(p)
    BY <2>6, OpendirKeeps
  <2>. QED  BY <1>2, <2>1, <2>2, <2>3, <2>4, <2>5, <2>6
<1>3. ASSUME NEW fd \in DOMAIN openFiles,
             \/ vfs_close(fd)
             \/ \E n \in Counts:
                  \/ vfs_read(fd, n)
                  \/ openFiles[fd].offset + n <= MaxOffset /\ WriteStops(fd, n)
                  \/ \E v \in Payloads:
                       openFiles[fd].offset + n <= MaxOffset /\ WriteCopies(fd, n, v)
      PROVE  XInv'
  BY <1>3, CloseKeeps, ReadKeeps, WriteStopsKeeps, WriteCopiesKeeps
<1>4. ASSUME NEW h \in DOMAIN openDirs, fat_readdir(h) \/ fat_closedir(h)
      PROVE  XInv'
  BY <1>4, ReaddirKeeps, ClosedirKeeps
<1>. QED  BY <1>1, <1>2, <1>3, <1>4 DEF TNext

(* Descriptors, handles and entries hold clusters that the table has, and   *)
(* the mutex is held or not, whatever was called before.                    *)
THEOREM FatTypes == TSpec => []TTypeOK
<1>1. ASSUME XInv
      PROVE  TTypeOK
  <2>1. /\ fat \in [Clusters -> Clusters \cup {EndOfChain}]
        /\ stuck \in BOOLEAN /\ misled \in BOOLEAN
    BY <1>1 DEF XInv, Types, Fats
  <2>2. /\ DOMAIN data = Clusters
        /\ \A c \in Clusters: \A i \in 0..DirEntries - 1: data[c][i] \in EntryType
    BY <1>1 DEF XInv, Types, Tables
  <2>3. /\ DOMAIN openFiles = 0..MaxOpenFiles - 1
        /\ \A f \in DOMAIN openFiles: openFiles[f] \in DescType
    BY <1>1 DEF XInv, Types
  <2>4. \A h \in DOMAIN openDirs: openDirs[h] \in HandleType
    BY <1>1 DEF XInv, Types
  <2>5. \A s \in EntryType: /\ s.name \in Names \cup {Zeros, Text, ".", ".."}
                            /\ s.first \in Clusters /\ s.size \in Nat
    BY DEF EntryType
  <2>6. /\ \A s \in DescType: s.first \in Clusters /\ s.offset \in Nat
        /\ \A s \in HandleType: s.cluster \in Clusters
    BY DEF DescType, HandleType
  <2>. QED  BY <2>1, <2>2, <2>3, <2>4, <2>5, <2>6 DEF TTypeOK
<1>. QED  BY InitHolds, StepKeeps, <1>1, PTL DEF TSpec

(* The chain of every file and directory that was made ends, and no two of  *)
(* them have a cluster in common: not after a write through a descriptor    *)
(* whose file was unlinked, whatever entries it writes into the cluster of  *)
(* a directory, nor after one of those was opened and written to, nor after *)
(* vfs_rmdir has freed a directory that holds files, nor after a write that *)
(* found the disk full or never came back.  It holds until an entry that    *)
(* was only written is deleted.                                             *)
THEOREM ChainsAreNotShared == TSpec => []NoCrossLinks
<1>1. ASSUME XInv
      PROVE  NoCrossLinks
  <2>1. LiveIn(data) = Live
    BY DEF LiveIn, Live
  <2>2. \A e \in Live: First(data, e) = data[e[1]][e[2]].first
    BY DEF First
  <2>. QED  BY <1>1, <2>1, <2>2 DEF XInv, Apart, Whole, NoCrossLinks
<1>. QED  BY InitHolds, StepKeeps, <1>1, PTL DEF TSpec

=============================================================================
