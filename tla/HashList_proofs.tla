-------------------------- MODULE HashList_proofs --------------------------
(***************************************************************************)
(* HashList, proved for every set of files and hashes, every number of     *)
(* processes and every list they may find: its types, and that the list is *)
(* true, with the invariant of each step of fnvtest and fnvupdate.         *)
(***************************************************************************)
EXTENDS HashList, FiniteSetTheorems, SequenceTheorems, TLAPS

(* The list says of each file what was last entered, and keeps its lines    *)
(* that are no entries.                                                     *)
Tells(lines, m) ==
  /\ Pairs(lines) = {<<f, m.hash[f]>>: f \in DOMAIN m.hash}
  /\ Others(lines) = m.others
  /\ \A j, k \in DOMAIN lines: lines[j] = lines[k] /\ j # k => lines[j] = Other

Seen(lines) == IF lines = Missing THEN <<>> ELSE lines
Quiet == \A p \in Processes: proc[p].at = "idle"
NoneOf(lines, f) == \A k \in DOMAIN lines: ~IsOf(lines[k], f)
Less(m, f) == [m EXCEPT !.hash = [g \in DOMAIN @ \ {f} |-> @[g]]]
More(m, f, h) == [m EXCEPT !.hash = [g \in DOMAIN @ \cup {f} |-> IF g = f THEN h ELSE @[g]]]
Meanings == [hash: UNION {[set -> Hashes]: set \in SUBSET Files}, others: Nat]

(* Whatever the others do: all that a process of fnvtest has read, and all  *)
(* that any process will write, has been entered.                           *)
Entered(me, pairs) ==
  /\ Pairs(me.temp) \subseteq pairs
  /\ me.at = "read" => Pairs(me.todo) \subseteq pairs
  /\ me.at = "overwrite" => <<me.file, me.hash>> \in pairs
  /\ me.at = "hash" => ~me.test
  /\ me.at = "idle" /\ me.test /\ me.exit = 0 => <<me.file, me.hash>> \in pairs

(* Where no process has come between: the old list, or the new one in so    *)
(* far as it is made, tells what was meant.                                 *)
Undisturbed(me, old, m) ==
  /\ me.at = "open" => Tells(Seen(old), m) /\ me.temp = <<>>
  /\ me.at = "read" => /\ Tells(old, m) /\ NoneOf(me.temp, me.file)
                       /\ \/ me.temp \o me.todo = old
                          \/ Tells(me.temp \o me.todo, Less(m, me.file))
  /\ me.at = "overwrite" => Tells(old, m) /\ me.temp = old
  /\ me.at = "hash" => /\ Tells(me.temp \o me.todo, m)
                       /\ me.exit = -1 => me.temp \o me.todo = old
  /\ me.at = "truncate" => Tells(me.temp, m)
  /\ me.at = "write" => Tells(me.temp, m) /\ old = <<>>

LInv ==
  /\ Pairs(Seen(list)) \subseteq recorded
  /\ \A p \in Processes: Entered(proc[p], recorded)
  /\ calm => /\ \A p, q \in Processes: p # q => "idle" \in {proc[p].at, proc[q].at}
             /\ Quiet => Tells(Seen(list), meant)
             /\ \A p \in Processes: Undisturbed(proc[p], list, meant)

-----------------------------------------------------------------------------
(* Lines and lists of lines.                                                *)
Once(lines) == \A j, k \in DOMAIN lines: lines[j] = lines[k] /\ j # k => lines[j] = Other

(* An entry is a line of its file and of no other; the line that is none is *)
(* of no file.                                                              *)
LEMMA LineKinds ==
  ASSUME NEW x \in Lines
  PROVE  /\ x # Other => x.name \in Files /\ x.hash \in Hashes /\ IsOf(x, x.name)
         /\ x # Other => x = Entry(x.name, x.hash)
         /\ \A f \in Files, h \in Hashes: Entry(f, h) \in Lines /\ Entry(f, h) # Other
<1>1. CASE x = Other
  BY <1>1, HashAssumption DEF Lines, Entry, Other
<1>2. CASE x \in [name: Files, hash: Hashes]
  BY <1>2, HashAssumption DEF Lines, Entry, Other, IsOf
<1> QED
  BY <1>1, <1>2 DEF Lines

LEMMA InPairs ==
  ASSUME NEW s, NEW x
  PROVE  x \in Pairs(s) <=> \E k \in DOMAIN s: s[k] # Other /\ x = <<s[k].name, s[k].hash>>
BY DEF Pairs

LEMMA PairsOfLine ==
  ASSUME NEW x
  PROVE  Pairs(<<x>>) = IF x = Other THEN {} ELSE {<<x.name, x.hash>>}
<1>1. DOMAIN <<x>> = {1} /\ <<x>>[1] = x
  OBVIOUS
<1> QED
  BY <1>1 DEF Pairs

LEMMA PairsOfNone == Pairs(<<>>) = {}
BY DEF Pairs

LEMMA PastTheFirst ==
  ASSUME NEW m \in Nat, NEW n \in Nat, NEW k \in 1..(m + n), k \notin 1..m
  PROVE  ~(k <= m) /\ k - m \in 1..n
OBVIOUS

LEMMA ConcatIndices ==
  ASSUME NEW s \in Seq(Lines), NEW t \in Seq(Lines)
  PROVE  /\ s \o t \in Seq(Lines)
         /\ DOMAIN s = 1..Len(s) /\ DOMAIN t = 1..Len(t) /\ Len(s) \in Nat /\ Len(t) \in Nat
         /\ DOMAIN (s \o t) = 1..(Len(s) + Len(t))
         /\ \A k \in DOMAIN s: k \in DOMAIN (s \o t) /\ (s \o t)[k] = s[k]
         /\ \A k \in DOMAIN t: /\ k + Len(s) \in DOMAIN (s \o t)
                               /\ (s \o t)[k + Len(s)] = t[k]
         /\ \A k \in DOMAIN (s \o t): \/ k \in DOMAIN s
                                      \/ k - Len(s) \in DOMAIN t /\ (s \o t)[k] = t[k - Len(s)]
<1>1. /\ s \o t \in Seq(Lines) /\ Len(s) \in Nat /\ Len(t) \in Nat
      /\ Len(s \o t) = Len(s) + Len(t)
  OBVIOUS
<1>2. /\ DOMAIN s = 1..Len(s) /\ DOMAIN t = 1..Len(t)
      /\ DOMAIN (s \o t) = 1..(Len(s) + Len(t))
  BY <1>1
<1>3. \A k \in 1..(Len(s) + Len(t)):
        (s \o t)[k] = IF k <= Len(s) THEN s[k] ELSE t[k - Len(s)]
  OBVIOUS
<1>4. \A k \in DOMAIN s: k \in DOMAIN (s \o t) /\ (s \o t)[k] = s[k]
  BY <1>1, <1>2, <1>3
<1>5. ASSUME NEW k \in DOMAIN t
      PROVE  k + Len(s) \in DOMAIN (s \o t) /\ (s \o t)[k + Len(s)] = t[k]
  <2>1. /\ k \in Nat /\ k >= 1 /\ k + Len(s) \in 1..(Len(s) + Len(t)) /\ ~(k + Len(s) <= Len(s))
        /\ (k + Len(s)) - Len(s) = k
    BY <1>1, <1>2
  <2> QED
    BY <1>2, <1>3, <2>1
<1>6. ASSUME NEW k \in DOMAIN (s \o t), k \notin DOMAIN s
      PROVE  k - Len(s) \in DOMAIN t /\ (s \o t)[k] = t[k - Len(s)]
  <2>1. ~(k <= Len(s)) /\ k - Len(s) \in 1..Len(t)
    <3>1. k \in 1..(Len(s) + Len(t)) /\ k \notin 1..Len(s)
      BY <1>2, <1>6
    <3> QED
      BY <1>1, <3>1, PastTheFirst
  <2> QED
    BY <1>2, <1>3, <2>1
<1>7. \A k \in DOMAIN (s \o t): \/ k \in DOMAIN s
                                \/ k - Len(s) \in DOMAIN t /\ (s \o t)[k] = t[k - Len(s)]
  BY <1>6
<1>8. \A k \in DOMAIN t: /\ k + Len(s) \in DOMAIN (s \o t)
                        /\ (s \o t)[k + Len(s)] = t[k]
  BY <1>5
<1> QED
  BY <1>1, <1>2, <1>4, <1>7, <1>8

(* What a list of two parts says, how many lines it has that are no         *)
(* entries, and when it has each entry once.                                *)
LEMMA PairsOfConcat ==
  ASSUME NEW s \in Seq(Lines), NEW t \in Seq(Lines)
  PROVE  Pairs(s \o t) = Pairs(s) \cup Pairs(t)
<1>1. ASSUME NEW x \in Pairs(s \o t) PROVE x \in Pairs(s) \cup Pairs(t)
  <2>1. PICK k \in DOMAIN (s \o t): (s \o t)[k] # Other /\ x = <<(s \o t)[k].name, (s \o t)[k].hash>>
    BY InPairs
  <2>2. CASE k \in DOMAIN s
    BY <2>1, <2>2, ConcatIndices, InPairs
  <2>3. CASE k - Len(s) \in DOMAIN t /\ (s \o t)[k] = t[k - Len(s)]
    BY <2>1, <2>3, InPairs
  <2> QED
    BY <2>2, <2>3, ConcatIndices
<1>2. ASSUME NEW x \in Pairs(s) PROVE x \in Pairs(s \o t)
  <2>1. PICK k \in DOMAIN s: s[k] # Other /\ x = <<s[k].name, s[k].hash>>
    BY InPairs
  <2>2. k \in DOMAIN (s \o t) /\ (s \o t)[k] = s[k]
    BY ConcatIndices
  <2> QED
    BY <2>1, <2>2, InPairs
<1>3. ASSUME NEW x \in Pairs(t) PROVE x \in Pairs(s \o t)
  <2>1. PICK k \in DOMAIN t: t[k] # Other /\ x = <<t[k].name, t[k].hash>>
    BY InPairs
  <2>2. k + Len(s) \in DOMAIN (s \o t) /\ (s \o t)[k + Len(s)] = t[k]
    BY ConcatIndices
  <2> QED
    BY <2>1, <2>2, InPairs
<1> QED
  BY <1>1, <1>2, <1>3

LEMMA OthersIsNat == ASSUME NEW s \in Seq(Lines) PROVE Others(s) \in Nat
<1>1. IsFiniteSet(DOMAIN s)
  BY FS_Interval
<1>2. IsFiniteSet({k \in DOMAIN s: s[k] = Other})
  BY <1>1, FS_Subset
<1> QED
  BY <1>2, FS_CardinalityType DEF Others

LEMMA OthersOfConcat ==
  ASSUME NEW s \in Seq(Lines), NEW t \in Seq(Lines)
  PROVE  Others(s \o t) = Others(s) + Others(t)
<1> DEFINE A == {k \in DOMAIN s: s[k] = Other}
           B == {k \in DOMAIN t: t[k] = Other}
           C == {k \in DOMAIN (s \o t): (s \o t)[k] = Other}
           D == C \ A
           f == [k \in B |-> k + Len(s)]
<1>1. IsFiniteSet(A) /\ IsFiniteSet(B)
  <2>1. IsFiniteSet(1..Len(s)) /\ IsFiniteSet(1..Len(t))
    BY FS_Interval, ConcatIndices
  <2> QED
    BY <2>1, FS_Subset, ConcatIndices
<1>2. f \in Bijection(B, D)
  <2>1. \A k \in B: k + Len(s) \in D
    BY ConcatIndices
  <2>2. \A d \in D: d - Len(s) \in B /\ f[d - Len(s)] = d
    BY ConcatIndices
  <2>3. \A j, k \in B: f[j] = f[k] => j = k
    BY ConcatIndices
  <2>4. f \in [B -> D]
    BY <2>1
  <2>5. \A d \in D: \E k \in B: f[k] = d
    BY <2>2
  <2> QED
    BY <2>3, <2>4, <2>5 DEF Bijection, Injection, Surjection, IsInjective
<1>3. IsFiniteSet(D) /\ Cardinality(D) = Cardinality(B)
  BY <1>1, <1>2, FS_Bijection DEF ExistsBijection
<1>4. C = A \cup D /\ A \cap D = {}
  BY ConcatIndices
<1> HIDE DEF A, B, C, D, f
<1>5. Cardinality(C) = Cardinality(A) + Cardinality(D)
  <2>1. Cardinality(A \cup D) = Cardinality(A) + Cardinality(D) - Cardinality(A \cap D)
    BY <1>1, <1>3, FS_Union
  <2>2. Cardinality(A \cap D) = 0
    BY <1>4, FS_EmptySet
  <2>3. Cardinality(A) \in Nat /\ Cardinality(D) \in Nat
    BY <1>1, <1>3, FS_CardinalityType
  <2>4. Cardinality(A \cup D) = Cardinality(A) + Cardinality(D)
    BY <2>1, <2>2, <2>3
  <2> QED
    BY <1>4, <2>4
<1> QED
  BY <1>3, <1>5 DEF Others, A, B, C

LEMMA OnceInBoth ==
  ASSUME NEW s \in Seq(Lines), NEW t \in Seq(Lines)
  PROVE  Once(s \o t) <=> /\ Once(s) /\ Once(t)
                          /\ \A j \in DOMAIN s, k \in DOMAIN t: s[j] = t[k] => s[j] = Other
<1>1. ASSUME Once(s \o t)
      PROVE  /\ Once(s) /\ Once(t)
             /\ \A j \in DOMAIN s, k \in DOMAIN t: s[j] = t[k] => s[j] = Other
  <2>1. Once(s)
    BY <1>1, ConcatIndices DEF Once
  <2>2. ASSUME NEW j \in DOMAIN t, NEW k \in DOMAIN t, t[j] = t[k], j # k PROVE t[j] = Other
    <3>1. j + Len(s) # k + Len(s)
      BY <2>2, ConcatIndices
    <3>2. /\ j + Len(s) \in DOMAIN (s \o t) /\ (s \o t)[j + Len(s)] = t[j]
          /\ k + Len(s) \in DOMAIN (s \o t) /\ (s \o t)[k + Len(s)] = t[k]
      BY ConcatIndices
    <3> QED
      BY <1>1, <2>2, <3>1, <3>2 DEF Once
  <2>3. ASSUME NEW j \in DOMAIN s, NEW k \in DOMAIN t, s[j] = t[k] PROVE s[j] = Other
    <3>1. j # k + Len(s)
      BY ConcatIndices
    <3> QED
      BY <1>1, <2>3, <3>1, ConcatIndices DEF Once
  <2> QED
    BY <2>1, <2>2, <2>3 DEF Once
<1>2. ASSUME Once(s), Once(t),
             \A j \in DOMAIN s, k \in DOMAIN t: s[j] = t[k] => s[j] = Other
      PROVE  Once(s \o t)
  <2> SUFFICES ASSUME NEW j \in DOMAIN (s \o t), NEW k \in DOMAIN (s \o t),
                      (s \o t)[j] = (s \o t)[k], j # k
               PROVE  (s \o t)[j] = Other
    BY DEF Once
  <2> DEFINE n == Len(s)
  <2>1. n \in Nat /\ j \in Nat /\ k \in Nat
    BY ConcatIndices
  <2>2. CASE j \in DOMAIN s /\ k \in DOMAIN s
    BY <1>2, <2>2, ConcatIndices DEF Once
  <2>3. CASE j \in DOMAIN s /\ k - n \in DOMAIN t /\ (s \o t)[k] = t[k - n]
    BY <1>2, <2>3, ConcatIndices
  <2>4. CASE k \in DOMAIN s /\ j - n \in DOMAIN t /\ (s \o t)[j] = t[j - n]
    BY <1>2, <2>4, ConcatIndices
  <2>5. CASE /\ j - n \in DOMAIN t /\ (s \o t)[j] = t[j - n]
             /\ k - n \in DOMAIN t /\ (s \o t)[k] = t[k - n]
    <3>1. j - n # k - n
      BY <2>1
    <3> QED
      BY <1>2, <2>5, <3>1 DEF Once
  <2> QED
    BY <2>2, <2>3, <2>4, <2>5, ConcatIndices
<1> QED
  BY <1>1, <1>2

LEMMA OthersOfLine ==
  /\ Others(<<>>) = 0
  /\ \A x: x # Other => Others(<<x>>) = 0
  /\ Others(<<Other>>) = 1
<1>1. {k \in DOMAIN <<>>: <<>>[k] = Other} = {}
  OBVIOUS
<1>2. ASSUME NEW x PROVE DOMAIN <<x>> = {1} /\ <<x>>[1] = x
  OBVIOUS
<1>3. ASSUME NEW x, x # Other PROVE {k \in DOMAIN <<x>>: <<x>>[k] = Other} = {}
  BY <1>2, <1>3
<1>4. {k \in DOMAIN <<Other>>: <<Other>>[k] = Other} = {1}
  BY <1>2
<1>5. Cardinality({}) = 0 /\ Cardinality({1}) = 1
  BY FS_EmptySet, FS_Singleton
<1> QED
  BY <1>1, <1>3, <1>4, <1>5 DEF Others

LEMMA OnceOfLine ==
  /\ Once(<<>>)
  /\ \A x: Once(<<x>>)
<1>1. ASSUME NEW x PROVE DOMAIN <<x>> = {1} /\ <<x>>[1] = x
  OBVIOUS
<1> QED
  BY <1>1 DEF Once

-----------------------------------------------------------------------------
(* What is left of what was meant without a file, and with one entered.     *)
LEMMA Meant ==
  ASSUME NEW m \in Meanings, NEW f, NEW h
  PROVE  /\ Less(m, f).others = m.others /\ DOMAIN Less(m, f).hash = DOMAIN m.hash \ {f}
         /\ \A g \in DOMAIN m.hash \ {f}: Less(m, f).hash[g] = m.hash[g]
         /\ More(m, f, h).others = m.others /\ DOMAIN More(m, f, h).hash = DOMAIN m.hash \cup {f}
         /\ \A g \in DOMAIN m.hash \cup {f}: More(m, f, h).hash[g] = IF g = f THEN h ELSE m.hash[g]
BY DEF Meanings, Less, More

LEMMA MeantPairs ==
  ASSUME NEW m \in Meanings, NEW f
  PROVE  {<<g, Less(m, f).hash[g]>>: g \in DOMAIN Less(m, f).hash}
         = {<<g, m.hash[g]>>: g \in DOMAIN m.hash \ {f}}
<1> DEFINE l == Less(m, f).hash
           r == m.hash
<1>1. DOMAIN l = DOMAIN r \ {f}
  BY Meant
<1>2. \A g \in DOMAIN r \ {f}: l[g] = r[g]
  BY Meant
<1> HIDE DEF l
<1>3. {<<g, l[g]>>: g \in DOMAIN l} = {<<g, r[g]>>: g \in DOMAIN r \ {f}}
  BY <1>1, <1>2
<1> QED
  BY <1>3 DEF l

LEMMA MeantTypes ==
  ASSUME NEW m \in Meanings, NEW f \in Files, NEW h \in Hashes
  PROVE  Less(m, f) \in Meanings /\ More(m, f, h) \in Meanings
<1>1. PICK set \in SUBSET Files: m.hash \in [set -> Hashes]
  BY DEF Meanings
<1>2. DOMAIN m.hash = set
  BY <1>1
<1>3. [g \in DOMAIN m.hash \ {f} |-> m.hash[g]] \in [set \ {f} -> Hashes]
  BY <1>1, <1>2
<1>4. [g \in DOMAIN m.hash \cup {f} |-> IF g = f THEN h ELSE m.hash[g]] \in [set \cup {f} -> Hashes]
  BY <1>1, <1>2
<1>5. set \ {f} \in SUBSET Files /\ set \cup {f} \in SUBSET Files
  OBVIOUS
<1> QED
  BY <1>3, <1>4, <1>5 DEF Meanings, Less, More

LEMMA TellsOfEntry ==
  ASSUME NEW s \in Seq(Lines), NEW m, Tells(s, m), NEW k \in DOMAIN s, s[k] # Other
  PROVE  s[k].name \in DOMAIN m.hash /\ s[k].hash = m.hash[s[k].name]
<1>1. <<s[k].name, s[k].hash>> \in Pairs(s)
  BY InPairs
<1> QED
  BY <1>1 DEF Tells

LEMMA PairsOfNoneOf ==
  ASSUME NEW s \in Seq(Lines), NEW f
  PROVE  NoneOf(s, f) <=> \A h: <<f, h>> \notin Pairs(s)
<1>1. ASSUME NoneOf(s, f), NEW h PROVE <<f, h>> \notin Pairs(s)
  BY <1>1, InPairs DEF NoneOf, IsOf
<1>2. ASSUME \A h: <<f, h>> \notin Pairs(s), NEW k \in DOMAIN s PROVE ~IsOf(s[k], f)
  <2>1. s[k] # Other => <<s[k].name, s[k].hash>> \in Pairs(s)
    BY InPairs
  <2> QED
    BY <1>2, <2>1 DEF IsOf
<1> QED
  BY <1>1, <1>2 DEF NoneOf

(* A list that tells m with an entry in it: there is no other of the file,  *)
(* and without it the list tells all the rest.                              *)
LEMMA EntryRemoved ==
  ASSUME NEW a \in Seq(Lines), NEW b \in Seq(Lines), NEW x \in Lines, x # Other,
         NEW m \in Meanings, Tells((a \o <<x>>) \o b, m)
  PROVE  /\ NoneOf(a, x.name) /\ NoneOf(b, x.name)
         /\ Tells(a \o b, Less(m, x.name))
<1> DEFINE f == x.name
           L == (a \o <<x>>) \o b
<1>1. /\ <<x>> \in Seq(Lines) /\ a \o <<x>> \in Seq(Lines) /\ L \in Seq(Lines)
      /\ a \o b \in Seq(Lines)
  OBVIOUS
<1>2. Pairs(L) = (Pairs(a) \cup {<<f, x.hash>>}) \cup Pairs(b)
  <2>1. Pairs(L) = Pairs(a \o <<x>>) \cup Pairs(b)
    BY <1>1, PairsOfConcat
  <2>2. Pairs(a \o <<x>>) = Pairs(a) \cup Pairs(<<x>>)
    BY <1>1, PairsOfConcat
  <2>3. Pairs(<<x>>) = {<<f, x.hash>>}
    BY PairsOfLine
  <2> QED
    BY <2>1, <2>2, <2>3
<1>3. Pairs(a \o b) = Pairs(a) \cup Pairs(b)
  BY PairsOfConcat
<1>4. /\ Once(a) /\ Once(b)
      /\ \A j \in DOMAIN a: a[j] # x
      /\ \A k \in DOMAIN b: b[k] # x
      /\ \A j \in DOMAIN a, k \in DOMAIN b: a[j] = b[k] => a[j] = Other
  <2>1. /\ Once(a \o <<x>>) /\ Once(b)
        /\ \A j \in DOMAIN (a \o <<x>>), k \in DOMAIN b:
             (a \o <<x>>)[j] = b[k] => (a \o <<x>>)[j] = Other
    BY <1>1, OnceInBoth DEF Tells, Once
  <2>2. /\ Once(a)
        /\ \A j \in DOMAIN a, k \in DOMAIN <<x>>: a[j] = <<x>>[k] => a[j] = Other
    BY <1>1, <2>1, OnceInBoth
  <2>3. DOMAIN <<x>> = {1} /\ <<x>>[1] = x
    OBVIOUS
  <2>4. /\ \A j \in DOMAIN a: j \in DOMAIN (a \o <<x>>) /\ (a \o <<x>>)[j] = a[j]
        /\ 1 + Len(a) \in DOMAIN (a \o <<x>>) /\ (a \o <<x>>)[1 + Len(a)] = x
    BY <1>1, <2>3, ConcatIndices
  <2> QED
    BY <2>1, <2>2, <2>3, <2>4
<1>5. \A p \in Pairs(L): \E g \in DOMAIN m.hash: p = <<g, m.hash[g]>>
  BY DEF Tells
<1>6. f \in DOMAIN m.hash /\ x.hash = m.hash[f]
  <2>1. <<f, x.hash>> \in Pairs(L)
    BY <1>2
  <2> QED
    BY <1>5, <2>1
<1>7. ASSUME NEW s \in Seq(Lines), Pairs(s) \subseteq Pairs(L), \A j \in DOMAIN s: s[j] # x
      PROVE  NoneOf(s, f)
  <2> SUFFICES ASSUME NEW j \in DOMAIN s, IsOf(s[j], f) PROVE FALSE
    BY DEF NoneOf
  <2>1. s[j] # Other /\ s[j].name = f /\ s[j] \in Lines
    BY DEF IsOf
  <2>2. <<f, s[j].hash>> \in Pairs(L)
    BY <1>7, <2>1, InPairs
  <2>3. s[j].hash = m.hash[f]
    BY <1>5, <2>2
  <2>4. s[j] = Entry(f, m.hash[f]) /\ x = Entry(f, m.hash[f])
    BY <1>6, <2>1, <2>3, LineKinds
  <2> QED
    BY <1>7, <2>4
<1>8. NoneOf(a, f) /\ NoneOf(b, f)
  BY <1>2, <1>4, <1>7
<1>9. Pairs(a \o b) = {<<g, Less(m, f).hash[g]>>: g \in DOMAIN Less(m, f).hash}
  <2>1. Pairs(L) = {<<g, m.hash[g]>>: g \in DOMAIN m.hash}
    BY DEF Tells
  <2>2. /\ \A h: <<f, h>> \notin Pairs(a \o b)
        /\ Pairs(L) = Pairs(a \o b) \cup {<<f, m.hash[f]>>}
    BY <1>2, <1>3, <1>6, <1>8, PairsOfNoneOf
  <2>3. Pairs(a \o b) = {<<g, m.hash[g]>>: g \in DOMAIN m.hash \ {f}}
    BY <2>1, <2>2
  <2> QED
    BY <2>3, MeantPairs
<1>10. Others(a \o b) = Less(m, f).others
  <2>1. Others(L) = Others(a \o <<x>>) + Others(b) /\ Others(a \o b) = Others(a) + Others(b)
    BY <1>1, OthersOfConcat
  <2>2. Others(a \o <<x>>) = Others(a) + 0
    BY <1>1, OthersOfConcat, OthersOfLine
  <2>3. Others(L) = Others(a \o b)
    BY <2>1, <2>2, OthersIsNat
  <2> QED
    BY <2>3, Meant DEF Tells
<1>11. Once(a \o b)
  BY <1>4, OnceInBoth
<1> QED
  BY <1>8, <1>9, <1>10, <1>11 DEF Tells, Once

(* The other way: a file that a list has no entry of is entered.            *)
LEMMA EntryAdded ==
  ASSUME NEW a \in Seq(Lines), NEW b \in Seq(Lines), NEW f \in Files, NEW h \in Hashes,
         NEW m \in Meanings, Tells(a \o b, Less(m, f))
  PROVE  Tells((a \o <<Entry(f, h)>>) \o b, More(m, f, h))
<1> DEFINE x == Entry(f, h)
           L == (a \o <<x>>) \o b
<1>0. x \in Lines /\ x # Other /\ x.name = f /\ x.hash = h
  <2>1. \A y \in Lines: \A g \in Files, i \in Hashes: Entry(g, i) \in Lines /\ Entry(g, i) # Other
    BY LineKinds
  <2> QED
    BY <2>1 DEF Lines, Entry
<1>1. /\ <<x>> \in Seq(Lines) /\ a \o <<x>> \in Seq(Lines) /\ L \in Seq(Lines)
      /\ a \o b \in Seq(Lines)
  BY <1>0
<1>2. Pairs(L) = (Pairs(a) \cup {<<f, h>>}) \cup Pairs(b)
  <2>1. Pairs(L) = Pairs(a \o <<x>>) \cup Pairs(b)
    BY <1>1, PairsOfConcat
  <2>2. Pairs(a \o <<x>>) = Pairs(a) \cup Pairs(<<x>>)
    BY <1>1, PairsOfConcat
  <2>3. Pairs(<<x>>) = {<<f, h>>}
    BY <1>0, PairsOfLine
  <2> QED
    BY <2>1, <2>2, <2>3
<1>3. Pairs(a \o b) = Pairs(a) \cup Pairs(b)
  BY PairsOfConcat
<1>4. Pairs(a \o b) = {<<g, m.hash[g]>>: g \in DOMAIN m.hash \ {f}}
  BY MeantPairs DEF Tells
<1>5. NoneOf(a, f) /\ NoneOf(b, f)
  <2>1. \A i: <<f, i>> \notin Pairs(a) /\ <<f, i>> \notin Pairs(b)
    BY <1>3, <1>4
  <2> QED
    BY <2>1, PairsOfNoneOf
<1>6. Pairs(L) = {<<g, More(m, f, h).hash[g]>>: g \in DOMAIN More(m, f, h).hash}
  <2>1. Pairs(L) = {<<g, m.hash[g]>>: g \in DOMAIN m.hash \ {f}} \cup {<<f, h>>}
    BY <1>2, <1>3, <1>4
  <2> QED
    BY <2>1, Meant
<1>7. Others(L) = More(m, f, h).others
  <2>1. Others(L) = Others(a \o <<x>>) + Others(b) /\ Others(a \o b) = Others(a) + Others(b)
    BY <1>1, OthersOfConcat
  <2>2. Others(a \o <<x>>) = Others(a) + 0
    BY <1>0, <1>1, OthersOfConcat, OthersOfLine
  <2>3. Others(L) = Others(a \o b)
    BY <2>1, <2>2, OthersIsNat
  <2> QED
    BY <2>3, Meant DEF Tells
<1>8. Once(L)
  <2>1. /\ Once(a) /\ Once(b)
        /\ \A j \in DOMAIN a, k \in DOMAIN b: a[j] = b[k] => a[j] = Other
    BY OnceInBoth DEF Tells, Once
  <2>2. (\A j \in DOMAIN a: a[j] # x) /\ (\A k \in DOMAIN b: b[k] # x)
    BY <1>0, <1>5 DEF NoneOf, IsOf
  <2>3. DOMAIN <<x>> = {1} /\ <<x>>[1] = x
    OBVIOUS
  <2>4. Once(a \o <<x>>)
    BY <1>1, <2>1, <2>2, <2>3, OnceInBoth, OnceOfLine
  <2>5. \A j \in DOMAIN (a \o <<x>>): (a \o <<x>>)[j] = x \/ \E i \in DOMAIN a: (a \o <<x>>)[j] = a[i]
    BY <1>1, <2>3, ConcatIndices
  <2>6. \A j \in DOMAIN (a \o <<x>>), k \in DOMAIN b:
          (a \o <<x>>)[j] = b[k] => (a \o <<x>>)[j] = Other
    BY <2>1, <2>2, <2>5
  <2> QED
    BY <1>1, <2>1, <2>4, <2>6, OnceInBoth
<1> QED
  BY <1>6, <1>7, <1>8 DEF Tells, Once

(* A list without the file tells as much when the file is not meant.        *)
LEMMA NotInTheList ==
  ASSUME NEW s \in Seq(Lines), NEW f, NEW m \in Meanings, Tells(s, m), NoneOf(s, f)
  PROVE  Tells(s, Less(m, f))
<1>1. \A h: <<f, h>> \notin Pairs(s)
  BY PairsOfNoneOf
<1>2. Pairs(s) = {<<g, m.hash[g]>>: g \in DOMAIN m.hash}
  BY DEF Tells
<1>3. f \notin DOMAIN m.hash
  BY <1>1, <1>2
<1>4. Pairs(s) = {<<g, Less(m, f).hash[g]>>: g \in DOMAIN Less(m, f).hash}
  <2>1. DOMAIN m.hash \ {f} = DOMAIN m.hash
    BY <1>3
  <2> QED
    BY <1>2, <2>1, MeantPairs
<1> QED
  BY <1>4, Meant DEF Tells

LEMMA NotMeant ==
  ASSUME NEW s \in Seq(Lines), NEW f, NEW m \in Meanings, Tells(s, Less(m, f))
  PROVE  NoneOf(s, f)
<1>1. Pairs(s) = {<<g, Less(m, f).hash[g]>>: g \in DOMAIN m.hash \ {f}}
  BY Meant DEF Tells
<1>2. \A h: <<f, h>> \notin Pairs(s)
  BY <1>1
<1> QED
  BY <1>2, PairsOfNoneOf

-----------------------------------------------------------------------------
(* The types.  A list that is there stays; every process past its start has *)
(* found or made one.                                                       *)
ListIsThere == \A p \in Processes: proc[p].at \notin {"idle", "open"} => list # Missing

LEMMA MissingIsNoList == Missing \notin Seq(Lines) /\ Missing # <<>>
<1>1. Missing[1] = Entry("no list", 0) /\ Len(Missing) = 1 /\ 1 \in 1..Len(Missing)
  BY DEF Missing
<1>2. Entry("no list", 0) \notin Lines
  BY HashAssumption DEF Lines, Entry, Other
<1>3. ASSUME Missing \in Seq(Lines) PROVE FALSE
  <2>1. \A k \in 1..Len(Missing): Missing[k] \in Lines
    BY <1>3
  <2> QED
    BY <1>1, <1>2, <2>1
<1>4. Missing # <<>>
  BY DEF Missing
<1> QED
  BY <1>3, <1>4

LEMMA OverIsAList ==
  ASSUME NEW s \in Seq(Lines), NEW t \in Seq(Lines)
  PROVE  Over(s, t) \in Seq(Lines)
<1>1. SubSeq(s, Len(t) + 1, Len(s)) \in Seq(Lines)
  OBVIOUS
<1> QED
  BY <1>1 DEF Over

LEMMA OverItself == ASSUME NEW s \in Seq(Lines) PROVE Over(s, s) = s /\ Over(<<>>, s) = s
<1>1. SubSeq(s, Len(s) + 1, Len(s)) = <<>> /\ SubSeq(<<>>, Len(s) + 1, Len(<<>>)) = <<>>
  OBVIOUS
<1> QED
  BY <1>1 DEF Over

LEMMA PairsTypes == ASSUME NEW s \in Seq(Lines) PROVE Pairs(s) \subseteq Files \X Hashes
<1> SUFFICES ASSUME NEW x \in Pairs(s) PROVE x \in Files \X Hashes
  OBVIOUS
<1>1. PICK k \in DOMAIN s: s[k] # Other /\ x = <<s[k].name, s[k].hash>>
  BY InPairs
<1>2. s[k] \in Lines
  OBVIOUS
<1> QED
  BY <1>1, <1>2, LineKinds

LEMMA RunTypes ==
  ASSUME NEW me \in Runs
  PROVE  /\ me.at \in {"idle", "open", "read", "overwrite", "hash", "truncate", "write"}
         /\ me.test \in BOOLEAN /\ me.file \in Files \cup {""} /\ me.hash \in Hashes
         /\ me.todo \in Seq(Lines) /\ me.temp \in Seq(Lines) /\ me.exit \in -1..1
BY DEF Runs

HasItsFile == \A p \in Processes: proc[p].at \in {"open", "read"} => proc[p].file \in Files
LTypes == LTypeOK /\ ListIsThere /\ HasItsFile

LEMMA EventsAreBounded == MaxEvents \in Nat
BY HashAssumption

LEMMA IdleIsARun == Idle \in Runs /\ <<>> \in Seq(Lines) /\ Idle.at = "idle"
<1>1. <<>> \in Seq(Lines)
  OBVIOUS
<1>2. 0 \in Hashes
  BY HashAssumption
<1>3. -1 \in -1..1
  OBVIOUS
<1> QED
  BY <1>1, <1>2, <1>3 DEF Idle, Runs

LEMMA LTypesInit == LInit => LTypes
<1> SUFFICES ASSUME LInit PROVE LTypes
  OBVIOUS
<1> DEFINE lines == IF list = Missing THEN <<>> ELSE list
<1>1. list \in Seq(Lines) \cup {Missing} /\ lines \in Seq(Lines)
  <2>1. <<>> \in Seq(Lines)
    OBVIOUS
  <2> QED
    BY <2>1, HashAssumption DEF LInit
<1>2. Idle \in Runs /\ Idle.at = "idle"
  BY IdleIsARun
<1>3. recorded \subseteq Files \X Hashes /\ recorded = Pairs(lines)
  BY <1>1, PairsTypes DEF LInit
<1>4. meant \in Meanings
  <2> DEFINE hash(f) == CHOOSE h \in Hashes: <<f, h>> \in Pairs(lines)
             set == {x[1]: x \in recorded}
  <2>1. \A f \in set: hash(f) \in Hashes
    <3> SUFFICES ASSUME NEW x \in recorded PROVE hash(x[1]) \in Hashes
      OBVIOUS
    <3>1. x[2] \in Hashes /\ <<x[1], x[2]>> \in Pairs(lines)
      BY <1>3
    <3> QED
      BY <3>1
  <2>2. set \in SUBSET Files
    BY <1>3
  <2>3. [f \in set |-> hash(f)] \in [set -> Hashes]
    BY <2>1
  <2>4. Others(lines) \in Nat
    BY <1>1, OthersIsNat
  <2>5. meant = [hash |-> [f \in set |-> hash(f)], others |-> Others(lines)]
    BY DEF LInit
  <2> HIDE DEF hash, set
  <2> QED
    BY <2>2, <2>3, <2>4, <2>5 DEF Meanings
<1>5. proc = [p \in Processes |-> Idle] /\ content \in [Files -> Hashes] /\ calm = TRUE /\ events = 0
  BY DEF LInit
<1>6. 0 \in 0..MaxEvents /\ TRUE \in BOOLEAN
  BY EventsAreBounded
<1>7. \A p \in Processes: proc[p] = Idle
  BY <1>5
<1> QED
  BY <1>1, <1>2, <1>3, <1>4, <1>5, <1>6, <1>7 DEF LTypes, LTypeOK, ListIsThere, HasItsFile, Meanings

(* What a step of one process leaves of the others.                         *)
LEMMA OneProcess ==
  ASSUME proc \in [Processes -> Runs], NEW p \in Processes, NEW new \in Runs, Step(p, new)
  PROVE  /\ proc' \in [Processes -> Runs] /\ proc'[p] = new
         /\ \A q \in Processes: q # p => proc'[q] = proc[q]
BY DEF Step

LEMMA LTypesStep == LTypes /\ [LNext]_lvars => LTypes'
<1> SUFFICES ASSUME LTypes, [LNext]_lvars PROVE LTypes'
  OBVIOUS
<1>1. /\ content \in [Files -> Hashes] /\ list \in Seq(Lines) \cup {Missing}
      /\ proc \in [Processes -> Runs] /\ recorded \subseteq Files \X Hashes
      /\ meant \in Meanings /\ calm \in BOOLEAN /\ events \in 0..MaxEvents
  BY DEF LTypes, LTypeOK, Meanings
<1>2. \A p \in Processes: proc[p] \in Runs
  BY <1>1
<1>3. ASSUME NEW p \in Processes, NEW new \in Runs, Step(p, new), list' \in Seq(Lines) \cup {Missing},
             list # Missing => list' # Missing,
             new.at \notin {"idle", "open"} => list' # Missing,
             new.at \in {"open", "read"} => new.file \in Files
      PROVE  proc' \in [Processes -> Runs] /\ ListIsThere' /\ HasItsFile'
  BY <1>1, <1>3, OneProcess DEF LTypes, ListIsThere, HasItsFile
<1>4. <<>> \in Seq(Lines) /\ Missing \notin Seq(Lines)
  BY MissingIsNoList
<1>5. Idle \in Runs
  BY IdleIsARun
<1>6. ASSUME NEW p \in Processes, proc[p].at \notin {"idle", "open"}
      PROVE  list \in Seq(Lines) /\ list # Missing
  BY <1>1, <1>4, <1>6 DEF LTypes, ListIsThere
<1>7. ASSUME NEW p \in Processes, NEW f \in Files, TestStart(p, f) PROVE LTypes'
  <2> DEFINE new == IF content[f] = 0 THEN [Idle EXCEPT !.exit = 1]
                    ELSE [Idle EXCEPT !.at = "open", !.test = TRUE, !.file = f, !.hash = content[f]]
  <2>1. new \in Runs /\ new.at \in {"idle", "open"}
    <3>1. 1 \in -1..1 /\ content[f] \in Hashes
      BY <1>1
    <3> QED
      BY <1>1, <1>5, <3>1 DEF Idle, Runs
  <2>3. new.at = "open" => new.file \in Files
    BY DEF Idle
  <2>2. Step(p, new) /\ events < MaxEvents /\ events' = events + 1 /\ calm' \in BOOLEAN
        /\ UNCHANGED <<content, list, recorded, meant>>
    BY <1>7, <1>1 DEF TestStart, Begins
  <2>4. events' \in 0..MaxEvents
    BY <1>1, <2>2, EventsAreBounded
  <2> HIDE DEF new
  <2>5. proc' \in [Processes -> Runs] /\ ListIsThere' /\ HasItsFile'
    BY <1>1, <1>3, <2>1, <2>2, <2>3
  <2> QED
    BY <1>1, <2>2, <2>4, <2>5 DEF LTypes, LTypeOK, Meanings
<1>8. ASSUME NEW p \in Processes, TestOpen(p) PROVE LTypes'
  <2> DEFINE lines == IF list = Missing THEN <<>> ELSE list
             new == [proc[p] EXCEPT !.at = "read", !.todo = lines]
  <2>1. lines \in Seq(Lines) /\ lines # Missing
    BY <1>1, <1>4
  <2>2. list' = lines /\ Step(p, new) /\ UNCHANGED <<content, recorded, meant, calm, events>>
    BY <1>8 DEF TestOpen
  <2>3. new \in Runs /\ new.file \in Files
    BY <1>2, <1>8, <2>1 DEF Runs, TestOpen, LTypes, HasItsFile
  <2> HIDE DEF new, lines
  <2> QED
    BY <1>1, <1>3, <2>1, <2>2, <2>3 DEF LTypes, LTypeOK, Meanings
<1>9. ASSUME NEW p \in Processes, TestLine(p) PROVE LTypes'
  <2> DEFINE me == proc[p]
             line == Head(me.todo)
             one == [me EXCEPT !.at = "overwrite", !.temp = me.temp \o me.todo, !.todo = <<>>]
             two == [me EXCEPT !.todo = Tail(me.todo),
                               !.temp = IF IsOf(line, me.file) THEN me.temp ELSE Append(me.temp, line)]
  <2>1. me \in Runs /\ me.at = "read" /\ me.todo # <<>> /\ me.todo \in Seq(Lines) /\ me.temp \in Seq(Lines)
    BY <1>2, <1>9, RunTypes DEF TestLine
  <2>2. /\ line \in Lines /\ Tail(me.todo) \in Seq(Lines) /\ me.temp \o me.todo \in Seq(Lines)
        /\ Append(me.temp, line) \in Seq(Lines)
    BY <2>1
  <2>3. one \in Runs /\ two \in Runs /\ one.at = "overwrite" /\ two.file \in Files
    BY <2>1, <2>2, <1>4 DEF Runs, LTypes, HasItsFile
  <2>4. /\ Step(p, IF Same(line, me.file, me.hash) THEN one ELSE two)
        /\ UNCHANGED <<content, list, recorded, meant, calm, events>>
    BY <1>9 DEF TestLine
  <2>5. list \in Seq(Lines) /\ list # Missing
    BY <1>6, <2>1
  <2> HIDE DEF one, two, line
  <2> QED
    BY <1>1, <1>3, <2>3, <2>4, <2>5 DEF LTypes, LTypeOK, Meanings
<1>10. ASSUME NEW p \in Processes, TestEnd(p) PROVE LTypes'
  <2> DEFINE me == proc[p]
             new == [me EXCEPT !.at = "truncate", !.temp = Append(me.temp, Entry(me.file, me.hash))]
  <2>1. me \in Runs /\ me.at = "read" /\ me.temp \in Seq(Lines) /\ me.hash \in Hashes
    BY <1>2, <1>10, RunTypes DEF TestEnd
  <2>2. me.file \in Files /\ list \in Seq(Lines) /\ list # Missing
    BY <1>6, <2>1 DEF LTypes, HasItsFile
  <2>3. Entry(me.file, me.hash) \in Lines
    BY <2>1, <2>2 DEF Entry, Lines
  <2>4. new \in Runs /\ new.at = "truncate"
    <3>1. Append(me.temp, Entry(me.file, me.hash)) \in Seq(Lines)
      BY <2>1, <2>3
    <3> QED
      BY <2>1, <3>1 DEF Runs
  <2>5. /\ Step(p, new) /\ recorded' = recorded \cup {<<me.file, me.hash>>}
        /\ meant' = More(meant, me.file, me.hash) /\ UNCHANGED <<content, list, calm, events>>
    BY <1>10 DEF TestEnd, With, More
  <2>6. meant' \in Meanings
    BY <1>1, <2>1, <2>2, <2>5, MeantTypes
  <2> HIDE DEF new, me
  <2> QED
    BY <1>1, <1>3, <2>1, <2>2, <2>4, <2>5, <2>6 DEF LTypes, LTypeOK, Meanings
<1>11. ASSUME NEW p \in Processes, NEW status \in 0..1, proc[p].at # "idle",
              Exits(p, status), list' \in Seq(Lines) \cup {Missing}, list # Missing => list' # Missing,
              UNCHANGED <<content, recorded, meant, calm, events>>
       PROVE  LTypes'
  <2> DEFINE new == [proc[p] EXCEPT !.at = "idle", !.exit = status, !.todo = <<>>, !.temp = <<>>]
  <2>1. new \in Runs /\ new.at = "idle" /\ Step(p, new)
    <3>1. status \in -1..1
      BY <1>11
    <3> QED
      BY <1>2, <1>4, <1>11, <3>1 DEF Runs, Exits
  <2> HIDE DEF new
  <2> QED
    BY <1>1, <1>3, <1>11, <2>1 DEF LTypes, LTypeOK, Meanings
<1>12. ASSUME NEW p \in Processes, TestOverwrite(p) \/ Write(p) PROVE LTypes'
  <2>1. /\ proc[p].at \in {"overwrite", "write"} /\ list' = Over(list, proc[p].temp)
        /\ \E status \in 0..1: Exits(p, status)
        /\ UNCHANGED <<content, recorded, meant, calm, events>>
    BY <1>12 DEF TestOverwrite, Write
  <2>2. list \in Seq(Lines) /\ proc[p].temp \in Seq(Lines)
    BY <1>2, <1>6, <2>1, RunTypes
  <2>3. list' \in Seq(Lines)
    BY <2>1, <2>2, OverIsAList
  <2> QED
    BY <1>4, <1>11, <2>1, <2>3
<1>13. ASSUME NEW p \in Processes, UpdateStart(p) PROVE LTypes'
  <2> DEFINE new == IF list = Missing THEN [Idle EXCEPT !.exit = 1]
                    ELSE [Idle EXCEPT !.at = "hash", !.todo = list]
  <2>1. new \in Runs /\ new.at \in {"idle", "hash"} /\ (new.at = "hash" => list # Missing)
    <3>1. 1 \in -1..1 /\ list \in Seq(Lines) \cup {Missing}
      BY <1>1
    <3> QED
      BY <1>1, <1>5, <3>1 DEF Idle, Runs
  <2>2. /\ Step(p, new) /\ events < MaxEvents /\ events' = events + 1 /\ calm' \in BOOLEAN
        /\ UNCHANGED <<content, list, recorded, meant>>
    BY <1>13, <1>1 DEF UpdateStart, Begins
  <2>4. events' \in 0..MaxEvents
    BY <1>1, <2>2, EventsAreBounded
  <2> HIDE DEF new
  <2>5. proc' \in [Processes -> Runs] /\ ListIsThere' /\ HasItsFile'
    BY <1>1, <1>3, <2>1, <2>2
  <2> QED
    BY <1>1, <2>2, <2>4, <2>5 DEF LTypes, LTypeOK, Meanings
<1>14. ASSUME NEW p \in Processes, UpdateLine(p) PROVE LTypes'
  <2> DEFINE me == proc[p]
             line == Head(me.todo)
             now == content[line.name]
             new(lines) == [me EXCEPT !.todo = Tail(me.todo), !.temp = me.temp \o lines,
                                      !.exit = IF lines = <<line>> THEN me.exit ELSE 0]
  <2>1. /\ me \in Runs /\ me.at = "hash" /\ me.todo # <<>> /\ me.todo \in Seq(Lines)
        /\ me.temp \in Seq(Lines) /\ me.exit \in -1..1
    BY <1>2, <1>14, RunTypes DEF UpdateLine
  <2>2. line \in Lines /\ Tail(me.todo) \in Seq(Lines)
    BY <2>1
  <2>3. line # Other => line.name \in Files /\ now \in Hashes /\ Entry(line.name, now) \in Lines
    BY <1>1, <2>2, LineKinds
  <2>4. ASSUME NEW lines \in Seq(Lines) PROVE new(lines) \in Runs /\ new(lines).at = "hash"
    <3> DEFINE exit == IF lines = <<line>> THEN me.exit ELSE 0
    <3>1. me.temp \o lines \in Seq(Lines) /\ exit \in -1..1
      BY <2>1
    <3> HIDE DEF exit
    <3>2. [me EXCEPT !.todo = Tail(me.todo), !.temp = me.temp \o lines, !.exit = exit] \in Runs
      BY <2>1, <2>2, <3>1 DEF Runs
    <3>3. new(lines) = [me EXCEPT !.todo = Tail(me.todo), !.temp = me.temp \o lines, !.exit = exit]
      BY DEF exit
    <3> QED
      BY <2>1, <3>2, <3>3 DEF Runs
  <2>5. \/ /\ line = Other
           /\ Step(p, new(<<line>>)) /\ UNCHANGED <<recorded, meant>>
        \/ /\ line # Other
           /\ Step(p, new(<<>>)) /\ meant' = Less(meant, line.name) /\ UNCHANGED recorded
        \/ /\ line # Other
           /\ Step(p, new(<<Entry(line.name, now)>>)) /\ meant' = More(meant, line.name, now)
           /\ recorded' = recorded \cup {<<line.name, now>>}
    BY <1>14 DEF UpdateLine, Less, More, With, Without
  <2>6. UNCHANGED <<content, list, calm, events>> /\ list \in Seq(Lines) /\ list # Missing
    BY <1>6, <1>14, <2>1 DEF UpdateLine
  <2>7. (\E lines \in Seq(Lines): Step(p, new(lines))) /\ meant' \in Meanings
        /\ recorded' \subseteq Files \X Hashes
    <3>1. /\ <<>> \in Seq(Lines) /\ <<line>> \in Seq(Lines)
          /\ line # Other => <<Entry(line.name, now)>> \in Seq(Lines)
      BY <2>2, <2>3
    <3>2. line # Other => /\ Less(meant, line.name) \in Meanings
                          /\ More(meant, line.name, now) \in Meanings
      BY <1>1, <2>3, MeantTypes, HashAssumption
    <3>3. line # Other => recorded \cup {<<line.name, now>>} \subseteq Files \X Hashes
      BY <1>1, <2>3
    <3>4. (\E lines \in Seq(Lines): Step(p, new(lines)))
      <4> HIDE DEF new, now, line
      <4> QED
        BY <2>5, <3>1
    <3> HIDE DEF new, now, line
    <3> QED
      BY <1>1, <2>5, <3>2, <3>3, <3>4
  <2> HIDE DEF new, now, line
  <2>8. PICK lines \in Seq(Lines): Step(p, new(lines))
    BY <2>7
  <2>9. proc' \in [Processes -> Runs] /\ ListIsThere' /\ HasItsFile'
    BY <1>3, <2>4, <2>6, <2>8
  <2> QED
    BY <1>1, <2>6, <2>7, <2>9 DEF LTypes, LTypeOK, Meanings
<1>15. ASSUME NEW p \in Processes, NEW at \in {"truncate", "write"}, proc[p].at \notin {"idle", "open"},
              Step(p, [proc[p] EXCEPT !.at = at]), list' \in {list, <<>>},
              UNCHANGED <<content, recorded, meant, calm, events>>
       PROVE  LTypes'
  <2> DEFINE new == [proc[p] EXCEPT !.at = at]
  <2>1. new \in Runs /\ new.at = at
    BY <1>2 DEF Runs
  <2>2. list' \in Seq(Lines) /\ list' # Missing
    BY <1>4, <1>6, <1>15
  <2> HIDE DEF new
  <2>3. proc' \in [Processes -> Runs] /\ ListIsThere' /\ HasItsFile'
    <3>1. new.at \notin {"open", "read"} /\ Step(p, new)
      BY <1>15, <2>1 DEF new
    <3> QED
      BY <1>3, <2>1, <2>2, <3>1
  <2> QED
    BY <1>1, <1>15, <2>2, <2>3 DEF LTypes, LTypeOK, Meanings
<1>16. ASSUME NEW p \in Processes, UpdateEnd(p) PROVE LTypes'
  <2>1. CASE proc[p].exit = -1
    BY <1>1, <1>11, <1>16, <2>1 DEF UpdateEnd
  <2>2. CASE proc[p].exit # -1
    BY <1>15, <1>16, <2>2 DEF UpdateEnd
  <2> QED
    BY <2>1, <2>2
<1>17. ASSUME NEW p \in Processes, Truncate(p) PROVE LTypes'
  BY <1>15, <1>17 DEF Truncate
<1>18. ASSUME NEW p \in Processes, Kill(p) PROVE LTypes'
  <2>1. Idle.at = "idle"
    BY DEF Idle
  <2>2. Step(p, Idle) /\ calm' = FALSE /\ UNCHANGED <<content, list, recorded, meant, events>>
    BY <1>18 DEF Kill
  <2> QED
    BY <1>1, <1>3, <1>5, <2>1, <2>2 DEF LTypes, LTypeOK, Meanings
<1>19. ASSUME NEW f \in Files, NEW h \in Hashes, Modify(f, h) PROVE LTypes'
  <2>1. /\ content' \in [Files -> Hashes] /\ events < MaxEvents /\ events' = events + 1
        /\ UNCHANGED <<list, proc, recorded, meant, calm>>
    BY <1>1, <1>19 DEF Modify
  <2>2. events' \in 0..MaxEvents
    BY <1>1, <2>1, EventsAreBounded
  <2>3. ListIsThere' /\ HasItsFile'
    BY <2>1 DEF LTypes, ListIsThere, HasItsFile
  <2> QED
    BY <1>1, <2>1, <2>2, <2>3 DEF LTypes, LTypeOK, Meanings
<1>20. CASE UNCHANGED lvars
  BY <1>20 DEF lvars, LTypes, LTypeOK, ListIsThere, HasItsFile
<1> QED
  BY <1>7, <1>8, <1>9, <1>10, <1>12, <1>13, <1>14, <1>16, <1>17, <1>18, <1>19, <1>20 DEF LNext

(* Whatever fnvtest, fnvupdate and those who end them or change the files   *)
(* do, the list, the buffers and the histories keep their types.            *)
THEOREM HashTypes == LSpec => []LTypeOK
<1>1. LTypes => LTypeOK
  BY DEF LTypes
<1> QED
  BY <1>1, LTypesInit, LTypesStep, PTL DEF LSpec

-----------------------------------------------------------------------------
(* The list is true.                                                        *)
LEMMA PairsOfOver ==
  ASSUME NEW s \in Seq(Lines), NEW t \in Seq(Lines)
  PROVE  Pairs(Over(s, t)) \subseteq Pairs(s) \cup Pairs(t)
<1> DEFINE rest == SubSeq(s, Len(t) + 1, Len(s))
<1>1. rest \in Seq(Lines)
  OBVIOUS
<1>2. Pairs(rest) \subseteq Pairs(s)
  <2> SUFFICES ASSUME NEW x \in Pairs(rest) PROVE x \in Pairs(s)
    OBVIOUS
  <2>1. PICK k \in DOMAIN rest: rest[k] # Other /\ x = <<rest[k].name, rest[k].hash>>
    BY InPairs
  <2>2. Len(t) + k \in DOMAIN s /\ rest[k] = s[Len(t) + k]
    <3>1. /\ Len(s) \in Nat /\ Len(t) \in Nat /\ DOMAIN rest = 1..Len(rest)
          /\ Len(rest) = IF Len(t) + 1 <= Len(s) THEN Len(s) - Len(t) ELSE 0
      BY <1>1
    <3>2. k \in Nat /\ k >= 1 /\ Len(t) + k <= Len(s)
      BY <3>1
    <3> QED
      BY <3>1, <3>2
  <2> HIDE DEF rest
  <2> QED
    BY <2>1, <2>2, InPairs
<1> QED
  BY <1>1, <1>2, PairsOfConcat DEF Over

(* A list that is not empty is its first line and the rest.                 *)
LEMMA HeadAndTail ==
  ASSUME NEW s \in Seq(Lines), NEW t \in Seq(Lines), t # <<>>
  PROVE  /\ Head(t) \in Lines /\ Tail(t) \in Seq(Lines) /\ <<Head(t)>> \in Seq(Lines)
         /\ s \o t = (s \o <<Head(t)>>) \o Tail(t) /\ Append(s, Head(t)) = s \o <<Head(t)>>
         /\ Pairs(t) = Pairs(<<Head(t)>>) \cup Pairs(Tail(t))
<1>1. /\ Head(t) \in Lines /\ Tail(t) \in Seq(Lines) /\ <<Head(t)>> \in Seq(Lines)
      /\ t = <<Head(t)>> \o Tail(t)
  OBVIOUS
<1>2. s \o (<<Head(t)>> \o Tail(t)) = (s \o <<Head(t)>>) \o Tail(t)
  BY <1>1
<1>3. Append(s, Head(t)) = s \o <<Head(t)>>
  BY <1>1
<1>4. Pairs(<<Head(t)>> \o Tail(t)) = Pairs(<<Head(t)>>) \cup Pairs(Tail(t))
  BY <1>1, PairsOfConcat
<1> QED
  BY <1>1, <1>2, <1>3, <1>4

LEMMA NoneOfConcat ==
  ASSUME NEW s \in Seq(Lines), NEW t \in Seq(Lines), NEW f
  PROVE  NoneOf(s \o t, f) <=> NoneOf(s, f) /\ NoneOf(t, f)
<1>1. Pairs(s \o t) = Pairs(s) \cup Pairs(t) /\ s \o t \in Seq(Lines)
  BY PairsOfConcat
<1> QED
  BY <1>1, PairsOfNoneOf

(* What was there at first is what was entered.                             *)
LEMMA LInvInit == LInit => LInv
<1> SUFFICES ASSUME LInit PROVE LInv
  OBVIOUS
<1> DEFINE lines == Seen(list)
           hash(f) == CHOOSE h \in Hashes: <<f, h>> \in Pairs(lines)
<1>1. /\ list \in Lists \cup {Missing} /\ proc = [p \in Processes |-> Idle]
      /\ recorded = Pairs(lines)
      /\ meant = [hash |-> [f \in {x[1]: x \in recorded} |-> hash(f)], others |-> Others(lines)]
  BY DEF LInit, Seen
<1>2. lines \in Seq(Lines)
  BY <1>1, HashAssumption, IdleIsARun DEF Seen
<1>3. \A j, k \in DOMAIN lines: lines[j].name = lines[k].name /\ j # k => lines[j] = Other
  <2>1. \A j \in DOMAIN <<>>: FALSE
    OBVIOUS
  <2> QED
    BY <1>1, <2>1, HashAssumption DEF Seen
<1>4. ASSUME NEW x \in Pairs(lines) PROVE x = <<x[1], hash(x[1])>>
  <2>1. x \in Files \X Hashes
    BY <1>2, PairsTypes
  <2>2. x = <<x[1], x[2]>> /\ x[2] \in Hashes
    BY <2>1
  <2>3. hash(x[1]) \in Hashes /\ <<x[1], hash(x[1])>> \in Pairs(lines)
    BY <2>2
  <2>4. PICK j \in DOMAIN lines: lines[j] # Other /\ x = <<lines[j].name, lines[j].hash>>
    BY InPairs
  <2>5. PICK k \in DOMAIN lines: /\ lines[k] # Other
                                 /\ <<x[1], hash(x[1])>> = <<lines[k].name, lines[k].hash>>
    BY <2>3, InPairs
  <2> HIDE DEF hash, lines
  <2>6. lines[j].name = lines[k].name
    BY <2>2, <2>4, <2>5
  <2>7. j = k
    BY <1>3, <2>4, <2>6
  <2> QED
    BY <2>2, <2>4, <2>5, <2>7
<1>5. Tells(lines, meant)
  <2> HIDE DEF hash, lines
  <2>1. Pairs(lines) = {<<f, meant.hash[f]>>: f \in DOMAIN meant.hash}
    BY <1>1, <1>4
  <2> QED
    BY <1>1, <1>3, <2>1 DEF Tells
<1>6. \A p \in Processes: proc[p] = Idle
  BY <1>1
<1>7. Idle.at = "idle" /\ Idle.test = FALSE /\ Idle.temp = <<>>
  BY DEF Idle
<1> QED
  BY <1>1, <1>5, <1>6, <1>7, PairsOfNone DEF LInv, Entered, Undisturbed

(* A step of one process keeps the invariant if it does so for that process,*)
(* alone or not.                                                            *)
LEMMA LInvOfStep ==
  ASSUME LTypes, LInv, NEW p \in Processes, NEW new \in Runs, Step(p, new),
         recorded \subseteq recorded', Pairs(Seen(list')) \subseteq recorded',
         Entered(new, recorded'),
         calm' => calm /\ \A q \in Processes: q # p => proc[q].at = "idle",
         calm' => /\ new.at = "idle" => Tells(Seen(list'), meant')
                  /\ Undisturbed(new, list', meant')
  PROVE  LInv'
<1>1. proc \in [Processes -> Runs]
  BY DEF LTypes, LTypeOK
<1>2. proc'[p] = new /\ \A q \in Processes: q # p => proc'[q] = proc[q]
  BY <1>1, OneProcess
<1>3. ASSUME NEW q \in Processes PROVE Entered(proc'[q], recorded')
  <2>1. CASE q = p
    BY <1>2, <2>1
  <2>2. CASE q # p
    BY <1>2, <2>2 DEF LInv, Entered
  <2> QED
    BY <2>1, <2>2
<1>4. ASSUME calm', NEW q \in Processes, q # p
      PROVE  proc'[q].at = "idle" /\ Undisturbed(proc'[q], list', meant')
  BY <1>2, <1>4 DEF Undisturbed
<1>5. ASSUME calm' PROVE \A q \in Processes: Undisturbed(proc'[q], list', meant')
  BY <1>2, <1>4, <1>5
<1>6. ASSUME calm', Quiet' PROVE Tells(Seen(list'), meant')
  BY <1>2, <1>6 DEF Quiet
<1>7. ASSUME calm', NEW q \in Processes, NEW r \in Processes, q # r
      PROVE  "idle" \in {proc'[q].at, proc'[r].at}
  BY <1>4, <1>7
<1> QED
  BY <1>3, <1>5, <1>6, <1>7 DEF LInv

LEMMA LInvStep == LTypes /\ LInv /\ [LNext]_lvars => LInv'
<1> SUFFICES ASSUME LTypes, LInv, [LNext]_lvars PROVE LInv'
  OBVIOUS
<1>1. /\ list \in Seq(Lines) \cup {Missing} /\ content \in [Files -> Hashes]
      /\ proc \in [Processes -> Runs] /\ meant \in Meanings
  BY DEF LTypes, LTypeOK, Meanings
<1>2. LTypes'
  BY LTypesStep
<1>3. ASSUME NEW p \in Processes
      PROVE  /\ proc[p] \in Runs /\ proc[p].todo \in Seq(Lines) /\ proc[p].temp \in Seq(Lines)
             /\ proc'[p] \in Runs
             /\ Entered(proc[p], recorded)
             /\ calm => Undisturbed(proc[p], list, meant)
             /\ proc[p].at \notin {"idle", "open"} => list \in Seq(Lines) /\ list # Missing
             /\ proc[p].at # "idle" /\ calm => \A q \in Processes: q # p => proc[q].at = "idle"
  BY <1>1, <1>2, RunTypes DEF LInv, LTypes, LTypeOK, ListIsThere
<1>4. <<>> \in Seq(Lines) /\ Missing \notin Seq(Lines) /\ Idle \in Runs /\ Idle.at = "idle"
  BY MissingIsNoList, IdleIsARun
<1>5. ASSUME NEW p \in Processes, NEW new, Step(p, new)
      PROVE  proc'[p] = new /\ new \in Runs
  BY <1>1, <1>2, <1>5 DEF Step, LTypes, LTypeOK
<1>6. Pairs(Seen(list)) \subseteq recorded /\ Pairs(<<>>) = {}
      /\ (calm => (Quiet => Tells(Seen(list), meant)))
  BY PairsOfNone DEF LInv
<1>7. \A s \in Seq(Lines): Seen(s) = s
  BY <1>4 DEF Seen
<1>8. ASSUME NEW p \in Processes, NEW f \in Files, TestStart(p, f) PROVE LInv'
  <2> DEFINE new == IF content[f] = 0 THEN [Idle EXCEPT !.exit = 1]
                    ELSE [Idle EXCEPT !.at = "open", !.test = TRUE, !.file = f, !.hash = content[f]]
  <2>1. /\ proc[p].at = "idle" /\ Step(p, new)
        /\ calm' = (calm /\ \A q \in Processes: proc[q].at = "idle")
        /\ UNCHANGED <<content, list, recorded, meant>>
    BY <1>8 DEF TestStart, Begins
  <2>2. /\ new.temp = <<>> /\ new.at \in {"idle", "open"}
        /\ new.at = "idle" => ~new.test
    BY DEF Idle
  <2>3. new \in Runs
    BY <1>5, <2>1
  <2>4. calm' => calm /\ Quiet
    BY <2>1 DEF Quiet
  <2> HIDE DEF new
  <2>5. Entered(new, recorded')
    BY <1>6, <2>2 DEF Entered
  <2>6. calm' => Tells(Seen(list'), meant') /\ Undisturbed(new, list', meant')
    BY <1>6, <2>1, <2>2, <2>4 DEF Undisturbed
  <2> QED
    BY <1>6, <2>1, <2>3, <2>5, <2>6, LInvOfStep
<1>9. ASSUME NEW p \in Processes, TestOpen(p) PROVE LInv'
  <2> DEFINE lines == Seen(list)
             new == [proc[p] EXCEPT !.at = "read", !.todo = lines]
  <2>1. /\ proc[p].at = "open" /\ list' = lines /\ Step(p, new)
        /\ UNCHANGED <<content, recorded, meant, calm, events>>
    BY <1>9 DEF TestOpen, Seen
  <2>2. lines \in Seq(Lines) /\ Seen(list') = lines
    BY <1>1, <1>4, <1>7, <2>1 DEF Seen
  <2>3. new \in Runs
    BY <1>5, <2>1
  <2>4. new.at = "read" /\ new.todo = lines /\ new.temp = proc[p].temp /\ new.file = proc[p].file
    BY <1>3 DEF Runs
  <2> HIDE DEF new, lines
  <2>5. Entered(new, recorded')
    BY <1>3, <1>6, <2>1, <2>4 DEF Entered, lines
  <2>6. calm' => calm /\ \A q \in Processes: q # p => proc[q].at = "idle"
    BY <1>3, <2>1
  <2>7. ASSUME calm' PROVE Undisturbed(new, list', meant')
    <3>1. Tells(lines, meant) /\ proc[p].temp = <<>>
      BY <1>3, <2>1, <2>7 DEF Undisturbed, lines
    <3>2. <<>> \o lines = lines /\ NoneOf(<<>>, new.file)
      BY <2>2 DEF NoneOf
    <3> QED
      BY <2>1, <2>4, <3>1, <3>2 DEF Undisturbed
  <2> QED
    BY <1>6, <2>1, <2>2, <2>3, <2>4, <2>5, <2>6, <2>7, LInvOfStep DEF lines
<1>10. ASSUME NEW p \in Processes, TestLine(p) PROVE LInv'
  <2> DEFINE me == proc[p]
             line == Head(me.todo)
             one == [me EXCEPT !.at = "overwrite", !.temp = me.temp \o me.todo, !.todo = <<>>]
             two == [me EXCEPT !.todo = Tail(me.todo),
                               !.temp = IF IsOf(line, me.file) THEN me.temp ELSE Append(me.temp, line)]
             new == IF Same(line, me.file, me.hash) THEN one ELSE two
  <2>1. /\ me.at = "read" /\ me.todo # <<>> /\ Step(p, new)
        /\ UNCHANGED <<content, list, recorded, meant, calm, events>>
    BY <1>10 DEF TestLine
  <2>2. /\ me.todo \in Seq(Lines) /\ me.temp \in Seq(Lines) /\ new \in Runs
        /\ list \in Seq(Lines) /\ Seen(list) = list
    BY <1>3, <1>5, <1>7, <2>1
  <2>3. /\ line \in Lines /\ Tail(me.todo) \in Seq(Lines) /\ <<line>> \in Seq(Lines)
        /\ me.temp \o me.todo = (me.temp \o <<line>>) \o Tail(me.todo)
        /\ Append(me.temp, line) = me.temp \o <<line>>
        /\ Pairs(me.todo) = Pairs(<<line>>) \cup Pairs(Tail(me.todo))
    BY <2>1, <2>2, HeadAndTail
  <2>4. /\ one.at = "overwrite" /\ one.temp = me.temp \o me.todo /\ one.file = me.file /\ one.hash = me.hash
        /\ two.at = "read" /\ two.todo = Tail(me.todo) /\ two.file = me.file
        /\ two.temp = IF IsOf(line, me.file) THEN me.temp ELSE me.temp \o <<line>>
    BY <1>3, <2>1, <2>3 DEF Runs
  <2>5. Pairs(me.temp) \subseteq recorded /\ Pairs(me.todo) \subseteq recorded
    BY <1>3, <2>1 DEF Entered
  <2>6. /\ Pairs(me.temp \o me.todo) = Pairs(me.temp) \cup Pairs(me.todo)
        /\ Pairs(me.temp \o <<line>>) = Pairs(me.temp) \cup Pairs(<<line>>)
    BY <2>2, <2>3, PairsOfConcat
  <2>7. line # Other => <<line.name, line.hash>> \in Pairs(me.todo)
    BY <2>3, PairsOfLine
  <2> HIDE DEF line, one, two
  <2>8. Entered(one, recorded) \/ ~Same(line, me.file, me.hash)
    BY <2>4, <2>5, <2>6, <2>7 DEF Entered, Same, IsOf
  <2>9. Entered(two, recorded)
    BY <2>3, <2>4, <2>5, <2>6 DEF Entered
  <2>10. calm' => calm /\ \A q \in Processes: q # p => proc[q].at = "idle"
    BY <1>3, <2>1
  <2>11. ASSUME calm PROVE Undisturbed(new, list, meant)
    <3>1. /\ Tells(list, meant) /\ NoneOf(me.temp, me.file)
          /\ \/ me.temp \o me.todo = list
             \/ Tells(me.temp \o me.todo, Less(meant, me.file))
      BY <1>3, <2>1, <2>11 DEF Undisturbed
    <3>2. CASE IsOf(line, me.file)
      <4>1. ~Tells(me.temp \o me.todo, Less(meant, me.file))
        <5>1. ASSUME Tells(me.temp \o me.todo, Less(meant, me.file)) PROVE FALSE
          <6>1. me.temp \o me.todo \in Seq(Lines)
            BY <2>2
          <6>2. NoneOf(me.temp \o me.todo, me.file)
            BY <1>1, <5>1, <6>1, NotMeant
          <6>3. NoneOf(me.temp \o <<line>>, me.file)
            <7>1. me.temp \o <<line>> \in Seq(Lines)
              BY <2>2, <2>3
            <7>2. NoneOf((me.temp \o <<line>>) \o Tail(me.todo), me.file)
              BY <2>3, <6>2
            <7> HIDE DEF me
            <7> QED
              BY <2>3, <7>1, <7>2, NoneOfConcat
          <6>4. NoneOf(<<line>>, me.file)
            BY <2>2, <2>3, <6>3, NoneOfConcat
          <6>5. DOMAIN <<line>> = {1} /\ <<line>>[1] = line
            OBVIOUS
          <6> QED
            BY <3>2, <6>4, <6>5 DEF NoneOf
        <5> QED
          BY <5>1
      <4>2. me.temp \o me.todo = list
        BY <3>1, <4>1
      <4>3. CASE Same(line, me.file, me.hash)
        BY <2>4, <3>1, <4>2, <4>3 DEF Undisturbed
      <4>4. CASE ~Same(line, me.file, me.hash)
        <5>1. line # Other /\ line.name = me.file
          BY <3>2 DEF IsOf
        <5>2. Tells((me.temp \o <<line>>) \o Tail(me.todo), meant)
          BY <2>3, <3>1, <4>2
        <5>3. Tells(me.temp \o Tail(me.todo), Less(meant, me.file))
          BY <1>1, <2>2, <2>3, <5>1, <5>2, EntryRemoved
        <5> QED
          BY <2>4, <3>1, <3>2, <4>4, <5>3 DEF Undisturbed
      <4> QED
        BY <4>3, <4>4
    <3>3. CASE ~IsOf(line, me.file)
      <4>1. DOMAIN <<line>> = {1} /\ <<line>>[1] = line
        OBVIOUS
      <4>2. NoneOf(me.temp \o <<line>>, me.file)
        BY <2>2, <2>3, <3>1, <3>3, <4>1, NoneOfConcat DEF NoneOf
      <4>3. new = two
        BY <3>3 DEF Same
      <4> QED
        BY <2>3, <2>4, <3>1, <3>3, <4>2, <4>3 DEF Undisturbed
    <3> QED
      BY <3>2, <3>3
  <2>12. new.at # "idle" /\ Entered(new, recorded)
    BY <2>4, <2>8, <2>9
  <2> HIDE DEF new
  <2> QED
    BY <1>6, <2>1, <2>2, <2>10, <2>11, <2>12, LInvOfStep
<1>11. ASSUME NEW p \in Processes, TestEnd(p) PROVE LInv'
  <2> DEFINE me == proc[p]
             new == [me EXCEPT !.at = "truncate", !.temp = Append(me.temp, Entry(me.file, me.hash))]
  <2>1. /\ me.at = "read" /\ me.todo = <<>> /\ Step(p, new)
        /\ recorded' = recorded \cup {<<me.file, me.hash>>} /\ meant' = More(meant, me.file, me.hash)
        /\ UNCHANGED <<content, list, calm, events>>
    BY <1>11 DEF TestEnd, With, More
  <2>2. /\ me.temp \in Seq(Lines) /\ me.file \in Files /\ me.hash \in Hashes /\ new \in Runs
        /\ list \in Seq(Lines)
    BY <1>3, <1>5, <2>1, RunTypes DEF LTypes, HasItsFile
  <2>3. LET x == Entry(me.file, me.hash) IN
        /\ <<x>> \in Seq(Lines) /\ x # Other /\ x.name = me.file /\ x.hash = me.hash
        /\ Append(me.temp, x) = me.temp \o <<x>> /\ (me.temp \o <<x>>) \o <<>> = me.temp \o <<x>>
    <3>1. Entry(me.file, me.hash) \in Lines
      BY <2>2 DEF Entry, Lines
    <3>2. Entry(me.file, me.hash) # Other
      BY <2>2, HashAssumption DEF Entry, Other
    <3> HIDE DEF me
    <3> QED
      BY <2>2, <3>1, <3>2, SMTT(30) DEF Entry
  <2>4. new.at = "truncate" /\ new.temp = me.temp \o <<Entry(me.file, me.hash)>>
    BY <1>3, <2>3 DEF Runs
  <2> HIDE DEF new
  <2>5. Pairs(new.temp) \subseteq recorded'
    <3>1. Pairs(new.temp) = Pairs(me.temp) \cup Pairs(<<Entry(me.file, me.hash)>>)
      BY <2>2, <2>3, <2>4, PairsOfConcat
    <3>2. Pairs(<<Entry(me.file, me.hash)>>) = {<<me.file, me.hash>>}
      BY <2>3, PairsOfLine
    <3> QED
      BY <1>3, <2>1, <3>1, <3>2 DEF Entered
  <2>6. Entered(new, recorded')
    BY <2>4, <2>5 DEF Entered
  <2>7. calm' => calm /\ \A q \in Processes: q # p => proc[q].at = "idle"
    BY <1>3, <2>1
  <2>8. ASSUME calm' PROVE Undisturbed(new, list', meant')
    <3>1. /\ Tells(list, meant) /\ NoneOf(me.temp, me.file) /\ me.temp \o <<>> = me.temp
          /\ me.temp = list \/ Tells(me.temp, Less(meant, me.file))
      <4>1. me.temp \o <<>> = me.temp
        BY <2>2
      <4> QED
        BY <1>3, <2>1, <2>8, <4>1 DEF Undisturbed
    <3>2. Tells(me.temp, Less(meant, me.file))
      BY <1>1, <2>2, <3>1, NotInTheList
    <3> HIDE DEF me
    <3>3. Tells((me.temp \o <<Entry(me.file, me.hash)>>) \o <<>>, meant')
      BY <1>1, <1>4, <2>1, <2>2, <3>1, <3>2, EntryAdded
    <3> QED
      BY <2>3, <2>4, <3>3 DEF Undisturbed
  <2> QED
    BY <1>6, <2>1, <2>2, <2>4, <2>6, <2>7, <2>8, LInvOfStep
<1>12. ASSUME NEW p \in Processes, NEW status \in 0..1, proc[p].at # "idle", Exits(p, status),
              list' \in Seq(Lines), Pairs(list') \subseteq recorded,
              status = 0 /\ proc[p].test => <<proc[p].file, proc[p].hash>> \in recorded,
              calm => Tells(list', meant), UNCHANGED <<content, recorded, meant, calm, events>>
       PROVE  LInv'
  <2> DEFINE new == [proc[p] EXCEPT !.at = "idle", !.exit = status, !.todo = <<>>, !.temp = <<>>]
  <2>1. Step(p, new) /\ new \in Runs
    BY <1>5, <1>12 DEF Exits
  <2>2. /\ new.at = "idle" /\ new.temp = <<>> /\ new.exit = status /\ new.test = proc[p].test
        /\ new.file = proc[p].file /\ new.hash = proc[p].hash
    BY <1>3 DEF Runs
  <2> HIDE DEF new
  <2>3. Entered(new, recorded')
    BY <1>6, <1>12, <2>2 DEF Entered
  <2>4. calm' => calm /\ \A q \in Processes: q # p => proc[q].at = "idle"
    BY <1>3, <1>12
  <2>5. Undisturbed(new, list', meant')
    BY <2>2 DEF Undisturbed
  <2> QED
    BY <1>7, <1>12, <2>1, <2>2, <2>3, <2>4, <2>5, LInvOfStep
<1>13. ASSUME NEW p \in Processes, TestOverwrite(p) PROVE LInv'
  <2>1. /\ proc[p].at = "overwrite" /\ list' = Over(list, proc[p].temp) /\ Exits(p, 0)
        /\ UNCHANGED <<content, recorded, meant, calm, events>>
    BY <1>13 DEF TestOverwrite
  <2>2. list \in Seq(Lines) /\ proc[p].temp \in Seq(Lines) /\ Pairs(list) \subseteq recorded
    BY <1>3, <1>6, <1>7, <2>1
  <2>3. list' \in Seq(Lines) /\ Pairs(list') \subseteq Pairs(list) \cup Pairs(proc[p].temp)
    BY <2>1, <2>2, OverIsAList, PairsOfOver
  <2>4. Pairs(proc[p].temp) \subseteq recorded /\ <<proc[p].file, proc[p].hash>> \in recorded
    BY <1>3, <2>1 DEF Entered
  <2>5. ASSUME calm PROVE Tells(list', meant)
    <3>1. Tells(list, meant) /\ proc[p].temp = list
      BY <1>3, <2>1, <2>5 DEF Undisturbed
    <3> QED
      BY <2>1, <2>2, <3>1, OverItself
  <2>6. proc[p].at # "idle" /\ 0 \in 0..1 /\ Pairs(list') \subseteq recorded
    BY <2>1, <2>2, <2>3, <2>4
  <2> QED
    BY <1>12, <2>1, <2>3, <2>4, <2>5, <2>6
<1>14. ASSUME NEW p \in Processes, Write(p) PROVE LInv'
  <2> DEFINE status == IF proc[p].test THEN 1 ELSE 0
  <2>1. /\ proc[p].at = "write" /\ list' = Over(list, proc[p].temp) /\ Exits(p, status)
        /\ UNCHANGED <<content, recorded, meant, calm, events>>
    BY <1>14 DEF Write
  <2>2. list \in Seq(Lines) /\ proc[p].temp \in Seq(Lines) /\ Pairs(list) \subseteq recorded
    BY <1>3, <1>6, <1>7, <2>1
  <2>3. list' \in Seq(Lines) /\ Pairs(list') \subseteq Pairs(list) \cup Pairs(proc[p].temp)
    BY <2>1, <2>2, OverIsAList, PairsOfOver
  <2>4. Pairs(proc[p].temp) \subseteq recorded
    BY <1>3 DEF Entered
  <2>5. ASSUME calm PROVE Tells(list', meant)
    <3>1. Tells(proc[p].temp, meant) /\ list = <<>>
      BY <1>3, <2>1, <2>5 DEF Undisturbed
    <3> QED
      BY <2>1, <2>2, <3>1, OverItself
  <2>6. proc[p].at # "idle" /\ status \in 0..1 /\ Pairs(list') \subseteq recorded
    BY <2>1, <2>2, <2>3, <2>4
  <2>7. ~(status = 0 /\ proc[p].test)
    OBVIOUS
  <2> HIDE DEF status
  <2> QED
    BY <1>12, <2>1, <2>3, <2>5, <2>6, <2>7
<1>15. ASSUME NEW p \in Processes, UpdateStart(p) PROVE LInv'
  <2> DEFINE new == IF list = Missing THEN [Idle EXCEPT !.exit = 1]
                    ELSE [Idle EXCEPT !.at = "hash", !.todo = list]
  <2>1. /\ proc[p].at = "idle" /\ Step(p, new)
        /\ calm' = (calm /\ \A q \in Processes: proc[q].at = "idle")
        /\ UNCHANGED <<content, list, recorded, meant>>
    BY <1>15 DEF UpdateStart, Begins
  <2>2. /\ new.temp = <<>> /\ new.at \in {"idle", "hash"} /\ ~new.test
        /\ new.at = "hash" => list # Missing /\ new.todo = list
    BY DEF Idle
  <2>3. new \in Runs
    BY <1>5, <2>1
  <2>4. calm' => calm /\ Quiet
    BY <2>1 DEF Quiet
  <2> HIDE DEF new
  <2>5. Entered(new, recorded')
    BY <1>6, <2>2 DEF Entered
  <2>6. list # Missing => list \in Seq(Lines) /\ Seen(list) = list /\ <<>> \o list = list
    BY <1>1 DEF Seen
  <2>7. calm' => Tells(Seen(list'), meant') /\ Undisturbed(new, list', meant')
    BY <1>6, <2>1, <2>2, <2>4, <2>6 DEF Undisturbed
  <2> QED
    BY <1>6, <2>1, <2>3, <2>5, <2>7, LInvOfStep
<1>16. ASSUME NEW p \in Processes, UpdateLine(p) PROVE LInv'
  <2> DEFINE me == proc[p]
             line == Head(me.todo)
             now == content[line.name]
             new(lines) == [me EXCEPT !.todo = Tail(me.todo), !.temp = me.temp \o lines,
                                      !.exit = IF lines = <<line>> THEN me.exit ELSE 0]
  <2>1. /\ me.at = "hash" /\ me.todo # <<>>
        /\ UNCHANGED <<content, list, calm, events>>
        /\ \/ /\ line = Other
              /\ Step(p, new(<<line>>)) /\ UNCHANGED <<recorded, meant>>
           \/ /\ line # Other
              /\ Step(p, new(<<>>)) /\ meant' = Less(meant, line.name) /\ UNCHANGED recorded
           \/ /\ line # Other
              /\ Step(p, new(<<Entry(line.name, now)>>)) /\ meant' = More(meant, line.name, now)
              /\ recorded' = recorded \cup {<<line.name, now>>}
    BY <1>16 DEF UpdateLine, Less, More, With, Without
  <2>2. /\ me.todo \in Seq(Lines) /\ me.temp \in Seq(Lines)
        /\ list \in Seq(Lines) /\ Seen(list) = list /\ Pairs(me.temp) \subseteq recorded /\ ~me.test
    BY <1>3, <1>7, <2>1 DEF Entered
  <2>3. /\ line \in Lines /\ Tail(me.todo) \in Seq(Lines) /\ <<line>> \in Seq(Lines)
        /\ me.temp \o me.todo = (me.temp \o <<line>>) \o Tail(me.todo)
    BY <2>1, <2>2, HeadAndTail
  <2>4. line # Other => line.name \in Files /\ now \in Hashes
    BY <1>1, <2>3, LineKinds
  <2>5. \A lines: /\ new(lines).at = "hash" /\ new(lines).temp = me.temp \o lines
                  /\ new(lines).todo = Tail(me.todo) /\ new(lines).test = me.test
                  /\ new(lines).exit = IF lines = <<line>> THEN me.exit ELSE 0
    BY <1>3, <2>1 DEF Runs
  <2>6. calm' => calm /\ \A q \in Processes: q # p => proc[q].at = "idle"
    BY <1>3, <2>1
  <2>7. calm => /\ Tells((me.temp \o <<line>>) \o Tail(me.todo), meant)
                /\ me.exit = -1 => (me.temp \o <<line>>) \o Tail(me.todo) = list
    BY <1>3, <2>1, <2>3 DEF Undisturbed
  <2>8. ASSUME NEW lines \in Seq(Lines), Step(p, new(lines)),
               recorded \subseteq recorded', Pairs(lines) \subseteq recorded',
               calm => /\ Tells((me.temp \o lines) \o Tail(me.todo), meant')
                       /\ lines = <<line>> /\ me.exit = -1
                            => (me.temp \o lines) \o Tail(me.todo) = list
        PROVE  LInv'
    <3>1. new(lines) \in Runs
      BY <1>5, <2>8
    <3>2. Pairs(new(lines).temp) = Pairs(me.temp) \cup Pairs(lines)
      BY <2>2, <2>5, <2>8, PairsOfConcat
    <3> DEFINE one == new(lines)
    <3>3. /\ one.at = "hash" /\ one.temp = me.temp \o lines /\ one.todo = Tail(me.todo) /\ ~one.test
          /\ one.exit = -1 => lines = <<line>> /\ me.exit = -1
      BY <2>2, <2>5
    <3>4. Pairs(one.temp) \subseteq recorded'
      BY <2>2, <2>8, <3>2
    <3>5. Step(p, one) /\ one \in Runs
      BY <2>8, <3>1
    <3> HIDE DEF one, new, me, line
    <3>6. Entered(one, recorded')
      BY <3>3, <3>4 DEF Entered
    <3>7. calm' => Undisturbed(one, list', meant')
      BY <2>1, <2>8, <3>3 DEF Undisturbed
    <3> QED
      BY <1>6, <2>1, <2>2, <2>6, <2>8, <3>3, <3>5, <3>6, <3>7, LInvOfStep
  <2> HIDE DEF new, now
  <2>9. CASE /\ line = Other
             /\ Step(p, new(<<line>>)) /\ UNCHANGED <<recorded, meant>>
    <3>1. Pairs(<<line>>) = {}
      BY <2>9, PairsOfLine
    <3> QED
      BY <2>3, <2>7, <2>8, <2>9, <3>1
  <2>10. ASSUME line # Other, calm
         PROVE  Tells(me.temp \o Tail(me.todo), Less(meant, line.name))
    <3> HIDE DEF me, line
    <3> QED
      BY <1>1, <2>2, <2>3, <2>7, <2>10, EntryRemoved
  <2>11. CASE /\ line # Other
              /\ Step(p, new(<<>>)) /\ meant' = Less(meant, line.name) /\ UNCHANGED recorded
    <3>1. me.temp \o <<>> = me.temp /\ <<>> # <<line>> /\ <<>> \in Seq(Lines)
      BY <2>2
    <3>2. calm => Tells((me.temp \o <<>>) \o Tail(me.todo), meant')
      BY <2>10, <2>11, <3>1
    <3> HIDE DEF me, line
    <3> QED
      BY <1>6, <2>8, <2>11, <3>1, <3>2
  <2>12. CASE /\ line # Other
              /\ Step(p, new(<<Entry(line.name, now)>>)) /\ meant' = More(meant, line.name, now)
              /\ recorded' = recorded \cup {<<line.name, now>>}
    <3> DEFINE x == Entry(line.name, now)
    <3>1. x \in Lines /\ x # Other /\ x.name = line.name /\ x.hash = now
      <4>1. x \in Lines /\ x # Other
        BY <2>3, <2>4, <2>12, LineKinds
      <4> QED
        BY <4>1 DEF Entry
    <3>2. Pairs(<<x>>) = {<<line.name, now>>} /\ <<x>> \in Seq(Lines)
      <4> HIDE DEF x, line
      <4>1. Pairs(<<x>>) = {<<x.name, x.hash>>}
        BY <3>1, PairsOfLine
      <4>2. <<x>> \in Seq(Lines)
        BY <3>1
      <4> QED
        BY <3>1, <4>1, <4>2
    <3>3. ASSUME calm PROVE Tells((me.temp \o <<x>>) \o Tail(me.todo), meant')
      <4>1. Tells(me.temp \o Tail(me.todo), Less(meant, line.name))
        BY <2>10, <2>12, <3>3
      <4> HIDE DEF me, line
      <4> QED
        BY <1>1, <2>2, <2>3, <2>4, <2>12, <4>1, EntryAdded
    <3>4. ASSUME calm, <<x>> = <<line>>, me.exit = -1
          PROVE  (me.temp \o <<x>>) \o Tail(me.todo) = list
      BY <2>7, <3>4
    <3>5. Step(p, new(<<x>>)) /\ recorded \subseteq recorded' /\ Pairs(<<x>>) \subseteq recorded'
      BY <2>12, <3>2
    <3> HIDE DEF me, line, x
    <3> QED
      BY <2>8, <3>2, <3>3, <3>4, <3>5
  <2> QED
    BY <2>1, <2>9, <2>11, <2>12
<1>17. ASSUME NEW p \in Processes, NEW at \in {"truncate", "write"}, proc[p].at # "idle",
              Step(p, [proc[p] EXCEPT !.at = at]), list' \in Seq(Lines), Pairs(list') \subseteq recorded,
              calm => Tells(proc[p].temp, meant) /\ (at = "write" => list' = <<>>),
              UNCHANGED <<content, recorded, meant, calm, events>>
       PROVE  LInv'
  <2> DEFINE new == [proc[p] EXCEPT !.at = at]
  <2>1. new \in Runs /\ new.at = at /\ new.temp = proc[p].temp
    <3>1. new \in Runs
      BY <1>5, <1>17
    <3> QED
      BY <1>3, <3>1 DEF Runs
  <2> HIDE DEF new
  <2>2. Entered(new, recorded')
    BY <1>3, <1>17, <2>1 DEF Entered
  <2>3. calm' => calm /\ \A q \in Processes: q # p => proc[q].at = "idle"
    BY <1>3, <1>17
  <2>4. calm' => Undisturbed(new, list', meant')
    BY <1>17, <2>1 DEF Undisturbed
  <2>5. Step(p, new) /\ new.at # "idle"
    BY <1>17, <2>1 DEF new
  <2> QED
    BY <1>7, <1>17, <2>1, <2>2, <2>3, <2>4, <2>5, LInvOfStep
<1>18. ASSUME NEW p \in Processes, UpdateEnd(p) PROVE LInv'
  <2>1. /\ proc[p].at = "hash" /\ proc[p].todo = <<>>
        /\ UNCHANGED <<content, list, recorded, meant, calm, events>>
    BY <1>18 DEF UpdateEnd
  <2>2. /\ list \in Seq(Lines) /\ Pairs(list) \subseteq recorded /\ ~proc[p].test
        /\ proc[p].temp \o proc[p].todo = proc[p].temp
    <3>1. proc[p].temp \in Seq(Lines) /\ proc[p].temp \o <<>> = proc[p].temp
      BY <1>3
    <3>2. list \in Seq(Lines) /\ Pairs(list) \subseteq recorded
      BY <1>3, <1>6, <1>7, <2>1
    <3> QED
      BY <1>3, <2>1, <3>1, <3>2 DEF Entered
  <2>3. calm => /\ Tells(proc[p].temp, meant)
                /\ proc[p].exit = -1 => proc[p].temp = list
    BY <1>3, <2>1, <2>2 DEF Undisturbed
  <2>4. CASE proc[p].exit = -1
    <3>1. Exits(p, 0) /\ 0 \in 0..1
      BY <1>18, <2>4 DEF UpdateEnd
    <3>2. calm => Tells(list', meant)
      BY <2>1, <2>3, <2>4
    <3> QED
      BY <1>12, <2>1, <2>2, <3>1, <3>2
  <2>5. CASE proc[p].exit # -1
    <3>1. Step(p, [proc[p] EXCEPT !.at = "truncate"])
      BY <1>18, <2>5 DEF UpdateEnd
    <3> QED
      BY <1>17, <2>1, <2>2, <2>3, <3>1
  <2> QED
    BY <2>4, <2>5
<1>19. ASSUME NEW p \in Processes, Truncate(p) PROVE LInv'
  <2>1. /\ proc[p].at = "truncate" /\ list' = <<>> /\ Step(p, [proc[p] EXCEPT !.at = "write"])
        /\ UNCHANGED <<content, recorded, meant, calm, events>>
    BY <1>19 DEF Truncate
  <2>2. calm => Tells(proc[p].temp, meant)
    BY <1>3, <2>1 DEF Undisturbed
  <2>3. list' \in Seq(Lines) /\ Pairs(list') \subseteq recorded
    BY <1>4, <1>6, <2>1
  <2> QED
    BY <1>17, <2>1, <2>2, <2>3
<1>20. ASSUME NEW p \in Processes, Kill(p) PROVE LInv'
  <2>1. Step(p, Idle) /\ calm' = FALSE /\ UNCHANGED <<content, list, recorded, meant, events>>
    BY <1>20 DEF Kill
  <2>2. Entered(Idle, recorded')
    BY <1>6 DEF Entered, Idle
  <2> QED
    BY <1>4, <1>6, <2>1, <2>2, LInvOfStep
<1>21. ASSUME NEW f \in Files, NEW h \in Hashes, Modify(f, h) PROVE LInv'
  BY <1>21 DEF Modify, LInv, Quiet
<1>22. CASE UNCHANGED lvars
  BY <1>22 DEF lvars, LInv, Quiet
<1> QED
  BY <1>8, <1>9, <1>10, <1>11, <1>13, <1>14, <1>15, <1>16, <1>18, <1>19, <1>20, <1>21, <1>22 DEF LNext

(* However fnvtest and fnvupdate interleave and whenever one of them is     *)
(* ended, a file called unchanged has been entered with the hash it has;    *)
(* where none comes between the others, the list holds each file once with  *)
(* what was last entered for it, and every line that is no entry.           *)
THEOREM HashListIsTrue == LSpec => []ListIsTrue
<1>1. ASSUME LInv PROVE ListIsTrue
  <2>1. \A p \in Processes: Entered(proc[p], recorded)
    BY <1>1 DEF LInv
  <2>2. ASSUME calm, Quiet, list # Missing PROVE Tells(list, meant)
    BY <1>1, <2>2 DEF LInv, Seen
  <2> QED
    BY <2>1, <2>2 DEF ListIsTrue, Entered, Quiet, Tells
<1> QED
  BY <1>1, LTypesInit, LTypesStep, LInvInit, LInvStep, PTL DEF LSpec
=============================================================================
