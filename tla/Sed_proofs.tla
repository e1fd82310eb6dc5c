------------------------------ MODULE Sed_proofs ------------------------------
(***************************************************************************)
(* Sed, proved for every script, every input, every number of files and     *)
(* every size of memory.                                                    *)
(***************************************************************************)
EXTENDS Sed, FiniteSetTheorems, SequenceTheorems, WellFoundedInduction, TLAPS

-----------------------------------------------------------------------------
(* FlattenSeq, which is defined by recursion: what it makes of a longer       *)
(* sequence.                                                                *)

\* every set of numbers has a least one
LEMMA LeastOne ==
  ASSUME NEW S \in SUBSET Nat, S # {}
  PROVE  \E m \in S : \A n \in S : m <= n
<1> DEFINE R == {ss \in Nat \X Nat : ss[1] < ss[2]}
<1>1. IsWellFoundedOn(R, Nat)
  BY NatLessThanWellFounded DEF OpToRel
<1>2. PICK x \in S : \A y \in S : ~ (<<y, x>> \in R)
  <2> HIDE DEF R
  <2> QED
    BY <1>1, WFMin
<1>3. \A y \in S : ~(y < x)
  BY <1>2 DEF R
<1>4. \A y \in S : x <= y
  BY <1>3
<1> QED
  BY <1>4

\* f[k] is what FlattenSeq makes of the first k elements of s
FlattensTo(f, s, n) == \A k \in 1..n : f[k] = IF k = 1 THEN s[k] ELSE f[k - 1] \o s[k]
Flattens(f, s) == FlattensTo(f, s, Len(s))

LEMMA FlattensExists ==
  ASSUME NEW T, NEW s \in Seq(Seq(T))
  PROVE  \E f \in [1..Len(s) -> Seq(T)] : Flattens(f, s)
<1> DEFINE Bad == {m \in 0..Len(s) : ~ \E f \in [1..m -> Seq(T)] : FlattensTo(f, s, m)}
<1>1. SUFFICES ASSUME Bad # {} PROVE FALSE
  <2>1. Len(s) \in 0..Len(s)
    BY LenProperties
  <2> QED
    BY <2>1 DEF Flattens
<1>2. PICK m \in Bad : \A n \in Bad : m <= n
  <2>1. Bad \in SUBSET Nat
    OBVIOUS
  <2> HIDE DEF Bad
  <2> QED
    BY <1>1, <2>1, LeastOne
<1>3. m \in 1..Len(s) /\ m - 1 \in 0..Len(s)
  <2>1. [k \in 1..0 |-> <<>>] \in [1..0 -> Seq(T)]
    OBVIOUS
  <2>2. FlattensTo([k \in 1..0 |-> <<>>], s, 0)
    BY DEF FlattensTo
  <2>3. m # 0
    BY <2>1, <2>2, <1>2
  <2> QED
    BY <2>3, <1>2
<1>4. PICK f \in [1..m - 1 -> Seq(T)] : FlattensTo(f, s, m - 1)
  <2>1. m - 1 \notin Bad
    <3> HIDE DEF Bad
    <3> QED
      BY <1>2, <1>3
  <2> QED
    BY <2>1, <1>3
<1> DEFINE g == [k \in 1..m |-> IF k < m THEN f[k] ELSE IF m = 1 THEN s[m] ELSE f[m - 1] \o s[m]]
<1>5. s[m] \in Seq(T) /\ (m # 1 => f[m - 1] \in Seq(T))
  BY <1>3, ElementOfSeq
<1>6. g \in [1..m -> Seq(T)]
  <2>1. ASSUME NEW k \in 1..m PROVE g[k] \in Seq(T)
    <3>1. CASE k < m
      BY <3>1, <1>3, <1>4
    <3>2. CASE k = m
      BY <3>2, <1>5, ConcatProperties
    <3> QED
      BY <3>1, <3>2, <1>3
  <2> QED
    BY <2>1
<1>7. FlattensTo(g, s, m)
  <2>1. ASSUME NEW k \in 1..m PROVE g[k] = IF k = 1 THEN s[k] ELSE g[k - 1] \o s[k]
    <3>1. CASE k < m
      <4>1. f[k] = IF k = 1 THEN s[k] ELSE f[k - 1] \o s[k]
        <5>1. k \in 1..m - 1
          BY <3>1, <1>3
        <5> QED
          BY <5>1, <1>4 DEF FlattensTo
      <4>2. g[k] = f[k] /\ (k # 1 => g[k - 1] = f[k - 1])
        BY <3>1, <1>3
      <4> QED
        BY <4>1, <4>2
    <3>2. CASE k = m
      <4>1. m # 1 => g[m - 1] = f[m - 1]
        BY <1>3
      <4>2. g[m] = IF m = 1 THEN s[m] ELSE f[m - 1] \o s[m]
        BY <1>3
      <4> QED
        BY <3>2, <4>1, <4>2
    <3> QED
      BY <3>1, <3>2, <1>3
  <2> HIDE DEF g
  <2> QED
    BY <2>1 DEF FlattensTo
<1> HIDE DEF g
<1> QED
  BY <1>2, <1>3, <1>6, <1>7

LEMMA FlattensAgree ==
  ASSUME NEW n \in Nat, NEW s, NEW f, NEW g,
         FlattensTo(f, s, n), FlattensTo(g, s, n)
  PROVE  \A k \in 1..n : f[k] = g[k]
<1> DEFINE Bad == {k \in 1..n : f[k] # g[k]}
<1>1. SUFFICES ASSUME Bad # {} PROVE FALSE
  OBVIOUS
<1>2. PICK m \in Bad : \A k \in Bad : m <= k
  <2>1. Bad \in SUBSET Nat
    OBVIOUS
  <2> HIDE DEF Bad
  <2> QED
    BY <1>1, <2>1, LeastOne
<1>3. CASE m = 1
  BY <1>2, <1>3 DEF FlattensTo
<1>4. CASE m # 1
  <2>1. m - 1 \in 1..n /\ m - 1 \notin Bad
    BY <1>2, <1>4
  <2>2. f[m - 1] = g[m - 1]
    BY <2>1
  <2>3. f[m] = f[m - 1] \o s[m] /\ g[m] = g[m - 1] \o s[m]
    BY <1>2, <1>4 DEF FlattensTo
  <2> QED
    BY <1>2, <2>2, <2>3
<1> QED
  BY <1>3, <1>4

LEMMA FlattenIs ==
  ASSUME NEW T, NEW s \in Seq(Seq(T)), s # <<>>, NEW f, Flattens(f, s)
  PROVE  FlattenSeq(s) = f[Len(s)]
<1> DEFINE n == Len(s)
           Round(h) == [k \in 1..n |-> IF k = 1 THEN s[k] ELSE h[k - 1] \o s[k]]
           h == CHOOSE h : h = Round(h)
<1>1. n \in Nat /\ n # 0
  BY EmptySeq, LenProperties
<1>2. FlattenSeq(s) = h[n]
  BY <1>1 DEF FlattenSeq
<1>3. \E g : g = Round(g)
  <2>1. PICK g \in [1..n -> Seq(T)] : Flattens(g, s)
    BY FlattensExists
  <2>2. g = [k \in 1..n |-> g[k]]
    OBVIOUS
  <2>3. g = Round(g)
    BY <2>1, <2>2 DEF Flattens, FlattensTo
  <2> QED
    BY <2>3
<1>4. h = Round(h)
  <2> HIDE DEF Round
  <2> QED
    BY <1>3
<1> HIDE DEF h
<1>5. FlattensTo(h, s, n)
  BY <1>4 DEF FlattensTo
<1>6. FlattensTo(f, s, n)
  BY DEF Flattens
<1> HIDE DEF n, Round
<1>7. \A k \in 1..n : f[k] = h[k]
  BY <1>1, <1>5, <1>6, FlattensAgree
<1> QED
  BY <1>1, <1>2, <1>7 DEF n

LEMMA FlattenOfNone == FlattenSeq(<<>>) = <<>>
BY DEF FlattenSeq

LEMMA FlattenIsSeq ==
  ASSUME NEW T, NEW s \in Seq(Seq(T))
  PROVE  FlattenSeq(s) \in Seq(T)
<1>1. CASE s = <<>>
  BY <1>1, FlattenOfNone, EmptySeq
<1>2. CASE s # <<>>
  <2>1. PICK f \in [1..Len(s) -> Seq(T)] : Flattens(f, s)
    BY FlattensExists
  <2>2. Len(s) \in 1..Len(s)
    BY <1>2, EmptySeq, LenProperties
  <2>3. FlattenSeq(s) = f[Len(s)]
    BY <1>2, <2>1, FlattenIs
  <2> QED
    BY <2>1, <2>2, <2>3
<1> QED
  BY <1>1, <1>2

LEMMA FlattenAppend ==
  ASSUME NEW T, NEW s \in Seq(Seq(T)), NEW x \in Seq(T)
  PROVE  FlattenSeq(Append(s, x)) = FlattenSeq(s) \o x
<1> DEFINE n == Len(s)
           t == Append(s, x)
<1>1. t \in Seq(Seq(T)) /\ Len(t) = n + 1 /\ t # <<>> /\ t[n + 1] = x
        /\ \A k \in 1..n : t[k] = s[k]
  BY AppendProperties, LenProperties
<1>2. PICK f \in [1..n -> Seq(T)] : Flattens(f, s)
  BY FlattensExists
<1> HIDE DEF t
<1>3. n \in Nat
  BY LenProperties
<1> DEFINE g == [k \in 1..n + 1 |-> IF k <= n THEN f[k] ELSE FlattenSeq(s) \o x]
<1>4. Flattens(g, t)
  <2>1. ASSUME NEW k \in 1..n + 1 PROVE g[k] = IF k = 1 THEN t[k] ELSE g[k - 1] \o t[k]
    <3>1. CASE k <= n
      <4>1. k \in 1..n
        BY <1>3, <3>1
      <4>2. f[k] = IF k = 1 THEN s[k] ELSE f[k - 1] \o s[k]
        BY <4>1, <1>2 DEF Flattens, FlattensTo
      <4>3. g[k] = f[k] /\ (k # 1 => g[k - 1] = f[k - 1])
        BY <1>3, <4>1
      <4> QED
        BY <1>1, <4>1, <4>2, <4>3
    <3>2. CASE k = n + 1 /\ n = 0
      <4>1. FlattenSeq(s) = <<>>
        BY <3>2, EmptySeq, FlattenOfNone
      <4>2. g[k] = <<>> \o x
        BY <3>2, <4>1
      <4>3. <<>> \o x = x
        BY ConcatEmptySeq
      <4> QED
        BY <1>1, <3>2, <4>2, <4>3
    <3>3. CASE k = n + 1 /\ n # 0
      <4>1. FlattenSeq(s) = f[n]
        BY <3>3, <1>2, EmptySeq, FlattenIs
      <4>2. g[n] = f[n] /\ g[n + 1] = FlattenSeq(s) \o x
        BY <1>3, <3>3
      <4> QED
        BY <1>1, <1>3, <3>3, <4>1, <4>2
    <3> QED
      BY <1>3, <3>1, <3>2, <3>3
  <2> HIDE DEF g
  <2> QED
    BY <1>1, <2>1 DEF Flattens, FlattensTo
<1>5. FlattenSeq(t) = g[n + 1]
  <2> HIDE DEF g
  <2> QED
    BY <1>1, <1>4, FlattenIs
<1> QED
  BY <1>3, <1>5 DEF t

LEMMA FlattenAdd ==
  ASSUME NEW T, NEW s \in Seq(Seq(T)), NEW x \in Seq(T)
  PROVE  FlattenSeq(s \o <<x>>) = FlattenSeq(s) \o x
<1>1. s \o <<x>> = Append(s, x)
  BY AppendIsConcat
<1> QED
  BY <1>1, FlattenAppend

LEMMA FlattenOfOne ==
  ASSUME NEW T, NEW x \in Seq(T)
  PROVE  FlattenSeq(<<x>>) = x
<1>1. <<>> \in Seq(Seq(T)) /\ <<>> \o <<x>> = <<x>> /\ <<>> \o x = x
  <2>1. <<x>> \in Seq(Seq(T))
    OBVIOUS
  <2> QED
    BY <2>1, EmptySeq, ConcatEmptySeq
<1>2. FlattenSeq(<<>> \o <<x>>) = FlattenSeq(<<>>) \o x
  BY <1>1, FlattenAdd
<1> QED
  BY <1>1, <1>2, FlattenOfNone

LEMMA FlattenConcat ==
  ASSUME NEW T, NEW s \in Seq(Seq(T)), NEW t \in Seq(Seq(T))
  PROVE  FlattenSeq(s \o t) = FlattenSeq(s) \o FlattenSeq(t)
<1> DEFINE u(n) == SubSeq(t, 1, n)
           Bad == {n \in 0..Len(t) : FlattenSeq(s \o u(n)) # FlattenSeq(s) \o FlattenSeq(u(n))}
<1>1. Len(t) \in Nat /\ u(Len(t)) = t
  BY LenProperties, SubSeqFull
<1>2. SUFFICES ASSUME Bad # {} PROVE FALSE
  <2>1. Len(t) \notin Bad
    BY <1>2
  <2>2. Len(t) \in 0..Len(t)
    BY <1>1
  <2> HIDE DEF u
  <2>3. FlattenSeq(s \o u(Len(t))) = FlattenSeq(s) \o FlattenSeq(u(Len(t)))
    BY <2>1, <2>2
  <2> QED
    BY <1>1, <2>3
<1>3. PICK m \in Bad : \A n \in Bad : m <= n
  <2>1. Bad \in SUBSET Nat
    BY <1>1
  <2> HIDE DEF Bad
  <2> QED
    BY <1>2, <2>1, LeastOne
<1>4. FlattenSeq(s) \in Seq(T)
  BY FlattenIsSeq
<1>5. CASE m = 0
  <2>1. u(0) = <<>>
    BY SubSeqEmpty
  <2>2. s \o <<>> = s /\ FlattenSeq(s) \o <<>> = FlattenSeq(s)
    BY <1>4, ConcatEmptySeq
  <2> QED
    BY <1>3, <1>5, <2>1, <2>2, FlattenOfNone
<1>6. CASE m # 0
  <2>1. m \in 1..Len(t) /\ m - 1 \in 0..Len(t) /\ m - 1 \notin Bad
    <3>1. m \in 0..Len(t)
      OBVIOUS
    <3> HIDE DEF Bad
    <3> QED
      BY <1>1, <1>3, <1>6, <3>1
  <2> DEFINE v == u(m - 1)
             x == t[m]
  <2>2. FlattenSeq(s \o v) = FlattenSeq(s) \o FlattenSeq(v)
    BY <2>1
  <2>3. u(m) = v \o <<x>>
    BY <1>1, <2>1, SubSeqRecursiveSecond
  <2>4. x \in Seq(T) /\ v \in Seq(Seq(T))
    BY <1>1, <2>1, ElementOfSeq, SubSeqProperties
  <2>5. FlattenSeq(s \o u(m)) # FlattenSeq(s) \o FlattenSeq(u(m))
    BY <1>3
  <2> HIDE DEF v, x, u
  <2>6. <<x>> \in Seq(Seq(T)) /\ s \o v \in Seq(Seq(T)) /\ FlattenSeq(v) \in Seq(T)
    BY <2>4, ConcatProperties, FlattenIsSeq
  <2>7. s \o (v \o <<x>>) = (s \o v) \o <<x>>
    BY <2>4, <2>6, ConcatAssociative, SMTT(30)
  <2>8. FlattenSeq((s \o v) \o <<x>>) = (FlattenSeq(s) \o FlattenSeq(v)) \o x
    <3>1. FlattenSeq((s \o v) \o <<x>>) = FlattenSeq(s \o v) \o x
      BY <2>4, <2>6, FlattenAdd
    <3> QED
      BY <2>2, <3>1
  <2>9. FlattenSeq(v \o <<x>>) = FlattenSeq(v) \o x
    BY <2>4, FlattenAdd
  <2>10. (FlattenSeq(s) \o FlattenSeq(v)) \o x = FlattenSeq(s) \o (FlattenSeq(v) \o x)
    <3>1. FlattenSeq(s) \in Seq(T) /\ FlattenSeq(v) \in Seq(T) /\ x \in Seq(T)
      BY <1>4, <2>4, <2>6
    <3> QED
      BY <3>1, ConcatAssociative, SMTT(30)
  <2> QED
    BY <2>3, <2>5, <2>7, <2>8, <2>9, <2>10
<1> QED
  BY <1>5, <1>6

-----------------------------------------------------------------------------
(* The characters of a text.                                                  *)

CharOf(x) == IF x \in Char THEN <<x>> ELSE <<>>

LEMMA CharsAreSeqs ==
  ASSUME NEW T, NEW t \in Seq(T)
  PROVE  /\ [k \in DOMAIN t |-> CharOf(t[k])] \in Seq(Seq(Char))
         /\ Chars(t) = FlattenSeq([k \in DOMAIN t |-> CharOf(t[k])])
<1>1. \A x : CharOf(x) \in Seq(Char)
  BY EmptySeq DEF CharOf
<1>2. DOMAIN t = 1..Len(t) /\ Len(t) \in Nat
  BY LenProperties
<1>3. [k \in DOMAIN t |-> CharOf(t[k])] \in Seq(Seq(Char))
  BY <1>1, <1>2
<1> QED
  BY <1>3 DEF Chars, CharOf

LEMMA CharsIsSeq ==
  ASSUME NEW T, NEW t \in Seq(T)
  PROVE  Chars(t) \in Seq(Char)
BY CharsAreSeqs, FlattenIsSeq

LEMMA CharsConcat ==
  ASSUME NEW T, NEW s \in Seq(T), NEW t \in Seq(T)
  PROVE  Chars(s \o t) = Chars(s) \o Chars(t)
<1> DEFINE of(w) == [k \in DOMAIN w |-> CharOf(w[k])]
<1>1. s \o t \in Seq(T) /\ Len(s \o t) = Len(s) + Len(t) /\ Len(s) \in Nat /\ Len(t) \in Nat
        /\ \A k \in 1..Len(s) + Len(t) : (s \o t)[k] = IF k <= Len(s) THEN s[k] ELSE t[k - Len(s)]
  BY ConcatProperties, LenProperties
<1>2. \A w \in Seq(T) : of(w) \in Seq(Seq(Char)) /\ Len(of(w)) = Len(w)
                        /\ \A k \in 1..Len(w) : of(w)[k] = CharOf(w[k])
  <2> TAKE w \in Seq(T)
  <2>1. of(w) \in Seq(Seq(Char))
    BY CharsAreSeqs
  <2>2. DOMAIN w = 1..Len(w) /\ Len(w) \in Nat
    BY LenProperties
  <2> QED
    BY <2>1, <2>2
<1>3. \A w \in Seq(T) : Chars(w) = FlattenSeq(of(w))
  BY CharsAreSeqs
<1> HIDE DEF of
<1>a. of(s) \in Seq(Seq(Char)) /\ Len(of(s)) = Len(s) /\ of(t) \in Seq(Seq(Char)) /\ Len(of(t)) = Len(t)
  BY <1>2
<1>4. of(s) \o of(t) \in Seq(Seq(Char)) /\ Len(of(s) \o of(t)) = Len(s) + Len(t)
        /\ \A k \in 1..Len(s) + Len(t) :
              (of(s) \o of(t))[k] = IF k <= Len(s) THEN of(s)[k] ELSE of(t)[k - Len(s)]
  <2> DEFINE a == of(s)
             b == of(t)
  <2>1. a \in Seq(Seq(Char)) /\ b \in Seq(Seq(Char))
    BY <1>a
  <2>2. Len(a) = Len(s) /\ Len(b) = Len(t)
    BY <1>a
  <2> HIDE DEF a, b
  <2>3. /\ a \o b \in Seq(Seq(Char)) /\ Len(a \o b) = Len(a) + Len(b)
        /\ \A k \in 1..Len(a) + Len(b) : (a \o b)[k] = IF k <= Len(a) THEN a[k] ELSE b[k - Len(a)]
    BY <2>1, ConcatProperties
  <2> QED
    BY <2>2, <2>3 DEF a, b
<1>5. ASSUME NEW k \in 1..Len(s) + Len(t) PROVE of(s \o t)[k] = (of(s) \o of(t))[k]
  <2>1. CASE k <= Len(s)
    <3>1. k \in 1..Len(s)
      BY <1>1, <2>1
    <3> QED
      BY <1>1, <1>2, <1>4, <2>1, <3>1
  <2>2. CASE ~(k <= Len(s))
    <3>1. k - Len(s) \in 1..Len(t)
      BY <1>1, <2>2
    <3> QED
      BY <1>1, <1>2, <1>4, <2>2, <3>1
  <2> QED
    BY <2>1, <2>2
<1>6. of(s \o t) = of(s) \o of(t)
  <2>1. of(s \o t) \in Seq(Seq(Char)) /\ Len(of(s \o t)) = Len(s) + Len(t)
    BY <1>1, <1>2
  <2> QED
    BY <2>1, <1>4, <1>5, SeqEqual
<1> QED
  <2>1. FlattenSeq(of(s) \o of(t)) = FlattenSeq(of(s)) \o FlattenSeq(of(t))
    BY <1>a, FlattenConcat
  <2> QED
    BY <1>1, <1>3, <1>6, <2>1

LEMMA CharsOfOther ==
  ASSUME NEW x, x \notin Char
  PROVE  Chars(<<x>>) = <<>>
<1>1. <<x>> \in Seq({x})
  OBVIOUS
<1>2. [k \in DOMAIN <<x>> |-> CharOf(<<x>>[k])] = <<<<>>>>
  BY DEF CharOf
<1>3. Chars(<<x>>) = FlattenSeq([k \in DOMAIN <<x>> |-> CharOf(<<x>>[k])])
  BY <1>1, CharsAreSeqs
<1>4. <<>> \in Seq(Char)
  BY EmptySeq
<1> QED
  BY <1>2, <1>3, <1>4, FlattenOfOne

LEMMA CharsOfNone == Chars(<<>>) = <<>>
<1>1. [k \in DOMAIN <<>> |-> CharOf(<<>>[k])] = <<>>
  OBVIOUS
<1>2. <<>> \in Seq(Char)
  BY EmptySeq
<1>3. Chars(<<>>) = FlattenSeq([k \in DOMAIN <<>> |-> CharOf(<<>>[k])])
  BY <1>2, CharsAreSeqs
<1> QED
  BY <1>1, <1>3, FlattenOfNone

-----------------------------------------------------------------------------
(* What the commands make of texts.                                           *)

LEMMA ScriptIsSeq ==
  ASSUME NEW C, NEW lines \in Seq(Seq(C))
  PROVE  ParseScript(lines) \in Seq(C)
<1> DEFINE kept == [k \in DOMAIN lines |->
                     IF k \in PassedOver(lines) \/ lines[k] = <<>> THEN <<>> ELSE <<lines[k][1]>>]
<1>1. DOMAIN lines = 1..Len(lines) /\ Len(lines) \in Nat
  BY LenProperties
<1>2. ASSUME NEW k \in 1..Len(lines), lines[k] # <<>> PROVE <<lines[k][1]>> \in Seq(C)
  <2>1. lines[k] \in Seq(C)
    BY ElementOfSeq
  <2>2. lines[k][1] \in C
    <3>1. 1 \in 1..Len(lines[k])
      BY <1>2, <2>1, EmptySeq
    <3> QED
      BY <2>1, <3>1, ElementOfSeq
  <2> QED
    BY <2>2
<1>3. <<>> \in Seq(C)
  BY EmptySeq
<1>4. kept \in Seq(Seq(C))
  BY <1>1, <1>2, <1>3
<1> HIDE DEF kept
<1>5. FlattenSeq(kept) \in Seq(C)
  BY <1>4, FlattenIsSeq
<1> QED
  BY <1>5 DEF ParseScript, kept

\* s copies the text: see DoSubstitute
LEMMA SubstituteCopies ==
  ASSUME NEW text \in Text, NEW sub
  PROVE  DoSubstitute(text, sub) = Copied(text)
<1> DEFINE n == Len(text)
           Places == (1..n + 2) \X (0..n + 1)
           found(at) == BreMatch(text, at[1], sub.re)
           new(at) == IF Chosen(sub.occurrence, at[2] + 1) THEN sub.repl
                      ELSE SubSeq(text, found(at).start, found(at).start + found(at).length - 1)
           more(f, at) == IF Enough(sub.occurrence, at[2] + 1)
                            THEN Copied(SubSeq(text, Advance(found(at)), n))
                            ELSE f[<<Advance(found(at)), at[2] + 1>>]
           round(f, at) ==
             IF at[1] > n + 1 THEN Copied(<<>>)
             ELSE IF ~IsTrue(found(at).result) \/ found(at).start < 0 THEN Copied(SubSeq(text, at[1], n))
             ELSE [more(f, at) EXCEPT
                     !.text = SubSeq(text, at[1], found(at).start - 1) \o new(at) \o @,
                     !.did  = @ \/ Chosen(sub.occurrence, at[2] + 1)]
           Round(f) == [at \in Places |-> round(f, at)]
           g == [at \in Places |->
                  IF at[1] > n + 1 THEN Copied(<<>>) ELSE Copied(SubSeq(text, at[1], n))]
           from == CHOOSE f : f = Round(f)
<1>1. DoSubstitute(text, sub) = from[<<1, 0>>]
  BY DEF DoSubstitute
<1>2. n \in Nat
  BY LenProperties DEF Text
<1>3. ASSUME NEW at \in Places PROVE ~IsTrue(found(at).result) \/ found(at).start < 0
  <2>1. CASE Found(text, at[1], sub.re)
    BY <2>1 DEF BreMatch, IsTrue, BRE_OK
  <2>2. CASE ~Found(text, at[1], sub.re)
    BY <2>2 DEF BreMatch
  <2> QED
    BY <2>1, <2>2
<1>4. ASSUME NEW f, NEW at \in Places
      PROVE  round(f, at) = IF at[1] > n + 1 THEN Copied(<<>>) ELSE Copied(SubSeq(text, at[1], n))
  <2> HIDE DEF found, more, new
  <2> QED
    BY <1>3
<1>5. \A f : Round(f) = g
  <2> HIDE DEF round, Places
  <2> QED
    BY <1>4
<1>6. from = g
  <2>1. g = Round(g)
    <3> HIDE DEF g, Round
    <3> QED
      BY <1>5
  <2>2. from = Round(from)
    <3> HIDE DEF g, Round
    <3> QED
      BY <2>1
  <2>3. Round(from) = g
    <3> HIDE DEF g, Round
    <3> QED
      BY <1>5
  <2> HIDE DEF from, g, Round
  <2> QED
    BY <2>2, <2>3
<1>7. g[<<1, 0>>] = Copied(SubSeq(text, 1, n))
  BY <1>2
<1>8. SubSeq(text, 1, n) = text
  BY SubSeqFull DEF Text
<1> HIDE DEF from, g, n
<1> QED
  BY <1>1, <1>6, <1>7, <1>8

LEMMA LeastIsLeast ==
  ASSUME NEW S \in SUBSET Nat, S # {}
  PROVE  Least(S) \in S /\ \A x \in S : Least(S) <= x
BY LeastOne DEF Least

\* P and D divide the pattern space after its first newline
LEMMA FirstLineIsText ==
  ASSUME NEW text \in Text
  PROVE  FirstLine(text) \in Text /\ Rest(text) \in Text
<1> DEFINE H == Hits(text, 1, [char |-> Newline])
<1>1. Len(text) \in Nat /\ \A k \in 1..Len(text) : text[k] \in Symbol
  BY LenProperties, ElementOfSeq DEF Text
<1>2. H \subseteq 1..Len(text)
  BY DEF Hits
<1>3. H # {} => Least(H) \in 1..Len(text)
  <2> HIDE DEF H
  <2>1. H \in SUBSET Nat
    BY <1>1, <1>2
  <2> QED
    BY <1>2, <2>1, LeastIsLeast
<1> HIDE DEF H
<1>4. FirstLine(text) = IF H = {} THEN text ELSE SubSeq(text, 1, Least(H))
  BY DEF FirstLine, H
<1>5. ASSUME NEW m \in Nat, NEW n \in Nat, 1 <= m, n <= Len(text) PROVE SubSeq(text, m, n) \in Text
  <2>1. \A k \in m..n : text[k] \in Symbol
    BY <1>1, <1>5
  <2> QED
    BY <2>1, SubSeqProperties DEF Text
<1>6. FirstLine(text) \in Text
  BY <1>1, <1>3, <1>4, <1>5
<1>7. Len(FirstLine(text)) \in Nat
  BY <1>6, LenProperties DEF Text
<1>8. Rest(text) \in Text
  BY <1>1, <1>5, <1>7 DEF Rest
<1> QED
  BY <1>6, <1>8

\* what a file holds after a write
LEMMA AppendToIsText ==
  ASSUME NEW text \in Text, NEW f \in WFile, wfile \in [WFile -> Text \cup {Absent}]
  PROVE  AppendTo(f, text) \in [WFile -> Text \cup {Absent}]
<1>1. CASE wfile[f] # Absent
  <2>1. wfile[f] \in Text
    BY <1>1
  <2>2. wfile[f] \o text \in Text
    BY <2>1, ConcatProperties DEF Text
  <2>3. AppendTo(f, text) = [wfile EXCEPT ![f] = wfile[f] \o text]
    BY <1>1 DEF AppendTo
  <2> QED
    BY <2>2, <2>3
<1>2. CASE wfile[f] = Absent
  BY <1>2 DEF AppendTo
<1> QED
  BY <1>1, <1>2

-----------------------------------------------------------------------------
(* The types.  A pattern space is a text while the script is executed, a file  *)
(* is open while it is read, and is left when it has been read to its end.    *)

Printed == Symbol \cup Nat \cup {Listed}

Types ==
  /\ TypeOK
  /\ job \in Jobs /\ g_cmds \in Seq(Commands)
  /\ step = "exec" => ps \in Text
  /\ step # "open" => file # 0
  /\ \A k \in 1..file : job.input[k] \in Seq(Line)
  /\ file # 0 => next <= Len(Lines) + 1
  /\ (step = "open" /\ file # 0) => next = Len(Lines) + 1

LEMMA CommandIsWhole ==
  ASSUME Types, i <= Len(g_cmds)
  PROVE  c \in Commands /\ Whole(c)
<1>1. i \in 1..Len(g_cmds)
  <2>1. i \in 1..Len(g_cmds) + 1 /\ Len(g_cmds) \in Nat
    BY LenProperties DEF Types, TypeOK
  <2> QED
    BY <2>1
<1>2. c \in Commands
  BY <1>1, ElementOfSeq DEF Types, c
<1> QED
  BY <1>2, JobsAssumption

LEMMA PrintedTexts ==
  /\ \A t \in Text : t \in Seq(Printed)
  /\ \A t \in Line : t \in Text
  /\ <<>> \in Text
<1>1. Symbol \subseteq Printed /\ Char \cup {Newline} \subseteq Symbol
  BY DEF Printed, Symbol
<1> QED
  BY <1>1, SeqMonotonic, EmptySeq DEF Text, Line

\* a command after which the script goes on
LEMMA GoesKeepsTypes ==
  ASSUME Types, status = "running", step = "exec", i <= Len(g_cmds),
         NEW space \in Text, NEW shown \in Seq(Printed), NEW n \in 1..Len(g_cmds) + 1,
         Goes(space, shown, n), hs' \in Text \cup {Null},
         wfile' \in [WFile -> Text \cup {Absent}], status' = status
  PROVE  Types'
<1>1. out' \in Seq(Printed)
  BY ConcatProperties DEF Types, TypeOK, Goes, Printed
<1>2. in_range' \in [DOMAIN g_cmds -> BOOLEAN]
  <2>1. (Ranged(c) /\ ~Ends(c, space)) \in BOOLEAN
    OBVIOUS
  <2> QED
    BY <2>1 DEF Types, TypeOK, Goes
<1>3. /\ UNCHANGED <<job, g_cmds, file, next, lineno, is_last_line_in_file, quit_now, again, step>>
      /\ ps' = space /\ i' = n
  BY DEF Goes, input
<1> QED
  BY <1>1, <1>2, <1>3 DEF Types, TypeOK, Printed, Lines

\* a command that returns to process_files
LEMMA LeavesKeepsTypes ==
  ASSUME Types, status = "running", step = "exec", i <= Len(g_cmds),
         NEW to \in {"read", "after"}, Leaves(to), ps' \in Text \cup {Null},
         quit_now' \in BOOLEAN, out' \in Seq(Printed)
  PROVE  Types'
<1>1. in_range' \in [DOMAIN g_cmds -> BOOLEAN]
  <2>1. Ranged(c) \in BOOLEAN
    BY DEF Ranged
  <2> QED
    BY <2>1 DEF Types, TypeOK, Leaves
<1>2. /\ UNCHANGED <<job, g_cmds, file, next, lineno, is_last_line_in_file, hs, i, again, wfile, status>>
      /\ step' = to
  BY DEF Leaves, input
<1> QED
  BY <1>1, <1>2 DEF Types, TypeOK, Printed, Lines

LEMMA ThenKeepsTypes ==
  ASSUME Types, status = "running", step = "exec", i <= Len(g_cmds),
         NEW space \in Text, NEW shown \in Seq(Printed), Then(space, shown)
  PROVE  Types'
<1>1. Goes(space, shown, i + 1) /\ UNCHANGED <<hs, wfile, status>>
  BY DEF Then
<1>2. i + 1 \in 1..Len(g_cmds) + 1
  BY LenProperties DEF Types, TypeOK
<1>3. hs' \in Text \cup {Null} /\ wfile' \in [WFile -> Text \cup {Absent}]
  BY <1>1 DEF Types, TypeOK
<1> QED
  BY <1>1, <1>2, <1>3, GoesKeepsTypes

LEMMA HeldIsText ==
  ASSUME Types
  PROVE  Held \in Text /\ (ps # Null => ps \in Text)
BY PrintedTexts DEF Types, TypeOK, Held

\* the commands that print, or change the pattern space alone
LEMMA ShowingKeepsTypes ==
  ASSUME Types,
         PrintSpace \/ PrintFirst \/ List \/ LineNumber \/ ShowText \/ ShowFile \/ Change
           \/ Translate \/ Get \/ GetAppend
  PROVE  Types'
<1> USE DEF Executes
<1>1. step = "exec" /\ status = "running" /\ i <= Len(g_cmds)
  BY DEF PrintSpace, PrintFirst, List, LineNumber, ShowText, ShowFile, Change, Translate, Get, GetAppend
<1>2. ps \in Text /\ Whole(c) /\ Held \in Text
  BY <1>1, CommandIsWhole, HeldIsText DEF Types
<1>3. <<Listed>> \in Seq(Printed) /\ <<lineno, Newline>> \in Seq(Printed) /\ <<Newline>> \in Text
  BY DEF Printed, Text, Symbol, Types, TypeOK
<1>4. CASE PrintSpace
  BY <1>1, <1>2, <1>4, PrintedTexts, ThenKeepsTypes DEF PrintSpace
<1>5. CASE PrintFirst
  BY <1>1, <1>2, <1>5, PrintedTexts, FirstLineIsText, ThenKeepsTypes DEF PrintFirst
<1>6. CASE List
  <2>1. <<Listed>> \o ps \in Seq(Printed)
    BY <1>2, <1>3, PrintedTexts, ConcatProperties
  <2> QED
    BY <1>1, <1>2, <1>6, <2>1, ThenKeepsTypes DEF List
<1>7. CASE LineNumber
  BY <1>1, <1>2, <1>3, <1>7, ThenKeepsTypes DEF LineNumber
<1>8. CASE ShowText
  <2>1. c.text \in Text
    BY <1>2, <1>8 DEF ShowText, Whole
  <2>2. c.text \o <<Newline>> \in Text
    BY <1>3, <2>1, ConcatProperties DEF Text
  <2> QED
    BY <1>1, <1>2, <1>8, <2>2, PrintedTexts, ThenKeepsTypes DEF ShowText
<1>9. CASE ShowFile
  <2> DEFINE shown == IF RFile[c.file] = Absent THEN <<>> ELSE RFile[c.file]
  <2>1. shown \in Text
    BY <1>2, <1>9, PrintedTexts DEF ShowFile, Whole
  <2>2. Then(ps, shown)
    BY <1>9 DEF ShowFile
  <2> HIDE DEF shown
  <2> QED
    BY <1>1, <1>2, <2>1, <2>2, PrintedTexts, ThenKeepsTypes
<1>10. CASE Change
  <2>1. c.text \in Text
    BY <1>2, <1>10 DEF Change, Whole
  <2>2. c.text \o <<Newline>> \in Text
    BY <1>3, <2>1, ConcatProperties DEF Text
  <2> QED
    BY <1>1, <1>10, <2>2, PrintedTexts, ThenKeepsTypes DEF Change
<1>11. CASE Translate
  <2> DEFINE space == [k \in DOMAIN ps |-> c.map[ps[k]]]
  <2>1. c.map \in [Symbol -> Symbol]
    BY <1>2, <1>11 DEF Translate, Whole
  <2>2. space \in Text
    <3>1. DOMAIN ps = 1..Len(ps) /\ Len(ps) \in Nat /\ \A k \in 1..Len(ps) : ps[k] \in Symbol
      BY <1>2, LenProperties, ElementOfSeq DEF Text
    <3>2. \A k \in 1..Len(ps) : c.map[ps[k]] \in Symbol
      BY <2>1, <3>1
    <3> QED
      BY <3>1, <3>2 DEF Text
  <2>3. Then(space, <<>>)
    BY <1>11 DEF Translate
  <2> HIDE DEF space
  <2> QED
    BY <1>1, <2>2, <2>3, PrintedTexts, ThenKeepsTypes
<1>12. CASE Get
  BY <1>1, <1>2, <1>12, PrintedTexts, ThenKeepsTypes DEF Get
<1>13. CASE GetAppend
  <2>1. ps \o Held \in Text
    BY <1>2, ConcatProperties DEF Text
  <2>2. Then(IF Fits(ps \o Held) THEN ps \o Held ELSE ps, <<>>)
    BY <1>13 DEF GetAppend
  <2> QED
    BY <1>1, <1>2, <2>1, <2>2, PrintedTexts, ThenKeepsTypes
<1> QED
  BY <1>4, <1>5, <1>6, <1>7, <1>8, <1>9, <1>10, <1>11, <1>12, <1>13

\* the commands that change the hold space or a file, and those that go on elsewhere
LEMMA HoldingKeepsTypes ==
  ASSUME Types, Hold \/ HoldAppend \/ Exchange \/ Write \/ Substitute \/ DeleteFirst
  PROVE  Types'
<1> USE DEF Executes
<1>1. step = "exec" /\ status = "running" /\ i <= Len(g_cmds)
  BY DEF Hold, HoldAppend, Exchange, Write, Substitute, DeleteFirst
<1>2. ps \in Text /\ Whole(c) /\ Held \in Text
  BY <1>1, CommandIsWhole, HeldIsText DEF Types
<1>3. i + 1 \in 1..Len(g_cmds) + 1 /\ 1 \in 1..Len(g_cmds) + 1
  <2>1. Len(g_cmds) \in Nat /\ i \in 1..Len(g_cmds) + 1
    BY LenProperties DEF Types, TypeOK
  <2> QED
    BY <1>1, <2>1
<1>4. <<>> \in Seq(Printed) /\ hs \in Text \cup {Null} /\ wfile \in [WFile -> Text \cup {Absent}]
  BY PrintedTexts DEF Types, TypeOK
<1>5. CASE Hold
  BY <1>1, <1>2, <1>3, <1>4, <1>5, GoesKeepsTypes DEF Hold
<1>6. CASE HoldAppend
  <2>1. Held \o ps \in Text
    BY <1>2, ConcatProperties DEF Text
  <2>2. hs' \in Text \cup {Null}
    BY <1>4, <1>6, <2>1 DEF HoldAppend
  <2> QED
    BY <1>1, <1>2, <1>3, <1>4, <1>6, <2>2, GoesKeepsTypes DEF HoldAppend
<1>7. CASE Exchange
  BY <1>1, <1>2, <1>3, <1>4, <1>7, GoesKeepsTypes DEF Exchange
<1>8. CASE Write
  <2>1. AppendTo(c.file, ps) \in [WFile -> Text \cup {Absent}]
    BY <1>2, <1>4, <1>8, AppendToIsText DEF Write, Whole
  <2> QED
    BY <1>1, <1>2, <1>3, <1>4, <1>8, <2>1, GoesKeepsTypes DEF Write
<1>9. CASE Substitute
  <2>1. DoSubstitute(ps, c.sub) = Copied(ps)
    BY <1>2, SubstituteCopies
  <2>2. Goes(ps, <<>>, i + 1) /\ UNCHANGED <<hs, wfile, status>>
    BY <1>9, <2>1 DEF Substitute, Copied
  <2> QED
    BY <1>1, <1>2, <1>3, <1>4, <2>2, GoesKeepsTypes
<1>10. CASE DeleteFirst
  BY <1>1, <1>2, <1>3, <1>4, <1>10, FirstLineIsText, GoesKeepsTypes DEF DeleteFirst
<1> QED
  BY <1>5, <1>6, <1>7, <1>8, <1>9, <1>10

\* the commands that return to process_files
LEMMA LeavingKeepsTypes ==
  ASSUME Types, Delete \/ Quit \/ NextLine \/ JoinLine \/ JoinLineFails
  PROVE  Types'
<1> USE DEF Executes
<1>1. step = "exec" /\ status = "running" /\ i <= Len(g_cmds)
  BY DEF Delete, Quit, NextLine, JoinLine, JoinLineFails
<1>2. ps \in Text /\ ps \in Seq(Printed) /\ out \in Seq(Printed) /\ quit_now \in BOOLEAN
  BY <1>1, PrintedTexts DEF Types, TypeOK, Printed
<1>3. CASE Delete
  BY <1>1, <1>2, <1>3, LeavesKeepsTypes DEF Delete
<1>4. CASE Quit
  BY <1>1, <1>2, <1>4, LeavesKeepsTypes DEF Quit
<1>5. CASE NextLine
  <2>1. out' \in Seq(Printed)
    BY <1>2, <1>5, ConcatProperties DEF NextLine
  <2> QED
    BY <1>1, <1>2, <1>5, <2>1, LeavesKeepsTypes DEF NextLine
<1>6. CASE JoinLine
  <2>1. Append(ps, Marker) \in Text
    BY <1>2, AppendProperties DEF Text, Symbol
  <2> QED
    BY <1>1, <1>2, <1>6, <2>1, LeavesKeepsTypes DEF JoinLine
<1>7. CASE JoinLineFails
  BY <1>1, <1>2, <1>7, LeavesKeepsTypes DEF JoinLineFails
<1> QED
  BY <1>3, <1>4, <1>5, <1>6, <1>7

-----------------------------------------------------------------------------
(* process_files                                                              *)

LEMMA LineIsText ==
  ASSUME Types, file # 0
  PROVE  /\ Lines \in Seq(Line) /\ Len(Lines) \in Nat /\ next \in 1..Len(Lines) + 1
         /\ More => next \in 1..Len(Lines) /\ Lines[next] \in Line /\ Lines[next] \in Text
<1>1. file \in 1..file /\ next \in Nat \ {0}
  <2>1. file \in 0..Len(job.input) /\ Len(job.input) \in Nat
    BY JobsAssumption, LenProperties DEF Types, TypeOK
  <2> QED
    BY <2>1 DEF Types, TypeOK
<1>2. Lines \in Seq(Line)
  BY <1>1 DEF Types, Lines
<1>3. Len(Lines) \in Nat
  BY <1>2, LenProperties
<1>4. next \in 1..Len(Lines) + 1
  BY <1>1, <1>3 DEF Types
<1>5. More => next \in 1..Len(Lines)
  BY <1>3, <1>4 DEF More
<1> QED
  BY <1>2, <1>3, <1>4, <1>5, ElementOfSeq, PrintedTexts

LEMMA FileNumbers ==
  ASSUME Types
  PROVE  file \in Nat /\ Len(job.input) \in Nat /\ job.input \in Seq(Seq(Line) \cup {Absent})
           /\ file <= Len(job.input)
<1>1. job.input \in Seq(Seq(Line) \cup {Absent})
  BY JobsAssumption DEF Types
<1>2. Len(job.input) \in Nat
  BY <1>1, LenProperties
<1> QED
  BY <1>1, <1>2 DEF Types, TypeOK

LEMMA OpeningKeepsTypes ==
  ASSUME Types, OpenFile
  PROVE  Types'
<1>1. /\ UNCHANGED <<job, g_cmds, ps, hs, lineno, is_last_line_in_file, quit_now, in_range, i, again, out, wfile>>
      /\ step = "open"
  BY DEF OpenFile
<1>2. CASE UNCHANGED <<file, next, step>> /\ status' \in {"done", "failed"}
  BY <1>1, <1>2 DEF Types, TypeOK, Lines
<1>3. CASE /\ file # Len(job.input) /\ job.input[file + 1] # Absent
           /\ file' = file + 1 /\ next' = 1 /\ step' = "read" /\ UNCHANGED status
  <2>1. file + 1 \in 1..Len(job.input) /\ file \in Nat
    BY <1>3, FileNumbers
  <2>2. job.input[file + 1] \in Seq(Line)
    BY <1>3, <2>1, FileNumbers, ElementOfSeq
  <2>3. \A k \in 1..file + 1 : job.input[k] \in Seq(Line)
    BY <2>1, <2>2 DEF Types
  <2>4. Len(job.input[file + 1]) \in Nat
    BY <2>2, LenProperties
  <2> QED
    BY <1>1, <1>3, <2>1, <2>3, <2>4, SMTT(30) DEF Types, TypeOK, Lines
<1> QED
  BY <1>2, <1>3 DEF OpenFile

LEMMA StartKeepsTypes ==
  ASSUME Types, step # "open", More, Start, again' \in BOOLEAN
  PROVE  Types'
<1>1. file # 0
  BY DEF Types
<1>2. next \in 1..Len(Lines) /\ Lines[next] \in Text /\ Len(Lines) \in Nat
  BY <1>1, LineIsText
<1>3. /\ ps' = Lines[next] /\ next' = next + 1 /\ lineno' = lineno + 1 /\ i' = 1 /\ step' = "exec"
      /\ is_last_line_in_file' \in BOOLEAN
      /\ UNCHANGED <<job, g_cmds, file, hs, quit_now, in_range, out, wfile, status>>
  BY DEF Start
<1>4. 1 \in 1..Len(g_cmds) + 1
  <2>1. Len(g_cmds) \in Nat
    BY LenProperties DEF Types
  <2> QED
    BY <2>1
<1> QED
  BY <1>1, <1>2, <1>3, <1>4 DEF Types, TypeOK, Lines

LEMMA FinishKeepsTypes ==
  ASSUME Types, step # "open", NEW space \in Text, Finish(space), next' \in 1..Len(Lines) + 1, lineno' \in Nat
  PROVE  Types'
<1>1. out' \in Seq(Printed)
  <2>1. out \in Seq(Printed) /\ space \in Seq(Printed)
    BY PrintedTexts DEF Types, TypeOK, Printed
  <2> QED
    BY <2>1, ConcatProperties DEF Finish
<1>2. /\ ps' = space /\ step' = "read" /\ status' \in {status, "done"}
      /\ UNCHANGED <<job, g_cmds, file, hs, is_last_line_in_file, quit_now, in_range, i, again, wfile>>
  BY DEF Finish
<1>3. file # 0 /\ Len(Lines) \in Nat
  BY LineIsText DEF Types
<1>4. next' \in Nat \ {0} /\ next' <= Len(Lines) + 1
  BY <1>3
<1> QED
  BY <1>1, <1>2, <1>3, <1>4 DEF Types, TypeOK, Lines, Printed

\* without its marker, and with the next line in the place of it
LEMMA JoinedIsText ==
  ASSUME Types, file # 0, Marked
  PROVE  /\ SubSeq(ps, 1, Len(ps) - 1) \in Text
         /\ ps = SubSeq(ps, 1, Len(ps) - 1) \o <<Marker>>
         /\ More => SubSeq(ps, 1, Len(ps) - 1) \o <<Newline>> \o Lines[next] \in Text
<1>1. ps \in Text /\ ps # <<>> /\ ps[Len(ps)] = Marker
  BY DEF Marked, Types, TypeOK
<1>2. Len(ps) \in Nat /\ Len(ps) >= 1
  BY <1>1, EmptySeq DEF Text
<1>3. SubSeq(ps, 1, Len(ps) - 1) \in Text
  <2>1. \A k \in 1..Len(ps) - 1 : ps[k] \in Symbol
    BY <1>1, <1>2, ElementOfSeq DEF Text
  <2> QED
    BY <1>2, <2>1, SubSeqProperties DEF Text
<1>4. ps = SubSeq(ps, 1, Len(ps) - 1) \o <<Marker>>
  <2>1. SubSeq(ps, 1, Len(ps)) = SubSeq(ps, 1, Len(ps) - 1) \o <<ps[Len(ps)]>>
    <3>1. 1 \in 1..Len(ps) /\ Len(ps) \in 1..Len(ps)
      BY <1>2
    <3> QED
      BY <1>1, <3>1, SubSeqRecursiveSecond DEF Text
  <2> QED
    BY <1>1, <2>1, SubSeqFull DEF Text
<1>5. ASSUME More PROVE SubSeq(ps, 1, Len(ps) - 1) \o <<Newline>> \o Lines[next] \in Text
  <2>1. Lines[next] \in Text /\ <<Newline>> \in Text
    BY <1>5, LineIsText DEF Text, Symbol
  <2> QED
    BY <1>3, <2>1, ConcatProperties DEF Text
<1> QED
  BY <1>3, <1>4, <1>5

LEMMA FinishingKeepsTypes ==
  ASSUME Types, FinishJoin \/ FinishLine
  PROVE  Types'
<1>1. step = "after" /\ file # 0
  BY DEF FinishJoin, FinishLine, Types
<1>2. Len(Lines) \in Nat /\ next \in 1..Len(Lines) + 1 /\ lineno \in Nat
        /\ (More => next + 1 \in 1..Len(Lines) + 1)
  BY <1>1, LineIsText DEF Types, TypeOK
<1>3. CASE FinishLine
  <2>1. ps \in Text
    BY <1>3, HeldIsText DEF FinishLine
  <2> QED
    BY <1>1, <1>2, <1>3, <2>1, FinishKeepsTypes DEF FinishLine
<1>4. CASE FinishJoin
  <2> DEFINE first  == SubSeq(ps, 1, Len(ps) - 1)
             joined == first \o <<Newline>> \o Lines[next]
  <2>1. first \in Text /\ (More => joined \in Text)
    BY <1>1, <1>4, JoinedIsText DEF FinishJoin
  <2>2. \/ ~More /\ Finish(first) /\ UNCHANGED <<next, lineno>>
        \/ More /\ Finish(joined) /\ next' = next + 1 /\ lineno' = lineno + 1
        \/ /\ More /\ status' = "failed" /\ next' = next + 1 /\ lineno' = lineno + 1
           /\ UNCHANGED <<job, g_cmds, file, ps, hs, is_last_line_in_file, quit_now, in_range, i, again,
                          step, out, wfile>>
    BY <1>4 DEF FinishJoin
  <2> HIDE DEF first, joined
  <2>3. CASE ~More /\ Finish(first) /\ UNCHANGED <<next, lineno>>
    BY <1>1, <1>2, <2>1, <2>3, FinishKeepsTypes
  <2>4. CASE More /\ Finish(joined) /\ next' = next + 1 /\ lineno' = lineno + 1
    BY <1>1, <1>2, <2>1, <2>4, FinishKeepsTypes
  <2>5. CASE /\ More /\ status' = "failed" /\ next' = next + 1 /\ lineno' = lineno + 1
             /\ UNCHANGED <<job, g_cmds, file, ps, hs, is_last_line_in_file, quit_now, in_range, i, again,
                            step, out, wfile>>
    BY <1>1, <1>2, <2>5 DEF Types, TypeOK, Lines
  <2> QED
    BY <2>2, <2>3, <2>4, <2>5
<1> QED
  BY <1>3, <1>4

LEMMA DriverKeepsTypes ==
  ASSUME Types, Driver
  PROVE  Types'
<1>1. CASE OpenFile
  BY <1>1, OpeningKeepsTypes
<1>2. CASE ReadLine \/ ReadForNext
  BY <1>2, StartKeepsTypes DEF ReadLine, ReadForNext
<1>3. CASE NothingToPrint
  BY <1>3 DEF NothingToPrint, input, Types, TypeOK, Lines
<1>4. CASE EndOfFile
  <2>1. file # 0 /\ next = Len(Lines) + 1
    <3>1. file # 0
      BY <1>4 DEF EndOfFile, Types
    <3> QED
      BY <1>4, <3>1, LineIsText DEF EndOfFile, More
  <2> QED
    BY <1>4, <2>1 DEF EndOfFile, input, Types, TypeOK, Lines
<1>5. CASE FinishJoin \/ FinishLine
  BY <1>5, FinishingKeepsTypes
<1> QED
  BY <1>1, <1>2, <1>3, <1>4, <1>5 DEF Driver

LEMMA InitTypes ==
  ASSUME Init
  PROVE  Types
<1>1. g_cmds \in Seq(Commands)
  BY JobsAssumption, ScriptIsSeq DEF Init
<1>2. Len(g_cmds) \in Nat /\ Len(job.input) \in Nat
  BY <1>1, JobsAssumption, LenProperties DEF Init
<1>3. <<>> \in Seq(Symbol \cup Nat \cup {Listed})
  BY EmptySeq
<1>4. i \in 1..Len(g_cmds) + 1 /\ file \in 0..Len(job.input)
  BY <1>2 DEF Init
<1>5. in_range \in [DOMAIN g_cmds -> BOOLEAN] /\ wfile \in [WFile -> Text \cup {Absent}]
  BY DEF Init
<1>6. TypeOK
  <2>1. next \in Nat \ {0} /\ lineno \in Nat
    BY DEF Init
  <2>2. ps \in Text \cup {Null} /\ hs \in Text \cup {Null} /\ out \in Seq(Symbol \cup Nat \cup {Listed})
    BY <1>3 DEF Init
  <2>3. {is_last_line_in_file, quit_now, again} \subseteq BOOLEAN
    BY DEF Init
  <2>4. step \in {"open", "read", "exec", "after"} /\ status \in {"running", "done", "failed"}
    BY DEF Init
  <2> QED
    BY <1>4, <1>5, <2>1, <2>2, <2>3, <2>4 DEF TypeOK
<1>7. /\ job \in Jobs /\ step = "open" /\ file = 0
  BY DEF Init
<1> QED
  BY <1>1, <1>6, <1>7 DEF Types

LEMMA StepKeepsTypes ==
  ASSUME Types, [Next]_vars
  PROVE  Types'
<1>1. CASE Command
  BY <1>1, ShowingKeepsTypes, HoldingKeepsTypes, LeavingKeepsTypes DEF Command
<1>2. CASE Driver
  BY <1>2, DriverKeepsTypes
<1>3. CASE PassOver
  <2>1. Len(g_cmds) \in Nat
    BY LenProperties DEF Types
  <2>2. i + 1 \in 1..Len(g_cmds) + 1
    BY <1>3, <2>1 DEF PassOver, Types, TypeOK
  <2> QED
    BY <1>3, <2>2 DEF PassOver, input, Types, TypeOK, Lines
<1>4. CASE EndOfScript
  BY <1>4 DEF EndOfScript, input, Types, TypeOK, Lines
<1>5. CASE UNCHANGED vars
  BY <1>5 DEF vars, Types, TypeOK, Lines
<1> QED
  BY <1>1, <1>2, <1>3, <1>4, <1>5 DEF Next, Ended

LEMMA TypesHold == Spec => []Types
<1>1. Init => Types
  BY InitTypes
<1>2. Types /\ [Next]_vars => Types'
  BY StepKeepsTypes
<1> QED
  BY <1>1, <1>2, PTL DEF Spec

(* Every variable keeps its type, for any script, input and size of memory:   *)
(* no command is executed on the null pointer that n and N leave, and no line *)
(* is read past the end of a file (process_files).                            *)
THEOREM SedTypes == Spec => []TypeOK
<1>1. Types => TypeOK
  BY DEF Types
<1> QED
  BY <1>1, TypesHold, PTL

\* sed is done between lines only
Settled == status = "done" => step \in {"open", "read"}

LEMMA SettledHolds == Spec => []Settled
<1>1. Init => Settled
  BY DEF Init, Settled
<1>2. Settled /\ [Next]_vars => Settled'
  <2> SUFFICES ASSUME Settled, [Next]_vars PROVE Settled'
    OBVIOUS
  <2>1. CASE Command
    BY <2>1 DEF Settled, Command, PrintSpace, PrintFirst, List, LineNumber, ShowText, ShowFile, Change,
                Translate, Get, GetAppend, Hold, HoldAppend, Exchange, Write, Substitute, DeleteFirst, Delete,
                Quit, NextLine, JoinLine, JoinLineFails, Then, Leaves, Executes
  <2>2. CASE Driver
    BY <2>2 DEF Settled, Driver, OpenFile, ReadLine, ReadForNext, Start, NothingToPrint, EndOfFile,
                FinishJoin, FinishLine, Finish
  <2>3. CASE PassOver \/ EndOfScript \/ UNCHANGED vars
    BY <2>3 DEF Settled, PassOver, EndOfScript, vars
  <2> QED
    BY <2>1, <2>2, <2>3 DEF Next, Ended
<1> QED
  BY <1>1, <1>2, PTL DEF Spec

-----------------------------------------------------------------------------
(* WrittenAsPrinted.  Between a p and the w after it, which applies to the     *)
(* same lines, the file lacks what p has printed and the flag of p is ahead of *)
(* that of w; everywhere else they agree.                                     *)

AppliesAt(k) == (Ranged(g_cmds[k]) /\ in_range[k]) \/ Here(g_cmds[k].a1, ps)

Contents(f) == IF wfile[f] = Absent THEN <<>> ELSE wfile[f]

Halfway == step = "exec" /\ i % 2 = 0

WrittenWith(f) ==
  (~job.auto /\ PrintsAndWrites(f)) =>
    /\ \A g \in WFile : g # f => wfile[g] = Absent
    /\ \A k \in DOMAIN g_cmds : (k % 2 = 1 /\ ~(Halfway /\ k = i - 1)) => in_range[k] = in_range[k + 1]
    /\ ~Halfway => out = Contents(f)
    /\ (Halfway /\ AppliesAt(i)) =>
         out = Contents(f) \o ps /\ in_range[i - 1] = (Ranged(c) /\ ~Ends(c, ps))
    /\ (Halfway /\ ~AppliesAt(i)) => out = Contents(f) /\ in_range[i - 1] = in_range[i]

LEMMA OddOrEven ==
  ASSUME NEW n \in Int
  PROVE  n % 2 \in {0, 1} /\ (n % 2 = 1 <=> (n + 1) % 2 = 0) /\ (n % 2 = 1 <=> (n - 1) % 2 = 0)
OBVIOUS

LEMMA IndexOfCommand ==
  ASSUME Types
  PROVE  /\ Len(g_cmds) \in Nat /\ DOMAIN g_cmds = 1..Len(g_cmds) /\ i \in 1..Len(g_cmds) + 1
         /\ i <= Len(g_cmds) => i \in 1..Len(g_cmds)
         /\ in_range \in [DOMAIN g_cmds -> BOOLEAN]
<1>1. Len(g_cmds) \in Nat /\ DOMAIN g_cmds = 1..Len(g_cmds)
  BY LenProperties DEF Types
<1>2. i \in 1..Len(g_cmds) + 1 /\ in_range \in [DOMAIN g_cmds -> BOOLEAN]
  BY DEF Types, TypeOK
<1> QED
  BY <1>1, <1>2

LEMMA PairOfCommands ==
  ASSUME Types, NEW f \in WFile, PrintsAndWrites(f), i <= Len(g_cmds)
  PROVE  /\ i % 2 = 1 => i + 1 \in 1..Len(g_cmds) /\ c.op = "p"
                         /\ g_cmds[i + 1].a1 = c.a1 /\ g_cmds[i + 1].a2 = c.a2
         /\ i % 2 = 0 => c.op = "w" /\ c.file = f /\ i - 1 \in 1..Len(g_cmds)
<1>1. i \in 1..Len(g_cmds) /\ Len(g_cmds) \in Nat /\ DOMAIN g_cmds = 1..Len(g_cmds)
  BY IndexOfCommand
<1>2. \A k \in 1..Len(g_cmds) :
        IF k % 2 = 1 THEN k < Len(g_cmds) /\ g_cmds[k].op = "p"
        ELSE g_cmds[k] = [op |-> "w", a1 |-> g_cmds[k - 1].a1, a2 |-> g_cmds[k - 1].a2, file |-> f]
  BY <1>1 DEF PrintsAndWrites
<1>3. ASSUME i % 2 = 1
      PROVE  i + 1 \in 1..Len(g_cmds) /\ c.op = "p" /\ g_cmds[i + 1].a1 = c.a1 /\ g_cmds[i + 1].a2 = c.a2
  <2>1. i < Len(g_cmds) /\ c.op = "p"
    BY <1>1, <1>2, <1>3 DEF c
  <2>2. i + 1 \in 1..Len(g_cmds) /\ (i + 1) % 2 # 1 /\ (i + 1) - 1 = i
    BY <1>1, <1>3, <2>1
  <2>3. g_cmds[i + 1] = [op |-> "w", a1 |-> g_cmds[i].a1, a2 |-> g_cmds[i].a2, file |-> f]
    BY <1>2, <2>2
  <2> QED
    BY <2>1, <2>2, <2>3 DEF c
<1>4. ASSUME i % 2 = 0 PROVE c.op = "w" /\ c.file = f /\ i - 1 \in 1..Len(g_cmds)
  <2>1. g_cmds[i] = [op |-> "w", a1 |-> g_cmds[i - 1].a1, a2 |-> g_cmds[i - 1].a2, file |-> f]
    BY <1>1, <1>2, <1>4
  <2>2. i # 1
    BY <1>4
  <2> QED
    BY <1>1, <2>1, <2>2 DEF c
<1> QED
  BY <1>3, <1>4

\* the steps that are not between a p and its w leave everything as it is
LEMMA ElsewhereStaysWritten ==
  ASSUME NEW f \in WFile, WrittenWith(f), UNCHANGED <<job, g_cmds, in_range, wfile>>,
         ~Halfway, ~Halfway', ~job.auto => out' = out
  PROVE  WrittenWith(f)'
<1> SUFFICES ASSUME ~job.auto, PrintsAndWrites(f) PROVE WrittenWith(f)'
  BY DEF WrittenWith, PrintsAndWrites
<1>1. /\ \A g \in WFile : g # f => wfile[g] = Absent
      /\ \A k \in DOMAIN g_cmds : k % 2 = 1 => in_range[k] = in_range[k + 1]
      /\ out = Contents(f)
  BY DEF WrittenWith
<1> QED
  BY <1>1 DEF WrittenWith, Contents

\* the place of p, in a script that consists of p and w
LEMMA AtOddPlace ==
  ASSUME Types, step = "exec", i <= Len(g_cmds), i % 2 = 1,
         step' = "exec", i' = i + 1
  PROVE  ~Halfway /\ Halfway' /\ i' - 1 = i
BY OddOrEven, IndexOfCommand DEF Halfway

LEMMA PassingStaysWritten ==
  ASSUME Types, NEW f \in WFile, WrittenWith(f), PassOver
  PROVE  WrittenWith(f)'
<1> SUFFICES ASSUME ~job.auto, PrintsAndWrites(f) PROVE WrittenWith(f)'
  BY DEF WrittenWith, PrintsAndWrites, PassOver, input
<1>1. /\ step = "exec" /\ i <= Len(g_cmds) /\ ~AppliesAt(i) /\ i' = i + 1
      /\ UNCHANGED <<input, ps, in_range, step, out, wfile>>
  BY DEF PassOver, Applies, AppliesAt, c
<1>2. i \in 1..Len(g_cmds) /\ Len(g_cmds) \in Nat /\ DOMAIN g_cmds = 1..Len(g_cmds)
  BY <1>1, IndexOfCommand
<1>3. CASE i % 2 = 1
  <2>1. ~Halfway /\ Halfway' /\ i' - 1 = i
    BY <1>1, <1>3, AtOddPlace
  <2>2. /\ \A g \in WFile : g # f => wfile[g] = Absent
        /\ \A k \in DOMAIN g_cmds : k % 2 = 1 => in_range[k] = in_range[k + 1]
        /\ out = Contents(f)
    BY <2>1 DEF WrittenWith
  <2>3. g_cmds[i + 1].a1 = g_cmds[i].a1 /\ g_cmds[i + 1].a2 = g_cmds[i].a2
    BY <1>1, <1>3, PairOfCommands DEF c
  <2>4. in_range[i + 1] = in_range[i]
    BY <1>2, <1>3, <2>2
  <2>5. ~AppliesAt(i)'
    BY <1>1, <2>3, <2>4 DEF AppliesAt, Ranged, Here, input
  <2> QED
    BY <1>1, <2>1, <2>2, <2>4, <2>5 DEF WrittenWith, Contents, input
<1>4. CASE i % 2 = 0
  <2>1. Halfway /\ ~Halfway'
    BY <1>1, <1>2, <1>4, OddOrEven DEF Halfway
  <2>2. /\ \A g \in WFile : g # f => wfile[g] = Absent
        /\ \A k \in DOMAIN g_cmds : (k % 2 = 1 /\ k # i - 1) => in_range[k] = in_range[k + 1]
        /\ out = Contents(f) /\ in_range[i - 1] = in_range[i]
    BY <1>1, <2>1 DEF WrittenWith
  <2>3. \A k \in DOMAIN g_cmds : k % 2 = 1 => in_range[k] = in_range[k + 1]
    <3>1. (i - 1) + 1 = i
      BY <1>2
    <3> QED
      BY <2>2, <3>1
  <2> QED
    BY <1>1, <2>1, <2>2, <2>3 DEF WrittenWith, Contents, input
<1> QED
  BY <1>2, <1>3, <1>4, OddOrEven

LEMMA PrintingStaysWritten ==
  ASSUME Types, NEW f \in WFile, WrittenWith(f), PrintSpace
  PROVE  WrittenWith(f)'
<1>1. /\ step = "exec" /\ i <= Len(g_cmds) /\ AppliesAt(i) /\ c.op = "p" /\ i' = i + 1
      /\ out' = out \o ps /\ ps' = ps /\ in_range' = [in_range EXCEPT ![i] = Ranged(c) /\ ~Ends(c, ps)]
      /\ UNCHANGED <<input, step, wfile>>
  BY DEF PrintSpace, Executes, Then, Goes, Applies, AppliesAt, c
<1> SUFFICES ASSUME ~job.auto, PrintsAndWrites(f) PROVE WrittenWith(f)'
  BY <1>1 DEF WrittenWith, PrintsAndWrites, input
<1>2. /\ i \in 1..Len(g_cmds) /\ Len(g_cmds) \in Nat /\ DOMAIN g_cmds = 1..Len(g_cmds)
      /\ in_range \in [DOMAIN g_cmds -> BOOLEAN]
  BY <1>1, IndexOfCommand
<1>3. i % 2 = 1
  BY <1>1, <1>2, OddOrEven, PairOfCommands
<1>4. ~Halfway /\ Halfway' /\ i' - 1 = i
  BY <1>1, <1>3, AtOddPlace
<1>5. /\ \A g \in WFile : g # f => wfile[g] = Absent
      /\ \A k \in DOMAIN g_cmds : k % 2 = 1 => in_range[k] = in_range[k + 1]
      /\ out = Contents(f)
  BY <1>4 DEF WrittenWith
<1>6. i + 1 \in 1..Len(g_cmds) /\ g_cmds[i + 1].a1 = g_cmds[i].a1 /\ g_cmds[i + 1].a2 = g_cmds[i].a2
  BY <1>1, <1>3, PairOfCommands DEF c
<1>7. /\ in_range'[i] = (Ranged(c) /\ ~Ends(c, ps)) /\ in_range'[i + 1] = in_range[i]
      /\ \A k \in DOMAIN g_cmds : (k % 2 = 1 /\ k # i) => in_range'[k] = in_range'[k + 1]
  <2>1. \A k \in DOMAIN g_cmds : k # i => in_range'[k] = in_range[k]
    BY <1>1, <1>2
  <2>2. in_range[i + 1] = in_range[i]
    BY <1>2, <1>3, <1>5
  <2>3. ASSUME NEW k \in DOMAIN g_cmds, k % 2 = 1, k # i PROVE in_range'[k] = in_range'[k + 1]
    <3>1. k + 1 # i
      BY <1>2, <1>3, <2>3, OddOrEven
    <3>2. k + 1 \in DOMAIN g_cmds
      BY <1>2, <2>3 DEF PrintsAndWrites
    <3> QED
      BY <1>5, <2>1, <2>3, <3>1, <3>2
  <2>4. in_range'[i] = (Ranged(c) /\ ~Ends(c, ps))
    BY <1>1, <1>2
  <2> QED
    BY <1>2, <1>6, <2>1, <2>2, <2>3, <2>4
<1>8. AppliesAt(i)' /\ (Ranged(c) /\ ~Ends(c, ps))' = (Ranged(c) /\ ~Ends(c, ps))
  BY <1>1, <1>6, <1>7 DEF AppliesAt, Ranged, Ends, Here, input, c
<1> QED
  BY <1>1, <1>4, <1>5, <1>7, <1>8 DEF WrittenWith, Contents, input

LEMMA WritingStaysWritten ==
  ASSUME Types, NEW f \in WFile, WrittenWith(f), Write
  PROVE  WrittenWith(f)'
<1>1. /\ step = "exec" /\ i <= Len(g_cmds) /\ AppliesAt(i) /\ c.op = "w" /\ i' = i + 1
      /\ out' = out \o <<>> /\ ps' = ps /\ in_range' = [in_range EXCEPT ![i] = Ranged(c) /\ ~Ends(c, ps)]
      /\ wfile' = AppendTo(c.file, ps)
      /\ UNCHANGED <<input, step>>
  BY DEF Write, Executes, Goes, Applies, AppliesAt, c
<1> SUFFICES ASSUME ~job.auto, PrintsAndWrites(f) PROVE WrittenWith(f)'
  BY <1>1 DEF WrittenWith, PrintsAndWrites, input
<1>2. /\ i \in 1..Len(g_cmds) /\ Len(g_cmds) \in Nat /\ DOMAIN g_cmds = 1..Len(g_cmds)
      /\ in_range \in [DOMAIN g_cmds -> BOOLEAN]
  BY <1>1, IndexOfCommand
<1>3. i % 2 = 0 /\ c.file = f
  BY <1>1, <1>2, OddOrEven, PairOfCommands
<1>4. Halfway /\ ~Halfway'
  BY <1>1, <1>2, <1>3, OddOrEven DEF Halfway
<1>5. /\ \A g \in WFile : g # f => wfile[g] = Absent
      /\ \A k \in DOMAIN g_cmds : (k % 2 = 1 /\ k # i - 1) => in_range[k] = in_range[k + 1]
      /\ out = Contents(f) \o ps /\ in_range[i - 1] = (Ranged(c) /\ ~Ends(c, ps))
  BY <1>1, <1>4 DEF WrittenWith
<1>6. out' = out
  BY <1>1, ConcatEmptySeq DEF Types, TypeOK
<1>7. ps \in Text /\ wfile \in [WFile -> Text \cup {Absent}]
  BY <1>1 DEF Types, TypeOK
<1>8. Contents(f)' = Contents(f) \o ps /\ \A g \in WFile : g # f => wfile'[g] = Absent
  <2>1. CASE wfile[f] = Absent
    <3>1. {g \in WFile : wfile[g] # Absent} = {}
      BY <1>5, <2>1
    <3>2. Cardinality({g \in WFile : wfile[g] # Absent}) < MaxWFiles
      BY <3>1, FS_EmptySet, MemoryAssumption
    <3>3. wfile' = [wfile EXCEPT ![f] = ps]
      BY <1>1, <1>3, <2>1, <3>2 DEF AppendTo, PrintsAndWrites
    <3>4. <<>> \o ps = ps
      BY <1>7, ConcatEmptySeq DEF Text
    <3> QED
      BY <1>5, <1>7, <2>1, <3>3, <3>4, PointerAssumption DEF Contents
  <2>2. CASE wfile[f] # Absent
    <3>1. wfile' = [wfile EXCEPT ![f] = wfile[f] \o ps]
      BY <1>1, <1>3, <2>2 DEF AppendTo
    <3>2. wfile[f] \o ps \in Text
      BY <1>7, <2>2, ConcatProperties DEF Text
    <3> QED
      BY <1>5, <1>7, <2>2, <3>1, <3>2, PointerAssumption DEF Contents
  <2> QED
    BY <2>1, <2>2
<1>9. \A k \in DOMAIN g_cmds : k % 2 = 1 => in_range'[k] = in_range'[k + 1]
  <2>1. \A k \in DOMAIN g_cmds : k # i => in_range'[k] = in_range[k]
    BY <1>1, <1>2
  <2>2. in_range'[i] = (Ranged(c) /\ ~Ends(c, ps))
    BY <1>1, <1>2
  <2> TAKE k \in DOMAIN g_cmds
  <2> HAVE k % 2 = 1
  <2>3. k # i
    BY <1>3
  <2>4. k + 1 \in DOMAIN g_cmds
    BY <1>2 DEF PrintsAndWrites
  <2>5. CASE k = i - 1
    BY <1>2, <1>5, <2>1, <2>2, <2>3, <2>5
  <2>6. CASE k # i - 1
    BY <1>2, <1>5, <2>1, <2>3, <2>4, <2>6
  <2> QED
    BY <2>5, <2>6
<1> QED
  BY <1>1, <1>4, <1>5, <1>6, <1>8, <1>9 DEF WrittenWith, input

LEMMA DriverStaysWritten ==
  ASSUME NEW f \in WFile, WrittenWith(f), Driver
  PROVE  WrittenWith(f)'
<1>1. UNCHANGED <<job, g_cmds, in_range, wfile>> /\ ~Halfway
  BY DEF Driver, OpenFile, ReadLine, ReadForNext, Start, NothingToPrint, EndOfFile, FinishJoin, FinishLine,
         Finish, Halfway, input
<1>2. ~job.auto => out' = out
  BY DEF Driver, OpenFile, ReadLine, ReadForNext, Start, NothingToPrint, EndOfFile, FinishJoin, FinishLine,
         Finish
<1>3. step' = "exec" => i' = 1
  BY DEF Driver, OpenFile, ReadLine, ReadForNext, Start, NothingToPrint, EndOfFile, FinishJoin, FinishLine,
         Finish
<1>4. ~Halfway'
  BY <1>3 DEF Halfway
<1> QED
  BY <1>1, <1>2, <1>4, ElsewhereStaysWritten

LEMMA StepStaysWritten ==
  ASSUME Types, NEW f \in WFile, WrittenWith(f), [Next]_vars
  PROVE  WrittenWith(f)'
<1>1. CASE Command
  <2>1. CASE PrintsAndWrites(f)
    <3>1. PrintSpace \/ Write
      <4>1. \E op \in {"p", "w"} : i <= Len(g_cmds) /\ c.op = op
        <5>1. i <= Len(g_cmds)
          BY <1>1 DEF Command, PrintSpace, PrintFirst, List, LineNumber, ShowText, ShowFile, Change, Translate,
             Get, GetAppend, Hold, HoldAppend, Exchange, Write, Substitute, DeleteFirst, Delete, Quit, NextLine,
             JoinLine, JoinLineFails, Executes
        <5>2. i % 2 \in {0, 1}
          BY <5>1, IndexOfCommand, OddOrEven
        <5> QED
          BY <2>1, <5>1, <5>2, PairOfCommands
      <4> QED
        BY <1>1, <4>1 DEF Command, PrintFirst, List, LineNumber, ShowText, ShowFile, Change, Translate,
             Get, GetAppend, Hold, HoldAppend, Exchange, Substitute, DeleteFirst, Delete, Quit, NextLine,
             JoinLine, JoinLineFails, Executes
    <3> QED
      BY <3>1, PrintingStaysWritten, WritingStaysWritten
  <2>2. CASE ~PrintsAndWrites(f)
    <3>1. g_cmds' = g_cmds
      BY <1>1 DEF Command, PrintSpace, PrintFirst, List, LineNumber, ShowText, ShowFile, Change, Translate,
             Get, GetAppend, Hold, HoldAppend, Exchange, Write, Substitute, DeleteFirst, Delete, Quit, NextLine,
             JoinLine, JoinLineFails, Then, Goes, Leaves, input
    <3> QED
      BY <2>2, <3>1 DEF WrittenWith, PrintsAndWrites
  <2> QED
    BY <2>1, <2>2
<1>2. CASE Driver
  BY <1>2, DriverStaysWritten
<1>3. CASE PassOver
  BY <1>3, PassingStaysWritten
<1>4. CASE EndOfScript
  <2>1. UNCHANGED <<job, g_cmds, in_range, wfile, out>> /\ step' = "after" /\ i > Len(g_cmds)
    BY <1>4 DEF EndOfScript, input
  <2>2. ~Halfway'
    BY <2>1 DEF Halfway
  <2>3. PrintsAndWrites(f) => ~Halfway
    <3> SUFFICES ASSUME PrintsAndWrites(f), i % 2 = 0 PROVE FALSE
      BY DEF Halfway
    <3>1. i = Len(g_cmds) + 1 /\ Len(g_cmds) \in Nat /\ DOMAIN g_cmds = 1..Len(g_cmds)
      BY <2>1, IndexOfCommand
    <3>2. Len(g_cmds) % 2 = 1 /\ Len(g_cmds) \in 1..Len(g_cmds)
      BY <3>1, OddOrEven
    <3>3. Len(g_cmds) < Len(g_cmds)
      BY <3>1, <3>2 DEF PrintsAndWrites
    <3> QED
      BY <3>1, <3>3
  <2>4. ~PrintsAndWrites(f) => WrittenWith(f)'
    BY <2>1 DEF WrittenWith, PrintsAndWrites
  <2> QED
    BY <2>1, <2>2, <2>3, <2>4, ElsewhereStaysWritten
<1>5. CASE UNCHANGED vars
  BY <1>5 DEF vars, WrittenWith, PrintsAndWrites, Halfway, Contents, AppliesAt, Here, Ranged, Ends, c
<1> QED
  BY <1>1, <1>2, <1>3, <1>4, <1>5 DEF Next, Ended

(* A file that several commands write to, on whichever lines, holds what all  *)
(* of them have written, in order: it is truncated by the first alone.        *)
THEOREM FilesAreWritten == Spec => []WrittenAsPrinted
<1> DEFINE Written == \A f \in WFile : WrittenWith(f)
<1>1. Init => Written
  <2> SUFFICES ASSUME Init, NEW f \in WFile PROVE WrittenWith(f)
    OBVIOUS
  <2>1. \A k \in DOMAIN g_cmds : in_range[k] = FALSE
    BY DEF Init
  <2>2. ASSUME PrintsAndWrites(f), NEW k \in DOMAIN g_cmds, k % 2 = 1 PROVE in_range[k] = in_range[k + 1]
    <3>1. DOMAIN g_cmds = 1..Len(g_cmds) /\ Len(g_cmds) \in Nat
      BY InitTypes, IndexOfCommand
    <3>2. k + 1 \in DOMAIN g_cmds
      BY <2>2, <3>1 DEF PrintsAndWrites
    <3> QED
      BY <2>1, <3>2
  <2> QED
    BY <2>2 DEF Init, WrittenWith, Halfway, Contents
<1>2. Types /\ Written /\ [Next]_vars => Written'
  BY StepStaysWritten
<1>3. Written /\ Settled => WrittenAsPrinted
  <2> SUFFICES ASSUME Written, Settled, BetweenLines, ~job.auto, NEW f \in WFile, PrintsAndWrites(f)
               PROVE  out = Contents(f)
    BY DEF WrittenAsPrinted, Contents
  <2>1. ~Halfway
    BY DEF Settled, BetweenLines, Halfway
  <2> QED
    BY <2>1 DEF WrittenWith
<1> HIDE DEF Written
<1> QED
  BY <1>1, <1>2, <1>3, TypesHold, SettledHolds, PTL DEF Spec

-----------------------------------------------------------------------------
(* LinesAccounted.  Where the marker of N fits every line, each character read *)
(* is printed, under way in the pattern space, or held back by x.              *)

RoomForMarker ==
  \A j \in Jobs : \A k \in DOMAIN j.input :
    j.input[k] # Absent => \A n \in DOMAIN j.input[k] : Len(j.input[k][n]) < MaxSpace

UnderWay == IF step \in {"exec", "after"} /\ ps # Null THEN ps ELSE <<>>

HandedOver ==
  (HandsOver /\ job.auto /\ status # "failed") =>
    /\ step = "exec" => ps \in Line /\ Len(ps) < MaxSpace
    /\ Chars(out \o UnderWay) = Chars(LinesRead)

HeldBack ==
  (HoldsBack /\ job.auto /\ status # "failed") =>
    /\ ps \in Line \cup {Null} /\ hs \in Line \cup {Null}
    /\ IF step = "exec" /\ i = 1
         THEN Chars((out \o Held) \o ps) = Chars(LinesRead)
         ELSE Chars((out \o UnderWay) \o Held) = Chars(LinesRead)

\* what fgets returns of the first n files
Before(n) == FlattenSeq([k \in 1..n |-> FlattenSeq(job.input[k])])

LEMMA BeforeIsLine ==
  ASSUME Types, NEW n \in 0..file
  PROVE  /\ [k \in 1..n |-> FlattenSeq(job.input[k])] \in Seq(Line)
         /\ Before(n) \in Line
<1>1. n \in Nat /\ \A k \in 1..n : job.input[k] \in Seq(Line)
  BY FileNumbers DEF Types
<1>2. \A k \in 1..n : FlattenSeq(job.input[k]) \in Line
  BY <1>1, FlattenIsSeq DEF Line
<1>3. [k \in 1..n |-> FlattenSeq(job.input[k])] \in Seq(Line)
  BY <1>1, <1>2
<1> QED
  BY <1>3, FlattenIsSeq DEF Before, Line

LEMMA BeforeAdds ==
  ASSUME Types, NEW n \in 1..file
  PROVE  Before(n) = Before(n - 1) \o FlattenSeq(job.input[n])
<1> DEFINE A(m) == [k \in 1..m |-> FlattenSeq(job.input[k])]
<1>1. n \in Nat /\ n - 1 \in 0..file /\ n \in 0..file
  BY FileNumbers
<1>2. FlattenSeq(job.input[n]) \in Line
  BY FlattenIsSeq DEF Types, Line
<1>3. A(n - 1) \in Seq(Line) /\ A(n) \in Seq(Line)
  BY <1>1, BeforeIsLine
<1>4. A(n) = A(n - 1) \o <<FlattenSeq(job.input[n])>>
  <2> DEFINE G == [k \in 1..n |-> FlattenSeq(job.input[k])]
             H == [k \in 1..n - 1 |-> G[k]]
  <2>1. A(n) = G /\ A(n - 1) = H /\ G[n] = FlattenSeq(job.input[n]) /\ DOMAIN G = 1..n
    BY <1>1
  <2>2. G \in Seq(Line) /\ H \in Seq(Line)
    BY <1>3, <2>1
  <2> HIDE DEF A, G
  <2>3. G = H \o <<G[n]>>
    BY <1>1, <2>1, <2>2
  <2> QED
    BY <2>1, <2>3
<1> HIDE DEF A
<1>5. FlattenSeq(A(n)) = FlattenSeq(A(n - 1)) \o FlattenSeq(job.input[n])
  BY <1>2, <1>3, <1>4, FlattenAdd DEF Line
<1> QED
  BY <1>5 DEF Before, A

\* what fgets has returned when it has read n lines of the file f
ReadTo(f, n) ==
  FlattenSeq([k \in 1..f |-> FlattenSeq(IF k < f THEN job.input[k] ELSE SubSeq(job.input[f], 1, n))])

LEMMA ReadToFile ==
  ASSUME Types, NEW f \in Nat, f # 0, \A k \in 1..f : job.input[k] \in Seq(Line),
         NEW n \in 0..Len(job.input[f])
  PROVE  /\ SubSeq(job.input[f], 1, n) \in Seq(Line)
         /\ ReadTo(f, n) = Before(f - 1) \o FlattenSeq(SubSeq(job.input[f], 1, n))
<1> DEFINE A == [k \in 1..f - 1 |-> FlattenSeq(job.input[k])]
           S == SubSeq(job.input[f], 1, n)
           X == FlattenSeq(S)
           B == [k \in 1..f |-> FlattenSeq(IF k < f THEN job.input[k] ELSE S)]
<1>1. S \in Seq(Line)
  <2>1. job.input[f] \in Seq(Line)
    OBVIOUS
  <2>2. Len(job.input[f]) \in Nat
    BY <2>1, LenProperties
  <2>3. \A k \in 1..n : job.input[f][k] \in Line
    BY <2>1, <2>2, ElementOfSeq
  <2> QED
    BY <2>2, <2>3, SubSeqProperties
<1>2. X \in Line
  BY <1>1, FlattenIsSeq DEF Line
<1>3. A \in Seq(Line)
  <2>1. \A k \in 1..f - 1 : FlattenSeq(job.input[k]) \in Line
    BY FlattenIsSeq DEF Line
  <2> QED
    BY <2>1
<1>4. B = A \o <<X>>
  OBVIOUS
<1>5. ReadTo(f, n) = FlattenSeq(B) /\ Before(f - 1) = FlattenSeq(A)
  BY DEF ReadTo, Before
<1> HIDE DEF A, B, X
<1>6. FlattenSeq(A \o <<X>>) = FlattenSeq(A) \o X
  BY <1>2, <1>3, FlattenAdd DEF Line
<1> QED
  BY <1>1, <1>4, <1>5, <1>6 DEF X

LEMMA ReadOfFile ==
  ASSUME Types, file # 0
  PROVE  /\ SubSeq(Lines, 1, next - 1) \in Seq(Line)
         /\ LinesRead = Before(file - 1) \o FlattenSeq(SubSeq(Lines, 1, next - 1))
<1>1. file \in Nat /\ \A k \in 1..file : job.input[k] \in Seq(Line)
  BY FileNumbers DEF Types
<1>2. next - 1 \in 0..Len(Lines)
  <2>1. Len(Lines) \in Nat /\ next \in 1..Len(Lines) + 1
    BY LineIsText
  <2> QED
    BY <2>1
<1>3. LinesRead = ReadTo(file, next - 1)
  BY DEF LinesRead, ReadTo, Lines
<1> QED
  BY <1>1, <1>2, <1>3, ReadToFile DEF Lines

LEMMA ReadIsLine ==
  ASSUME Types
  PROVE  LinesRead \in Line
<1>1. CASE file = 0
  <2>1. LinesRead = FlattenSeq(<<>>)
    BY <1>1 DEF LinesRead
  <2> QED
    BY <2>1, FlattenOfNone, EmptySeq DEF Line
<1>2. CASE file # 0
  <2>1. file - 1 \in 0..file
    BY <1>2, FileNumbers
  <2>2. Before(file - 1) \in Line /\ FlattenSeq(SubSeq(Lines, 1, next - 1)) \in Line
    BY <1>2, <2>1, BeforeIsLine, ReadOfFile, FlattenIsSeq DEF Line
  <2> QED
    BY <1>2, <2>2, ReadOfFile, ConcatProperties DEF Line
<1> QED
  BY <1>1, <1>2

\* fgets returns one line more
LEMMA ReadOneMore ==
  ASSUME Types, Types', file # 0, More, next' = next + 1, UNCHANGED <<job, file>>
  PROVE  LinesRead' = LinesRead \o Lines[next] /\ Lines[next] \in Line
<1> DEFINE S == SubSeq(Lines, 1, next - 1)
<1>1. Lines \in Seq(Line) /\ Len(Lines) \in Nat /\ next \in 1..Len(Lines) /\ Lines[next] \in Line
  BY LineIsText
<1>2. SubSeq(Lines, 1, next) = S \o <<Lines[next]>>
  <2>1. 1 \in 1..Len(Lines) /\ next \in 1..Len(Lines)
    BY <1>1
  <2> QED
    BY <1>1, <2>1, SubSeqRecursiveSecond
<1>3. S \in Seq(Line) /\ LinesRead = Before(file - 1) \o FlattenSeq(S)
  BY ReadOfFile
<1>4. LinesRead' = Before(file - 1) \o FlattenSeq(SubSeq(Lines, 1, next))
  <2>1. next' - 1 = next
    BY <1>1
  <2>2. LinesRead' = ReadTo(file, next)
    BY <2>1 DEF LinesRead, ReadTo, Lines
  <2>3. next \in 0..Len(Lines) /\ file \in Nat /\ \A k \in 1..file : job.input[k] \in Seq(Line)
    BY <1>1, FileNumbers DEF Types
  <2> QED
    BY <2>2, <2>3, ReadToFile DEF Lines
<1>5. Before(file - 1) \in Line
  BY BeforeIsLine, FileNumbers
<1> HIDE DEF S
<1>6. FlattenSeq(S \o <<Lines[next]>>) = FlattenSeq(S) \o Lines[next] /\ FlattenSeq(S) \in Line
  BY <1>1, <1>3, FlattenAdd, FlattenIsSeq DEF Line
<1>7. (Before(file - 1) \o FlattenSeq(S)) \o Lines[next] = Before(file - 1) \o (FlattenSeq(S) \o Lines[next])
  <2> DEFINE B == Before(file - 1)
             F == FlattenSeq(S)
             L == Lines[next]
  <2>1. B \in Line /\ F \in Line /\ L \in Line
    BY <1>1, <1>5, <1>6
  <2> HIDE DEF B, F, L
  <2>2. (B \o F) \o L = B \o (F \o L)
    BY <2>1, ConcatAssociative, SMTT(30) DEF Line
  <2> QED
    BY <2>2 DEF B, F, L
<1> QED
  BY <1>1, <1>2, <1>3, <1>4, <1>6, <1>7

\* fopen reads nothing, and the file before it has been read to its end
LEMMA OpenReadsNothing ==
  ASSUME Types, Types', OpenFile
  PROVE  LinesRead' = LinesRead
<1>1. CASE UNCHANGED <<job, file, next>>
  BY <1>1 DEF LinesRead, Lines
<1>2. CASE file' = file + 1 /\ next' = 1 /\ job' = job /\ step = "open"
  <2>1. file \in Nat
    BY FileNumbers
  <2>2. LinesRead' = Before(file) \o FlattenSeq(<<>>)
    <3>1. file + 1 \in Nat /\ file + 1 # 0 /\ (file + 1) - 1 = file /\ next' - 1 = 0
      BY <1>2, <2>1
    <3>2. \A k \in 1..file + 1 : job.input[k] \in Seq(Line)
      BY <1>2 DEF Types
    <3>3. 0 \in 0..Len(job.input[file + 1])
      <4>1. file + 1 \in 1..file + 1
        BY <2>1
      <4>2. Len(job.input[file + 1]) \in Nat
        BY <3>2, <4>1, LenProperties
      <4> QED
        BY <4>2
    <3>4. LinesRead' = ReadTo(file + 1, 0)
      BY <1>2, <3>1 DEF LinesRead, ReadTo, Lines
    <3>5. SubSeq(job.input[file + 1], 1, 0) = <<>>
      BY SubSeqEmpty
    <3>6. ReadTo(file + 1, 0) = Before((file + 1) - 1) \o FlattenSeq(SubSeq(job.input[file + 1], 1, 0))
      BY <3>1, <3>2, <3>3, ReadToFile
    <3> QED
      BY <3>1, <3>4, <3>5, <3>6
  <2>3. LinesRead' = Before(file)
    <3>1. Before(file) \in Line
      BY <2>1, BeforeIsLine
    <3> QED
      BY <2>2, <3>1, FlattenOfNone, ConcatEmptySeq DEF Line
  <2>4. CASE file = 0
    BY <2>3, <2>4 DEF LinesRead, Before
  <2>5. CASE file # 0
    <3>1. next - 1 = Len(Lines) /\ Lines \in Seq(Line)
      <4>1. next = Len(Lines) + 1 /\ Lines \in Seq(Line) /\ Len(Lines) \in Nat
        BY <1>2, <2>5, LineIsText DEF Types
      <4> QED
        BY <4>1
    <3>2. LinesRead = Before(file - 1) \o FlattenSeq(Lines)
      BY <2>5, <3>1, ReadOfFile, SubSeqFull
    <3>3. Before(file) = Before(file - 1) \o FlattenSeq(Lines)
      <4>1. file \in 1..file
        BY <2>1, <2>5
      <4> QED
        BY <4>1, BeforeAdds DEF Lines
    <3> QED
      BY <2>3, <3>2, <3>3
  <2> QED
    BY <2>4, <2>5
<1> QED
  BY <1>1, <1>2 DEF OpenFile

-----------------------------------------------------------------------------

LEMMA CharsOfPrinted ==
  ASSUME NEW s \in Seq(Printed), NEW t \in Seq(Printed)
  PROVE  s \o t \in Seq(Printed) /\ Chars(s) \in Seq(Char) /\ Chars(s \o t) = Chars(s) \o Chars(t)
BY ConcatProperties, CharsIsSeq, CharsConcat

\* neither a newline nor a marker nor a number is a character
LEMMA NoChars ==
  /\ Chars(<<Newline>>) = <<>> /\ <<Newline>> \in Seq(Printed)
  /\ Chars(<<Marker>>) = <<>> /\ <<Marker>> \in Seq(Printed)
  /\ lineno \in Nat => Chars(<<lineno, Newline>>) = <<>> /\ <<lineno, Newline>> \in Seq(Printed)
<1>1. /\ Chars(<<Newline>>) = <<>> /\ <<Newline>> \in Seq(Printed)
      /\ Chars(<<Marker>>) = <<>> /\ <<Marker>> \in Seq(Printed)
  BY CharsOfOther, SymbolAssumption DEF Printed, Symbol
<1>2. ASSUME lineno \in Nat PROVE Chars(<<lineno, Newline>>) = <<>> /\ <<lineno, Newline>> \in Seq(Printed)
  <2>1. Chars(<<lineno>>) = <<>> /\ <<lineno>> \in Seq(Printed)
    BY <1>2, CharsOfOther, SymbolAssumption DEF Printed
  <2>2. <<lineno, Newline>> = <<lineno>> \o <<Newline>>
    OBVIOUS
  <2>3. Chars(<<lineno>> \o <<Newline>>) = <<>> \o <<>> /\ <<lineno>> \o <<Newline>> \in Seq(Printed)
    BY <1>1, <2>1, CharsOfPrinted
  <2>4. <<>> \o <<>> = <<>>
    BY EmptySeq, ConcatEmptySeq
  <2> QED
    BY <2>2, <2>3, <2>4
<1> QED
  BY <1>1, <1>2

LEMMA LinesArePrinted == \A t \in Line : t \in Seq(Printed)
BY PrintedTexts

LEMMA SpacesArePrinted ==
  ASSUME Types
  PROVE  /\ out \in Seq(Printed) /\ UnderWay \in Seq(Printed) /\ Held \in Seq(Printed)
         /\ LinesRead \in Seq(Printed) /\ lineno \in Nat
<1>1. out \in Seq(Printed) /\ lineno \in Nat
  BY DEF Types, TypeOK, Printed
<1>2. UnderWay \in Text
  BY HeldIsText, PrintedTexts DEF UnderWay
<1> QED
  BY <1>1, <1>2, HeldIsText, ReadIsLine, LinesArePrinted, PrintedTexts

\* a line that is printed is no longer under way
LEMMA EmptyEnd ==
  ASSUME NEW s \in Seq(Printed)
  PROVE  s \o <<>> = s /\ <<>> \o s = s
BY ConcatEmptySeq


LEMMA CharsOfThree ==
  ASSUME NEW s \in Seq(Printed), NEW t \in Seq(Printed), NEW u \in Seq(Printed)
  PROVE  /\ (s \o t) \o u \in Seq(Printed)
         /\ Chars((s \o t) \o u) = (Chars(s) \o Chars(t)) \o Chars(u)
         /\ (s \o t) \o u = s \o (t \o u)
         /\ (Chars(s) \o Chars(t)) \o Chars(u) = Chars(s) \o (Chars(t) \o Chars(u))
<1>1. s \o t \in Seq(Printed) /\ Chars(s \o t) = Chars(s) \o Chars(t)
  BY CharsOfPrinted
<1>2. (s \o t) \o u \in Seq(Printed) /\ Chars((s \o t) \o u) = Chars(s \o t) \o Chars(u)
  BY <1>1, CharsOfPrinted
<1>3. (s \o t) \o u = s \o (t \o u)
  BY ConcatAssociative
<1>4. Chars(s) \in Seq(Char) /\ Chars(t) \in Seq(Char) /\ Chars(u) \in Seq(Char)
  BY CharsOfPrinted
<1>5. (Chars(s) \o Chars(t)) \o Chars(u) = Chars(s) \o (Chars(t) \o Chars(u))
  BY <1>4, ConcatAssociative, SMTT(30)
<1> QED
  BY <1>1, <1>2, <1>3, <1>5

\* what has no characters, between two texts and after them
LEMMA CharsBetween ==
  ASSUME NEW s \in Seq(Printed), NEW x \in Seq(Printed), NEW t \in Seq(Printed), Chars(x) = <<>>
  PROVE  (s \o x) \o t \in Seq(Printed) /\ Chars((s \o x) \o t) = Chars(s) \o Chars(t)
<1>1. Chars((s \o x) \o t) = (Chars(s) \o Chars(x)) \o Chars(t) /\ (s \o x) \o t \in Seq(Printed)
  BY CharsOfThree
<1>2. Chars(s) \o <<>> = Chars(s)
  BY CharsOfPrinted, ConcatEmptySeq
<1> QED
  BY <1>1, <1>2

LEMMA CharsAtEnd ==
  ASSUME NEW s \in Seq(Printed), NEW t \in Seq(Printed), NEW x \in Seq(Printed), Chars(x) = <<>>
  PROVE  Chars(s \o (t \o x)) = Chars(s \o t)
<1>1. s \o t \in Seq(Printed) /\ Chars(s \o t) \in Seq(Char)
  BY CharsOfPrinted
<1>2. Chars((s \o t) \o x) = Chars(s \o t) \o Chars(x)
  BY <1>1, CharsOfPrinted
<1>3. (s \o t) \o x = s \o (t \o x)
  BY ConcatAssociative
<1>4. Chars(s \o t) \o <<>> = Chars(s \o t)
  BY <1>1, ConcatEmptySeq
<1> QED
  BY <1>2, <1>3, <1>4

\* the job and the script stay, and what has failed has failed
LEMMA JobStays ==
  ASSUME [Next]_vars
  PROVE  job' = job /\ g_cmds' = g_cmds /\ (status = "failed" => status' = "failed")
<1>1. CASE Command
  BY <1>1 DEF Command, PrintSpace, PrintFirst, List, LineNumber, ShowText, ShowFile, Change, Translate, Get,
              GetAppend, Hold, HoldAppend, Exchange, Write, Substitute, DeleteFirst, Delete, Quit, NextLine,
              JoinLine, JoinLineFails, Then, Goes, Leaves, Executes, input
<1>2. CASE Driver
  BY <1>2 DEF Driver, OpenFile, ReadLine, ReadForNext, Start, NothingToPrint, EndOfFile, FinishJoin,
              FinishLine, Finish, input
<1>3. CASE PassOver \/ EndOfScript \/ UNCHANGED vars
  BY <1>3 DEF PassOver, EndOfScript, vars, input
<1> QED
  BY <1>1, <1>2, <1>3 DEF Next, Ended

\* the steps that change neither the pattern space nor what is printed
LEMMA QuietSteps ==
  ASSUME PassOver \/ EndOfScript \/ NothingToPrint \/ EndOfFile \/ UNCHANGED vars
  PROVE  /\ UNCHANGED <<job, g_cmds, hs, ps, out>> /\ UnderWay' = UnderWay /\ LinesRead' = LinesRead
         /\ step' = "exec" => step = "exec" /\ (PassOver \/ i' = i)
BY DEF PassOver, EndOfScript, NothingToPrint, EndOfFile, vars, input, UnderWay, LinesRead, Lines

LEMMA Starting ==
  ASSUME Types, Types', RoomForMarker, ReadLine \/ ReadForNext
  PROVE  /\ UnderWay = <<>> /\ UnderWay' = Lines[next] /\ Lines[next] \in Line /\ ps' = Lines[next]
         /\ Len(Lines[next]) < MaxSpace /\ LinesRead' = LinesRead \o Lines[next]
         /\ UNCHANGED <<job, g_cmds, hs, out>> /\ step # "exec" /\ step' = "exec" /\ i' = 1
<1>1. /\ step # "open" /\ step # "exec" /\ More /\ Start /\ UnderWay = <<>>
  BY DEF ReadLine, ReadForNext, UnderWay
<1>2. file # 0
  BY <1>1 DEF Types
<1>3. /\ ps' = Lines[next] /\ next' = next + 1 /\ UNCHANGED <<job, g_cmds, file, hs, out>>
      /\ step' = "exec" /\ i' = 1
  BY <1>1 DEF Start
<1>4. LinesRead' = LinesRead \o Lines[next] /\ Lines[next] \in Line
  BY <1>1, <1>2, <1>3, ReadOneMore
<1>5. Lines[next] # Null
  BY <1>4, PrintedTexts, PointerAssumption
<1>6. Len(Lines[next]) < MaxSpace
  <2>1. file \in 1..Len(job.input) /\ DOMAIN job.input = 1..Len(job.input) /\ file \in 1..file
    BY <1>2, FileNumbers, LenProperties
  <2>2. job.input[file] \in Seq(Line)
    BY <2>1 DEF Types
  <2>3. next \in DOMAIN job.input[file]
    BY <1>1, <1>2, <2>2, LineIsText, LenProperties DEF Lines
  <2>4. job.input[file] # Absent
    BY <2>2, PointerAssumption
  <2> QED
    BY <2>1, <2>3, <2>4 DEF RoomForMarker, Types, Lines
<1> QED
  BY <1>1, <1>3, <1>4, <1>5, <1>6 DEF UnderWay

LEMMA OpsOfScript ==
  ASSUME Types, i <= Len(g_cmds)
  PROVE  c.op \in Ops
BY IndexOfCommand DEF Ops, c

LEMMA CommandsHandOver ==
  ASSUME Types, RoomForMarker, HandsOver, job.auto, status # "failed", HandedOver, Command
  PROVE  /\ LinesRead' = LinesRead /\ Chars(out' \o UnderWay') = Chars(out \o UnderWay)
         /\ step' = "exec" => ps' = ps
<1> USE DEF Executes
<1>1. step = "exec" /\ i <= Len(g_cmds)
  BY DEF Command, PrintSpace, PrintFirst, List, LineNumber, ShowText, ShowFile, Change, Translate, Get,
         GetAppend, Hold, HoldAppend, Exchange, Write, Substitute, DeleteFirst, Delete, Quit, NextLine,
         JoinLine, JoinLineFails
<1>2. c.op \in {"n", "N", "h", "w", "=", "q"}
  BY <1>1, OpsOfScript DEF HandsOver
<1>3. ps \in Line /\ Len(ps) < MaxSpace /\ ps \in Text /\ ps # Null /\ UnderWay = ps
  <2>1. ps \in Line /\ Len(ps) < MaxSpace
    BY <1>1 DEF HandedOver
  <2> QED
    BY <1>1, <2>1, PrintedTexts, PointerAssumption DEF UnderWay
<1>4. out \in Seq(Printed) /\ ps \in Seq(Printed) /\ lineno \in Nat
  BY <1>3, SpacesArePrinted, PrintedTexts
<1>5. NextLine \/ JoinLine \/ Hold \/ Write \/ LineNumber \/ Quit
  <2>1. ~JoinLineFails
    <3>1. Len(Append(ps, Marker)) = Len(ps) + 1 /\ Len(ps) \in Nat
      BY <1>3, AppendProperties, LenProperties DEF Text, Symbol
    <3>2. Fits(Append(ps, Marker))
      BY <1>3, <3>1, MemoryAssumption DEF Fits
    <3> QED
      BY <3>2 DEF JoinLineFails
  <2> QED
    BY <1>2, <2>1 DEF Command, PrintSpace, PrintFirst, List, ShowText, ShowFile, Change, Translate, Get,
         GetAppend, HoldAppend, Exchange, Substitute, DeleteFirst, Delete
<1>6. LinesRead' = LinesRead
  BY <1>5 DEF NextLine, JoinLine, Hold, Write, LineNumber, Quit, Then, Goes, Leaves, input, LinesRead, Lines
<1>7. CASE NextLine
  <2>1. out' = out \o ps /\ UnderWay' = <<>> /\ step' = "after"
    BY <1>7 DEF NextLine, Leaves, UnderWay
  <2>2. (out \o ps) \o <<>> = out \o ps
    BY <1>4, CharsOfPrinted, EmptyEnd
  <2> QED
    BY <1>3, <1>6, <2>1, <2>2
<1>8. CASE JoinLine
  <2>1. out' = out /\ ps' = Append(ps, Marker) /\ step' = "after"
    BY <1>8 DEF JoinLine, Leaves
  <2>2. Append(ps, Marker) = ps \o <<Marker>> /\ Append(ps, Marker) \in Text
    BY <1>3, AppendIsConcat, AppendProperties DEF Text, Symbol
  <2>3. UnderWay' = ps \o <<Marker>>
    BY <2>1, <2>2, PointerAssumption DEF UnderWay
  <2>4. Chars(out \o (ps \o <<Marker>>)) = Chars(out \o ps)
    <3> DEFINE x == <<Marker>>
    <3>1. x \in Seq(Printed) /\ Chars(x) = <<>>
      BY NoChars
    <3> HIDE DEF x
    <3>2. Chars(out \o (ps \o x)) = Chars(out \o ps)
      BY <1>4, <3>1, CharsAtEnd
    <3> QED
      BY <3>2 DEF x
  <2> QED
    BY <1>3, <1>6, <2>1, <2>3, <2>4
<1>9. CASE Hold \/ Write \/ Quit
  <2>1. out' = out \/ out' = out \o <<>>
    BY <1>9 DEF Hold, Write, Quit, Goes
  <2>2. out' = out
    BY <1>4, <2>1, EmptyEnd
  <2>3. ps' = ps /\ step' \in {"exec", "after"}
    BY <1>1, <1>9 DEF Hold, Write, Quit, Goes, Leaves
  <2> QED
    BY <1>1, <1>3, <1>6, <2>2, <2>3 DEF UnderWay
<1>10. CASE LineNumber
  <2>1. out' = out \o <<lineno, Newline>> /\ ps' = ps /\ step' = step
    BY <1>10 DEF LineNumber, Then, Goes
  <2>2. UnderWay' = ps
    BY <1>1, <1>3, <2>1 DEF UnderWay
  <2>3. Chars((out \o <<lineno, Newline>>) \o ps) = Chars(out) \o Chars(ps)
    <3> DEFINE x == <<lineno, Newline>>
    <3>1. x \in Seq(Printed) /\ Chars(x) = <<>>
      BY <1>4, NoChars
    <3> HIDE DEF x
    <3>2. Chars((out \o x) \o ps) = Chars(out) \o Chars(ps)
      BY <1>4, <3>1, CharsBetween
    <3> QED
      BY <3>2 DEF x
  <2>4. Chars(out \o ps) = Chars(out) \o Chars(ps)
    BY <1>4, CharsOfPrinted
  <2> QED
    BY <1>3, <1>6, <2>1, <2>2, <2>3, <2>4
<1> QED
  BY <1>5, <1>7, <1>8, <1>9, <1>10

LEMMA FinishingHandsOver ==
  ASSUME Types, Types', job.auto, status' # "failed", FinishJoin \/ FinishLine,
         Chars(out \o UnderWay) = Chars(LinesRead)
  PROVE  Chars(out' \o UnderWay') = Chars(LinesRead') /\ step' # "exec"
<1>1. step = "after" /\ ps # Null /\ file # 0 /\ UnderWay = ps
  BY DEF FinishJoin, FinishLine, Marked, Types, UnderWay
<1>2. ps \in Text /\ out \in Seq(Printed) /\ ps \in Seq(Printed) /\ LinesRead \in Seq(Printed)
  BY <1>1, HeldIsText, SpacesArePrinted, PrintedTexts
<1>3. CASE FinishLine
  <2>1. out' = out \o ps /\ step' = "read" /\ UnderWay' = <<>> /\ LinesRead' = LinesRead
    BY <1>3 DEF FinishLine, Finish, UnderWay, LinesRead, Lines
  <2>2. (out \o ps) \o <<>> = out \o ps
    BY <1>2, CharsOfPrinted, EmptyEnd
  <2> QED
    BY <1>1, <2>1, <2>2
<1>4. CASE FinishJoin
  <2> DEFINE first == SubSeq(ps, 1, Len(ps) - 1)
             line == Lines[next]
             joined == first \o <<Newline>> \o line
  <2>1. first \in Seq(Printed) /\ ps = first \o <<Marker>>
    BY <1>1, <1>4, JoinedIsText, PrintedTexts DEF FinishJoin
  <2>2. \/ ~More /\ Finish(first) /\ UNCHANGED <<next, lineno>>
        \/ More /\ Finish(joined) /\ next' = next + 1
    BY <1>4 DEF FinishJoin
  <2>3. More => LinesRead' = LinesRead \o line /\ line \in Seq(Printed)
    <3>1. More => next' = next + 1 /\ UNCHANGED <<job, file>>
      BY <2>2 DEF Finish
    <3> QED
      BY <1>1, <3>1, ReadOneMore, LinesArePrinted
  <2> HIDE DEF first, joined, line
  <2>4. Chars(out) \o Chars(first) = Chars(LinesRead) /\ Chars(out \o first) = Chars(LinesRead)
          /\ Chars(LinesRead) \in Seq(Char) /\ out \o first \in Seq(Printed)
    <3>1. Chars(out \o (first \o <<Marker>>)) = Chars(out \o first)
      <4> DEFINE x == <<Marker>>
      <4>1. x \in Seq(Printed) /\ Chars(x) = <<>>
        BY NoChars
      <4> HIDE DEF x
      <4>2. Chars(out \o (first \o x)) = Chars(out \o first)
        BY <1>2, <2>1, <4>1, CharsAtEnd
      <4> QED
        BY <4>2 DEF x
    <3>2. Chars(out \o first) = Chars(out) \o Chars(first) /\ Chars(out \o first) \in Seq(Char)
             /\ out \o first \in Seq(Printed)
      BY <1>2, <2>1, CharsOfPrinted
    <3> QED
      BY <1>1, <2>1, <3>1, <3>2
  <2>5. CASE ~More /\ Finish(first) /\ UNCHANGED <<next, lineno>>
    <3>1. out' = out \o first /\ step' = "read" /\ UnderWay' = <<>> /\ LinesRead' = LinesRead
      BY <2>5 DEF Finish, UnderWay, LinesRead, Lines
    <3>2. (out \o first) \o <<>> = out \o first
      BY <2>4, EmptyEnd
    <3> QED
      BY <2>4, <3>1, <3>2
  <2>6. CASE More /\ Finish(joined) /\ next' = next + 1
    <3>1. out' = out \o joined /\ step' = "read" /\ UnderWay' = <<>>
      BY <2>6 DEF Finish, UnderWay
    <3>2. LinesRead' = LinesRead \o line /\ line \in Seq(Printed)
      BY <2>3, <2>6
    <3>3. joined \in Seq(Printed) /\ Chars(joined) = Chars(first) \o Chars(line)
      <4> DEFINE x == <<Newline>>
      <4>1. x \in Seq(Printed) /\ Chars(x) = <<>>
        BY NoChars
      <4> HIDE DEF x
      <4>2. (first \o x) \o line \in Seq(Printed) /\ Chars((first \o x) \o line) = Chars(first) \o Chars(line)
        BY <2>1, <3>2, <4>1, CharsBetween
      <4> QED
        BY <4>2 DEF x, joined
    <3>5. Chars(out \o joined) = Chars(out) \o (Chars(first) \o Chars(line))
            /\ (out \o joined) \o <<>> = out \o joined
      <4>1. out \in Seq(Printed) /\ joined \in Seq(Printed)
        BY <1>2, <3>3
      <4>2. Chars(out \o joined) = Chars(out) \o Chars(joined) /\ out \o joined \in Seq(Printed)
        BY <4>1, CharsOfPrinted
      <4> QED
        BY <3>3, <4>2, EmptyEnd
    <3>6. Chars(out) \o (Chars(first) \o Chars(line)) = (Chars(out) \o Chars(first)) \o Chars(line)
      <4>1. out \in Seq(Printed) /\ first \in Seq(Printed) /\ line \in Seq(Printed)
        BY <1>2, <2>1, <3>2
      <4> QED
        BY <4>1, CharsOfThree
    <3>7. Chars(LinesRead \o line) = Chars(LinesRead) \o Chars(line)
      BY <1>2, <3>2, CharsOfPrinted
    <3> QED
      BY <2>4, <3>1, <3>2, <3>5, <3>6, <3>7
  <2> QED
    BY <2>2, <2>5, <2>6
<1> QED
  BY <1>3, <1>4

LEMMA OpeningIsQuiet ==
  ASSUME Types, Types', OpenFile
  PROVE  /\ UNCHANGED <<job, g_cmds, ps, hs, out>> /\ LinesRead' = LinesRead
         /\ UnderWay = <<>> /\ UnderWay' = <<>> /\ step # "exec" /\ step' # "exec"
BY OpenReadsNothing DEF OpenFile, UnderWay

LEMMA StepHandsOver ==
  ASSUME Types, RoomForMarker, HandedOver, [Next]_vars
  PROVE  HandedOver'
<1>1. Types' /\ job' = job /\ g_cmds' = g_cmds /\ (status' # "failed" => status # "failed")
  BY StepKeepsTypes, JobStays
<1> SUFFICES ASSUME HandsOver, job.auto, status # "failed", status' # "failed"
             PROVE  /\ step' = "exec" => ps' \in Line /\ Len(ps') < MaxSpace
                    /\ Chars(out' \o UnderWay') = Chars(LinesRead')
  BY <1>1 DEF HandedOver, HandsOver, Ops
<1>2. /\ step = "exec" => ps \in Line /\ Len(ps) < MaxSpace
      /\ Chars(out \o UnderWay) = Chars(LinesRead)
  BY DEF HandedOver
<1>3. CASE Command
  <2>1. step = "exec"
    BY <1>3 DEF Command, PrintSpace, PrintFirst, List, LineNumber, ShowText, ShowFile, Change, Translate, Get,
         GetAppend, Hold, HoldAppend, Exchange, Write, Substitute, DeleteFirst, Delete, Quit, NextLine,
         JoinLine, JoinLineFails, Executes
  <2> QED
    BY <1>2, <1>3, <2>1, CommandsHandOver
<1>4. CASE ReadLine \/ ReadForNext
  <2>1. /\ UnderWay = <<>> /\ UnderWay' = Lines[next] /\ Lines[next] \in Line /\ ps' = Lines[next]
        /\ Len(Lines[next]) < MaxSpace /\ LinesRead' = LinesRead \o Lines[next] /\ out' = out
    BY <1>1, <1>4, Starting
  <2>2. out \in Seq(Printed) /\ LinesRead \in Seq(Printed) /\ Lines[next] \in Seq(Printed)
    BY <2>1, SpacesArePrinted, LinesArePrinted
  <2>3. out \o <<>> = out
    BY <2>2, EmptyEnd
  <2>4. Chars(out \o Lines[next]) = Chars(out) \o Chars(Lines[next])
          /\ Chars(LinesRead \o Lines[next]) = Chars(LinesRead) \o Chars(Lines[next])
    BY <2>2, CharsOfPrinted
  <2> QED
    BY <1>2, <2>1, <2>3, <2>4
<1>5. CASE FinishJoin \/ FinishLine
  BY <1>1, <1>2, <1>5, FinishingHandsOver
<1>6. CASE OpenFile
  BY <1>1, <1>2, <1>6, OpeningIsQuiet
<1>7. CASE PassOver \/ EndOfScript \/ NothingToPrint \/ EndOfFile \/ UNCHANGED vars
  BY <1>2, <1>7, QuietSteps
<1> QED
  BY <1>3, <1>4, <1>5, <1>6, <1>7 DEF Next, Driver, Ended

\* what HeldBack says of a state in which it says something
Holding ==
  /\ ps \in Line \cup {Null} /\ hs \in Line \cup {Null}
  /\ (step = "exec" /\ i = 1) => Chars((out \o Held) \o ps) = Chars(LinesRead)
  /\ ~(step = "exec" /\ i = 1) => Chars((out \o UnderWay) \o Held) = Chars(LinesRead)

LEMMA HoldingIsHeldBack == HeldBack <=> ((HoldsBack /\ job.auto /\ status # "failed") => Holding)
BY DEF HeldBack, Holding

LEMMA HeldIsLine ==
  ASSUME hs \in Line \cup {Null}
  PROVE  Held \in Line /\ Held \in Seq(Printed)
<1>1. Held \in Line
  BY EmptySeq DEF Held, Line
<1> QED
  BY <1>1, LinesArePrinted

LEMMA OpsOfHolders ==
  ASSUME Types, HoldsBack, i <= Len(g_cmds)
  PROVE  /\ i = 1 => c.op = "x" /\ Applies
         /\ i # 1 => c.op \in {"n", "=", "w"}
<1>1. i \in 1..Len(g_cmds)
  BY IndexOfCommand
<1>2. ASSUME i = 1 PROVE c.op = "x" /\ Applies
  <2>1. c = [op |-> "x", a1 |-> NoAddress, a2 |-> NoAddress]
    BY <1>2 DEF HoldsBack, c
  <2>2. c.op = "x" /\ c.a1 = NoAddress
    BY <2>1
  <2>3. Here(NoAddress, ps)
    BY DEF Here, AddrMatches, NoAddress
  <2> QED
    BY <2>2, <2>3 DEF Applies
<1>3. ASSUME i # 1 PROVE c.op \in {"n", "=", "w"}
  BY <1>1, <1>3 DEF HoldsBack, c
<1> QED
  BY <1>2, <1>3

LEMMA CommandsHoldBack ==
  ASSUME Types, HoldsBack, job.auto, Holding, Command
  PROVE  Holding'
<1> USE DEF Executes
<1>1. step = "exec" /\ i <= Len(g_cmds) /\ i \in 1..Len(g_cmds)
  BY IndexOfCommand DEF Command, PrintSpace, PrintFirst, List, LineNumber, ShowText, ShowFile, Change, Translate,
         Get, GetAppend, Hold, HoldAppend, Exchange, Write, Substitute, DeleteFirst, Delete, Quit, NextLine,
         JoinLine, JoinLineFails
<1>2. (i = 1 => c.op = "x") /\ (i # 1 => c.op \in {"n", "=", "w"})
  BY <1>1, OpsOfHolders
<1>3. ps \in Line /\ ps # Null /\ UnderWay = ps
  <2>1. ps \in Text /\ ps # Null
    BY <1>1, PointerAssumption DEF Types
  <2> QED
    BY <1>1, <2>1 DEF Holding, UnderWay
<1>4. /\ out \in Seq(Printed) /\ ps \in Seq(Printed) /\ lineno \in Nat
      /\ Held \in Line /\ Held \in Seq(Printed) /\ Held # Null
  <2>1. Held \in Line
    BY HeldIsLine DEF Holding
  <2> QED
    BY <1>3, <2>1, SpacesArePrinted, PrintedTexts, LinesArePrinted, PointerAssumption
<1>5. (i = 1 /\ Exchange) \/ (i # 1 /\ (NextLine \/ Write \/ LineNumber))
  <2>1. CASE i = 1
    <3>1. c.op = "x"
      BY <1>2, <2>1
    <3> QED
      BY <2>1, <3>1 DEF Command, PrintSpace, PrintFirst, List, LineNumber, ShowText, ShowFile, Change, Translate,
           Get, GetAppend, Hold, HoldAppend, Exchange, Write, Substitute, DeleteFirst, Delete, Quit, NextLine,
           JoinLine, JoinLineFails
  <2>2. CASE i # 1
    <3>1. c.op \in {"n", "=", "w"}
      BY <1>2, <2>2
    <3> QED
      BY <2>2, <3>1 DEF Command, PrintSpace, PrintFirst, List, LineNumber, ShowText, ShowFile, Change, Translate,
           Get, GetAppend, Hold, HoldAppend, Exchange, Write, Substitute, DeleteFirst, Delete, Quit, NextLine,
           JoinLine, JoinLineFails
  <2> QED
    BY <2>1, <2>2
<1>6. LinesRead' = LinesRead
  BY <1>5 DEF Exchange, NextLine, Write, LineNumber, Then, Goes, Leaves, input, LinesRead, Lines
<1>7. CASE i = 1 /\ Exchange
  <2>1. out' = out \o <<>> /\ ps' = Held /\ hs' = ps /\ step' = "exec" /\ i' = 2
    BY <1>1, <1>7 DEF Exchange, Goes
  <2>2. out' = out /\ UnderWay' = Held /\ Held' = ps
    <3>1. out' = out
      BY <1>4, <2>1, EmptyEnd
    <3>2. UnderWay' = Held
      BY <1>4, <2>1 DEF UnderWay
    <3>3. Held' = ps
      BY <1>3, <2>1 DEF Held
    <3> QED
      BY <3>1, <3>2, <3>3
  <2>3. Chars((out \o Held) \o ps) = Chars(LinesRead)
    BY <1>1, <1>7 DEF Holding
  <2>4. ps' \in Line \cup {Null} /\ hs' \in Line \cup {Null}
    BY <1>3, <1>4, <2>1
  <2>5. Chars((out' \o UnderWay') \o Held') = Chars(LinesRead')
    BY <1>6, <2>2, <2>3
  <2> QED
    BY <2>1, <2>4, <2>5 DEF Holding
<1>8. CASE i # 1 /\ NextLine
  <2>1. out' = out \o ps /\ ps' = Null /\ hs' = hs /\ step' = "after"
    BY <1>8 DEF NextLine, Leaves
  <2>2. UnderWay' = <<>> /\ Held' = Held
    BY <2>1 DEF UnderWay, Held
  <2>3. (out \o ps) \o <<>> = out \o ps
    BY <1>4, CharsOfPrinted, EmptyEnd
  <2>4. Chars((out \o ps) \o Held) = Chars(LinesRead)
    BY <1>3, <1>8 DEF Holding
  <2>5. Chars((out' \o UnderWay') \o Held') = Chars(LinesRead')
    BY <1>6, <2>1, <2>2, <2>3, <2>4
  <2>6. ps' \in Line \cup {Null} /\ hs' \in Line \cup {Null}
    BY <2>1 DEF Holding
  <2> QED
    BY <2>1, <2>5, <2>6 DEF Holding
<1>9. CASE i # 1 /\ Write
  <2>1. out' = out \o <<>> /\ ps' = ps /\ hs' = hs /\ step' = step /\ i' = i + 1
    BY <1>9 DEF Write, Goes
  <2>2. out' = out /\ UnderWay' = UnderWay /\ Held' = Held
    <3>1. out' = out
      BY <1>4, <2>1, EmptyEnd
    <3> QED
      BY <2>1, <3>1 DEF UnderWay, Held
  <2>3. Chars((out \o UnderWay) \o Held) = Chars(LinesRead)
    BY <1>9 DEF Holding
  <2>4. i' # 1
    BY <1>1, <2>1
  <2> QED
    BY <1>6, <2>1, <2>2, <2>3, <2>4 DEF Holding
<1>10. CASE i # 1 /\ LineNumber
  <2>1. out' = out \o <<lineno, Newline>> /\ ps' = ps /\ hs' = hs /\ step' = step /\ i' = i + 1
    BY <1>10 DEF LineNumber, Then, Goes
  <2>2. UnderWay' = ps /\ Held' = Held
    BY <1>3, <2>1 DEF UnderWay, Held
  <2>3. Chars((out \o ps) \o Held) = Chars(LinesRead)
    BY <1>3, <1>10 DEF Holding
  <2>4. i' # 1
    BY <1>1, <2>1
  <2>5. Chars(((out \o <<lineno, Newline>>) \o ps) \o Held) = Chars((out \o ps) \o Held)
    <3> DEFINE x == <<lineno, Newline>>
    <3>1. x \in Seq(Printed) /\ Chars(x) = <<>>
      BY <1>4, NoChars
    <3> HIDE DEF x
    <3>2. (out \o x) \o ps \in Seq(Printed) /\ Chars((out \o x) \o ps) = Chars(out) \o Chars(ps)
      BY <1>4, <3>1, CharsBetween
    <3>3. out \o ps \in Seq(Printed) /\ Chars(out \o ps) = Chars(out) \o Chars(ps)
      BY <1>4, CharsOfPrinted
    <3>4. Chars(((out \o x) \o ps) \o Held) = Chars((out \o x) \o ps) \o Chars(Held)
      BY <1>4, <3>2, CharsOfPrinted
    <3>5. Chars((out \o ps) \o Held) = Chars(out \o ps) \o Chars(Held)
      BY <1>4, <3>3, CharsOfPrinted
    <3> QED
      BY <3>2, <3>3, <3>4, <3>5 DEF x
  <2>6. Chars((out' \o UnderWay') \o Held') = Chars(LinesRead')
    BY <1>6, <2>1, <2>2, <2>3, <2>5
  <2>7. ps' \in Line \cup {Null} /\ hs' \in Line \cup {Null}
    BY <2>1 DEF Holding
  <2> QED
    BY <2>4, <2>6, <2>7 DEF Holding
<1> QED
  BY <1>5, <1>7, <1>8, <1>9, <1>10

LEMMA StepHoldsBack ==
  ASSUME Types, RoomForMarker, HeldBack, [Next]_vars
  PROVE  HeldBack'
<1>1. Types' /\ job' = job /\ g_cmds' = g_cmds /\ (status' # "failed" => status # "failed")
  BY StepKeepsTypes, JobStays
<1> SUFFICES ASSUME HoldsBack, job.auto, status # "failed", status' # "failed"
             PROVE  Holding'
  BY <1>1 DEF HeldBack, HoldsBack, Holding
<1>2. Holding
  BY HoldingIsHeldBack
<1>3. CASE Command
  BY <1>2, <1>3, CommandsHoldBack
<1>4. CASE ReadLine \/ ReadForNext
  <2>1. /\ UnderWay = <<>> /\ Lines[next] \in Line /\ ps' = Lines[next]
        /\ LinesRead' = LinesRead \o Lines[next] /\ out' = out /\ hs' = hs
        /\ step # "exec" /\ step' = "exec" /\ i' = 1
    BY <1>1, <1>4, Starting
  <2>2. /\ out \in Seq(Printed) /\ LinesRead \in Seq(Printed) /\ Lines[next] \in Seq(Printed)
        /\ Held \in Seq(Printed)
    BY <2>1, SpacesArePrinted, LinesArePrinted
  <2>3. Chars(out \o Held) = Chars(LinesRead) /\ out \o Held \in Seq(Printed)
    <3>1. out \o <<>> = out
      BY <2>2, EmptyEnd
    <3>2. Chars((out \o <<>>) \o Held) = Chars(LinesRead)
      BY <1>2, <2>1 DEF Holding
    <3> QED
      BY <2>2, <3>1, <3>2, CharsOfPrinted
  <2>4. Chars((out \o Held) \o Lines[next]) = Chars(LinesRead \o Lines[next])
    <3>1. Chars((out \o Held) \o Lines[next]) = Chars(out \o Held) \o Chars(Lines[next])
      BY <2>2, <2>3, CharsOfPrinted
    <3>2. Chars(LinesRead \o Lines[next]) = Chars(LinesRead) \o Chars(Lines[next])
      BY <2>2, CharsOfPrinted
    <3> QED
      BY <2>3, <3>1, <3>2
  <2>5. Held' = Held /\ ps' \in Line \cup {Null} /\ hs' \in Line \cup {Null}
    BY <1>2, <2>1 DEF Held, Holding
  <2> QED
    BY <2>1, <2>4, <2>5 DEF Holding
<1>5. CASE FinishJoin \/ FinishLine
  <2>1. step = "after" /\ ps # Null /\ UnderWay = ps /\ ps \in Line
    BY <1>2, <1>5 DEF FinishJoin, FinishLine, Marked, UnderWay, Holding
  <2>2. ~Marked
    <3> SUFFICES ASSUME ps # <<>> PROVE ps[Len(ps)] # Marker
      BY DEF Marked
    <3>1. Len(ps) \in 1..Len(ps)
      BY <2>1, EmptySeq DEF Line
    <3>2. ps[Len(ps)] \in Char \cup {Newline}
      BY <2>1, <3>1, ElementOfSeq DEF Line
    <3> QED
      BY <3>2, SymbolAssumption
  <2>3. FinishLine
    BY <1>5, <2>2 DEF FinishJoin
  <2>4. /\ out' = out \o ps /\ ps' = ps /\ hs' = hs /\ step' = "read" /\ UnderWay' = <<>>
        /\ LinesRead' = LinesRead /\ Held' = Held
    BY <2>3 DEF FinishLine, Finish, UnderWay, Held, LinesRead, Lines
  <2>5. (out \o ps) \o <<>> = out \o ps
    <3>1. out \o ps \in Seq(Printed)
      BY <2>1, SpacesArePrinted, CharsOfPrinted
    <3> QED
      BY <3>1, EmptyEnd
  <2>6. Chars((out \o ps) \o Held) = Chars(LinesRead)
    BY <1>2, <2>1 DEF Holding
  <2>7. ps' \in Line \cup {Null} /\ hs' \in Line \cup {Null}
    BY <1>2, <2>4 DEF Holding
  <2>8. Chars((out' \o UnderWay') \o Held') = Chars(LinesRead')
    BY <2>4, <2>5, <2>6
  <2> QED
    BY <2>4, <2>7, <2>8 DEF Holding
<1>6. CASE OpenFile
  <2>1. /\ UNCHANGED <<ps, hs, out>> /\ LinesRead' = LinesRead
        /\ UnderWay = <<>> /\ UnderWay' = <<>> /\ step # "exec" /\ step' # "exec"
    BY <1>1, <1>6, OpeningIsQuiet
  <2>2. Held' = Held
    BY <2>1 DEF Held
  <2> QED
    BY <1>2, <2>1, <2>2 DEF Holding
<1>7. CASE PassOver \/ EndOfScript \/ NothingToPrint \/ EndOfFile \/ UNCHANGED vars
  <2>1. /\ UNCHANGED <<job, g_cmds, hs, ps, out>> /\ UnderWay' = UnderWay /\ LinesRead' = LinesRead
        /\ step' = "exec" => step = "exec" /\ (PassOver \/ i' = i)
    BY <1>7, QuietSteps
  <2>2. Held' = Held
    BY <2>1 DEF Held
  <2>3. CASE step = "exec" /\ i = 1 /\ ~UNCHANGED vars
    <3>1. PassOver \/ EndOfScript
      BY <1>7, <2>3 DEF NothingToPrint, EndOfFile
    <3>2. 1 <= Len(g_cmds)
      <4>1. g_cmds # <<>> /\ g_cmds \in Seq(Commands)
        BY DEF HoldsBack, Types
      <4> QED
        BY <4>1, EmptySeq
    <3>3. Applies
      BY <2>3, <3>2, OpsOfHolders
    <3> QED
      BY <2>3, <3>1, <3>2, <3>3 DEF PassOver, EndOfScript
  <2>4. CASE step = "exec" /\ i = 1 /\ UNCHANGED vars
    <3>1. step' = "exec" /\ i' = 1
      BY <2>4 DEF vars
    <3> QED
      BY <1>2, <2>1, <2>2, <3>1, <2>4 DEF Holding
  <2>5. CASE ~(step = "exec" /\ i = 1)
    <3>1. ~(step' = "exec" /\ i' = 1)
      <4> SUFFICES ASSUME step' = "exec", i' = 1 PROVE FALSE
        OBVIOUS
      <4>1. PassOver /\ i \in 1..Len(g_cmds) + 1
        BY <2>1, <2>5, IndexOfCommand
      <4> QED
        BY <4>1, IndexOfCommand DEF PassOver
    <3> QED
      BY <1>2, <2>1, <2>2, <2>5, <3>1 DEF Holding
  <2> QED
    BY <2>3, <2>4, <2>5
<1> QED
  BY <1>3, <1>4, <1>5, <1>6, <1>7 DEF Next, Driver, Ended

(* Where the marker of N fits every line, the hand-over of lines between n, N, *)
(* x and process_files loses no line and prints none twice, for every script of *)
(* these commands with any addresses, any files and any number of them.       *)
THEOREM LinesAreAccounted ==
  ASSUME RoomForMarker
  PROVE  Spec => []LinesAccounted
<1>1. Init => HandedOver /\ HeldBack
  <2> SUFFICES ASSUME Init PROVE HandedOver /\ HeldBack
    OBVIOUS
  <2>1. LinesRead = <<>> /\ UnderWay = <<>> /\ Held = <<>> /\ out = <<>> /\ step = "open"
          /\ ps = Null /\ hs = Null
    <3>1. LinesRead = FlattenSeq(<<>>)
      BY DEF Init, LinesRead
    <3> QED
      BY <3>1, FlattenOfNone DEF Init, UnderWay, Held
  <2>2. <<>> \o <<>> = <<>>
    BY EmptySeq, ConcatEmptySeq
  <2> QED
    BY <2>1, <2>2 DEF HandedOver, HeldBack
<1>2. Types /\ HandedOver /\ HeldBack /\ [Next]_vars => HandedOver' /\ HeldBack'
  BY StepHandsOver, StepHoldsBack
<1>3. Types /\ Settled /\ HandedOver /\ HeldBack => LinesAccounted
  <2> SUFFICES ASSUME Types, Settled, HandedOver, HeldBack, BetweenLines, job.auto
               PROVE  /\ HandsOver => Chars(out) = Chars(LinesRead)
                      /\ HoldsBack => Chars(out \o Held) = Chars(LinesRead)
    BY DEF LinesAccounted
  <2>1. status # "failed" /\ step \in {"open", "read"}
    BY DEF BetweenLines, Settled
  <2>2. UnderWay = <<>> /\ out \o <<>> = out
    BY <2>1, SpacesArePrinted, EmptyEnd DEF UnderWay
  <2> QED
    BY <2>1, <2>2 DEF HandedOver, HeldBack
<1> QED
  BY <1>1, <1>2, <1>3, TypesHold, SettledHolds, PTL DEF Spec

-----------------------------------------------------------------------------
(* PrintsItsRange.  Behind each line the flag of the range tells whether a line *)
(* has matched the first address with none after it that matches the second.   *)

Records(n) ==
  FlattenSeq([k \in 1..n |->
    [m \in DOMAIN job.input[k] |-> [text |-> job.input[k][m], last |-> m = Len(job.input[k])]]])

LineMatches(A, a, n) == AddrMatches(a, A[n].text, n, A[n].last)

SelectedIn(A, cmd, n) ==
  \E first \in 1..n : LineMatches(A, cmd.a1, first) /\ \A k \in first..n - 1 : ~LineMatches(A, cmd.a2, k)

OpenAfter(A, cmd, n) ==
  \E first \in 1..n : LineMatches(A, cmd.a1, first) /\ \A k \in first..n : ~LineMatches(A, cmd.a2, k)

SelectedOf(A, cmd, n) ==
  FlattenSeq([k \in 1..n |-> IF SelectedIn(A, cmd, k) THEN A[k].text ELSE <<>>])

\* the line is read but the command has not been executed on it
Pending == step = "exec" /\ i = 1

PrintsOneRange == Len(g_cmds) = 1 /\ Ops = {"p"} /\ Ranged(g_cmds[1]) /\ ~job.auto

\* the first n lines have been dealt with
DealtWith(n) ==
  out = SelectedOf(Records(file), g_cmds[1], n) /\ in_range[1] = OpenAfter(Records(file), g_cmds[1], n)

LineAtHand == lineno > 0 /\ Records(file)[lineno] = [text |-> ps, last |-> is_last_line_in_file]

\* the lines of the files before and of this one
Counted == IF file = 0 THEN 0 ELSE Len(Records(file - 1)) + next - 1

Dealing ==
  /\ ~quit_now
  /\ status = "done" => step = "open" /\ file = Len(job.input)
  /\ step \in {"exec", "after"} => ps \in Line
  /\ lineno = Counted
  /\ Pending => DealtWith(lineno - 1) /\ LineAtHand
  /\ ~Pending => DealtWith(lineno)

Ranging == PrintsOneRange => Dealing

Record == [text : Line, last : BOOLEAN]
RecordsOf(lines) == [m \in DOMAIN lines |-> [text |-> lines[m], last |-> m = Len(lines)]]

LEMMA RecordsAreSeqs ==
  ASSUME NEW lines \in Seq(Line)
  PROVE  /\ RecordsOf(lines) \in Seq(Record) /\ Len(RecordsOf(lines)) = Len(lines) /\ Len(lines) \in Nat
         /\ \A n \in 1..Len(lines) : RecordsOf(lines)[n] = [text |-> lines[n], last |-> n = Len(lines)]
<1>1. DOMAIN lines = 1..Len(lines) /\ Len(lines) \in Nat
  BY LenProperties
<1>2. \A n \in 1..Len(lines) : [text |-> lines[n], last |-> n = Len(lines)] \in Record
  <2>1. \A n \in 1..Len(lines) : lines[n] \in Line
    BY ElementOfSeq
  <2> QED
    BY <2>1 DEF Record
<1> DEFINE of(m) == [text |-> lines[m], last |-> m = Len(lines)]
<1>3. RecordsOf(lines) = [m \in 1..Len(lines) |-> of(m)]
  BY <1>1 DEF RecordsOf
<1>4. \A n \in 1..Len(lines) : RecordsOf(lines)[n] = of(n)
  BY <1>3
<1>5. RecordsOf(lines) \in [1..Len(lines) -> Record]
  BY <1>2, <1>3
<1>6. RecordsOf(lines) \in Seq(Record) /\ Len(RecordsOf(lines)) = Len(lines)
  BY <1>1, <1>5
<1> QED
  BY <1>1, <1>4, <1>6

LEMMA RecordsOfNone == Records(0) = <<>>
BY FlattenOfNone DEF Records

LEMMA RecordsIsSeq ==
  ASSUME NEW f \in Nat, \A k \in 1..f : job.input[k] \in Seq(Line)
  PROVE  /\ Records(f) = FlattenSeq([k \in 1..f |-> RecordsOf(job.input[k])])
         /\ [k \in 1..f |-> RecordsOf(job.input[k])] \in Seq(Seq(Record))
         /\ Records(f) \in Seq(Record)
<1>1. \A k \in 1..f : RecordsOf(job.input[k]) \in Seq(Record)
  BY RecordsAreSeqs
<1>2. [k \in 1..f |-> RecordsOf(job.input[k])] \in Seq(Seq(Record))
  BY <1>1
<1>3. Records(f) = FlattenSeq([k \in 1..f |-> RecordsOf(job.input[k])])
  BY DEF Records, RecordsOf
<1> QED
  BY <1>2, <1>3, FlattenIsSeq

LEMMA RecordsAdd ==
  ASSUME NEW f \in Nat, f # 0, \A k \in 1..f : job.input[k] \in Seq(Line)
  PROVE  /\ Records(f) = Records(f - 1) \o RecordsOf(job.input[f])
         /\ Records(f - 1) \in Seq(Record) /\ Len(Records(f - 1)) \in Nat
         /\ Len(Records(f)) = Len(Records(f - 1)) + Len(job.input[f])
<1> DEFINE A(m) == [k \in 1..m |-> RecordsOf(job.input[k])]
           X == RecordsOf(job.input[f])
<1>1. f - 1 \in Nat /\ job.input[f] \in Seq(Line) /\ \A k \in 1..f - 1 : job.input[k] \in Seq(Line)
  OBVIOUS
<1>2. /\ Records(f) = FlattenSeq(A(f)) /\ Records(f - 1) = FlattenSeq(A(f - 1))
      /\ A(f - 1) \in Seq(Seq(Record)) /\ Records(f - 1) \in Seq(Record)
  BY <1>1, RecordsIsSeq
<1>3. X \in Seq(Record) /\ Len(X) = Len(job.input[f])
  BY <1>1, RecordsAreSeqs
<1>4. A(f) = A(f - 1) \o <<X>>
  BY <1>1
<1> HIDE DEF A, X
<1>5. FlattenSeq(A(f - 1) \o <<X>>) = FlattenSeq(A(f - 1)) \o X
  BY <1>2, <1>3, FlattenAdd
<1>6. Records(f) = Records(f - 1) \o X
  BY <1>2, <1>4, <1>5
<1>7. Len(Records(f - 1) \o X) = Len(Records(f - 1)) + Len(X)
  BY <1>2, <1>3, ConcatProperties
<1>8. Len(Records(f - 1)) \in Nat
  BY <1>2, LenProperties
<1> QED
  BY <1>2, <1>3, <1>6, <1>7, <1>8 DEF X

\* the records of the lines in a file, and those of the lines before it
LEMMA RecordsOfFile ==
  ASSUME NEW f \in Nat, f # 0, \A k \in 1..f : job.input[k] \in Seq(Line)
  PROVE  /\ \A n \in 1..Len(job.input[f]) :
               Records(f)[Len(Records(f - 1)) + n] = [text |-> job.input[f][n], last |-> n = Len(job.input[f])]
         /\ \A n \in 1..Len(Records(f - 1)) : Records(f)[n] = Records(f - 1)[n]
<1> DEFINE A == Records(f - 1)
           X == RecordsOf(job.input[f])
<1>1. Records(f) = A \o X /\ A \in Seq(Record) /\ Len(A) \in Nat
  BY RecordsAdd
<1>2. /\ X \in Seq(Record) /\ Len(X) = Len(job.input[f]) /\ Len(X) \in Nat
      /\ \A n \in 1..Len(X) : X[n] = [text |-> job.input[f][n], last |-> n = Len(job.input[f])]
  <2>1. job.input[f] \in Seq(Line)
    OBVIOUS
  <2> QED
    BY <2>1, RecordsAreSeqs
<1> HIDE DEF A, X
<1>3. \A n \in 1..Len(A) + Len(X) : (A \o X)[n] = IF n <= Len(A) THEN A[n] ELSE X[n - Len(A)]
  BY <1>1, <1>2, ConcatProperties
<1>4. ASSUME NEW n \in 1..Len(X) PROVE (A \o X)[Len(A) + n] = X[n]
  <2>1. Len(A) + n \in 1..Len(A) + Len(X) /\ ~(Len(A) + n <= Len(A)) /\ (Len(A) + n) - Len(A) = n
    BY <1>1, <1>2
  <2> QED
    BY <1>3, <2>1
<1>5. ASSUME NEW n \in 1..Len(A) PROVE (A \o X)[n] = A[n]
  <2>1. n \in 1..Len(A) + Len(X) /\ n <= Len(A)
    BY <1>1, <1>2
  <2> QED
    BY <1>3, <2>1
<1> QED
  BY <1>1, <1>2, <1>4, <1>5 DEF A

\* what the flag tells, from line to line
LEMMA RangeOfLine ==
  ASSUME NEW A, NEW cmd, NEW n \in Nat, n > 0
  PROVE  /\ SelectedIn(A, cmd, n) <=> (OpenAfter(A, cmd, n - 1) \/ LineMatches(A, cmd.a1, n))
         /\ OpenAfter(A, cmd, n) <=> (SelectedIn(A, cmd, n) /\ ~LineMatches(A, cmd.a2, n))
<1> DEFINE one(k) == LineMatches(A, cmd.a1, k)
           two(k) == LineMatches(A, cmd.a2, k)
<1>1. SelectedIn(A, cmd, n) <=> \E first \in 1..n : one(first) /\ \A k \in first..n - 1 : ~two(k)
  BY DEF SelectedIn
<1>2. OpenAfter(A, cmd, n) <=> \E first \in 1..n : one(first) /\ \A k \in first..n : ~two(k)
  BY DEF OpenAfter
<1>3. OpenAfter(A, cmd, n - 1) <=> \E first \in 1..n - 1 : one(first) /\ \A k \in first..n - 1 : ~two(k)
  BY DEF OpenAfter
<1> HIDE DEF one, two
<1>4. \A first \in 1..n : first = n \/ first \in 1..n - 1
  OBVIOUS
<1>5. \A k : ~(k \in n..n - 1)
  OBVIOUS
<1>6. (\E first \in 1..n : one(first) /\ \A k \in first..n - 1 : ~two(k))
        <=> ((\E first \in 1..n - 1 : one(first) /\ \A k \in first..n - 1 : ~two(k)) \/ one(n))
  <2>1. n \in 1..n /\ \A first \in 1..n - 1 : first \in 1..n
    OBVIOUS
  <2> QED
    BY <1>4, <1>5, <2>1
<1>7. \A first \in 1..n : (\A k \in first..n : ~two(k)) <=> ((\A k \in first..n - 1 : ~two(k)) /\ ~two(n))
  <2> TAKE first \in 1..n
  <2>1. n \in first..n /\ \A k \in first..n - 1 : k \in first..n
    OBVIOUS
  <2>2. \A k \in first..n : k = n \/ k \in first..n - 1
    OBVIOUS
  <2> QED
    BY <2>1, <2>2
<1>8. SelectedIn(A, cmd, n) <=> (OpenAfter(A, cmd, n - 1) \/ one(n))
  BY <1>1, <1>3, <1>6
<1>9. OpenAfter(A, cmd, n) <=> (SelectedIn(A, cmd, n) /\ ~two(n))
  BY <1>1, <1>2, <1>7
<1> QED
  BY <1>8, <1>9 DEF one, two

LEMMA SelectedAdds ==
  ASSUME NEW A \in Seq(Record), NEW cmd, NEW n \in 1..Len(A)
  PROVE  SelectedOf(A, cmd, n) =
           SelectedOf(A, cmd, n - 1) \o (IF SelectedIn(A, cmd, n) THEN A[n].text ELSE <<>>)
<1> DEFINE of(k) == IF SelectedIn(A, cmd, k) THEN A[k].text ELSE <<>>
           S(m) == [k \in 1..m |-> of(k)]
<1>1. Len(A) \in Nat /\ \A k \in 1..Len(A) : A[k] \in Record
  BY LenProperties, ElementOfSeq
<1>2. \A k \in 1..Len(A) : of(k) \in Line
  BY <1>1, EmptySeq DEF Record, Line
<1> HIDE DEF of
<1>3. S(n - 1) \in Seq(Line) /\ of(n) \in Line
  <2>1. n - 1 \in Nat /\ \A k \in 1..n - 1 : of(k) \in Line
    BY <1>1, <1>2
  <2> QED
    BY <1>2, <2>1
<1>4. S(n) = S(n - 1) \o <<of(n)>>
  BY <1>1
<1>5. SelectedOf(A, cmd, n) = FlattenSeq(S(n)) /\ SelectedOf(A, cmd, n - 1) = FlattenSeq(S(n - 1))
  BY DEF SelectedOf, of
<1> HIDE DEF S
<1>6. FlattenSeq(S(n - 1) \o <<of(n)>>) = FlattenSeq(S(n - 1)) \o of(n)
  BY <1>3, FlattenAdd DEF Line
<1> QED
  BY <1>4, <1>5, <1>6 DEF of

\* lines that are read later change nothing of this
LEMMA LaterLines ==
  ASSUME NEW A, NEW B, NEW cmd, NEW n \in Nat, \A k \in 1..n : A[k] = B[k]
  PROVE  SelectedOf(A, cmd, n) = SelectedOf(B, cmd, n) /\ OpenAfter(A, cmd, n) = OpenAfter(B, cmd, n)
<1>1. \A k \in 1..n : \A a : LineMatches(A, a, k) = LineMatches(B, a, k)
  BY DEF LineMatches
<1>2. OpenAfter(A, cmd, n) <=> OpenAfter(B, cmd, n)
  <2>1. \A first \in 1..n : \A k \in first..n : k \in 1..n
    OBVIOUS
  <2> QED
    BY <1>1, <2>1 DEF OpenAfter
<1>3. ASSUME NEW m \in 1..n PROVE SelectedIn(A, cmd, m) <=> SelectedIn(B, cmd, m)
  <2>1. \A first \in 1..m : first \in 1..n /\ \A k \in first..m - 1 : k \in 1..n
    OBVIOUS
  <2> QED
    BY <1>1, <2>1 DEF SelectedIn
<1>4. [k \in 1..n |-> IF SelectedIn(A, cmd, k) THEN A[k].text ELSE <<>>]
        = [k \in 1..n |-> IF SelectedIn(B, cmd, k) THEN B[k].text ELSE <<>>]
  BY <1>3
<1>5. SelectedOf(A, cmd, n) = SelectedOf(B, cmd, n)
  BY <1>4 DEF SelectedOf
<1>6. OpenAfter(A, cmd, n) \in BOOLEAN /\ OpenAfter(B, cmd, n) \in BOOLEAN
  BY DEF OpenAfter
<1> QED
  BY <1>2, <1>5, <1>6

LEMMA RecordsOfFiles ==
  ASSUME Types
  PROVE  /\ \A k \in 1..file : job.input[k] \in Seq(Line)
         /\ Records(file) \in Seq(Record) /\ Len(Records(file)) \in Nat
         /\ file # 0 => /\ Len(Records(file - 1)) \in Nat
                       /\ Len(Records(file)) = Len(Records(file - 1)) + Len(Lines)
<1>1. file \in Nat /\ \A k \in 1..file : job.input[k] \in Seq(Line)
  BY FileNumbers DEF Types
<1>2. Records(file) \in Seq(Record)
  BY <1>1, RecordsIsSeq
<1>3. Len(Records(file)) \in Nat
  BY <1>2, LenProperties
<1>4. file # 0 => /\ Len(Records(file - 1)) \in Nat
                  /\ Len(Records(file)) = Len(Records(file - 1)) + Len(Lines)
  BY <1>1, RecordsAdd DEF Lines
<1> QED
  BY <1>1, <1>2, <1>3, <1>4

\* the command on the line at hand
LEMMA LineIsDealtWith ==
  ASSUME Types, Ranging, PrintsOneRange, Pending
  PROVE  /\ c = g_cmds[1] /\ i = 1 /\ i <= Len(g_cmds) /\ Ranged(c) /\ c.op = "p"
         /\ in_range[1] \in BOOLEAN /\ (~Applies => ~in_range[1])
         /\ SelectedOf(Records(file), c, lineno) = IF Applies THEN out \o ps ELSE out
         /\ OpenAfter(Records(file), c, lineno) = (Applies /\ ~Ends(c, ps))
<1> DEFINE A == Records(file)
<1>1. /\ c = g_cmds[1] /\ i = 1 /\ i <= Len(g_cmds) /\ Ranged(c)
  BY DEF c, Pending, PrintsOneRange
<1>2. c.op = "p"
  BY <1>1, OpsOfScript DEF PrintsOneRange
<1>3. in_range[1] \in BOOLEAN /\ is_last_line_in_file \in BOOLEAN
  <2>1. DOMAIN g_cmds = 1..Len(g_cmds)
    BY LenProperties DEF Types
  <2>2. 1 \in DOMAIN g_cmds
    BY <2>1 DEF PrintsOneRange
  <2> QED
    BY <2>2 DEF Types, TypeOK
<1>4. /\ out = SelectedOf(A, c, lineno - 1) /\ in_range[1] = OpenAfter(A, c, lineno - 1)
      /\ lineno > 0 /\ A[lineno] = [text |-> ps, last |-> is_last_line_in_file]
      /\ lineno = IF file = 0 THEN 0 ELSE Len(Records(file - 1)) + next - 1
  BY <1>1 DEF Ranging, Dealing, DealtWith, LineAtHand, Counted
<1>5. A \in Seq(Record) /\ lineno \in 1..Len(A) /\ lineno \in Nat
  <2>1. file # 0 /\ lineno \in Nat
    BY DEF Pending, Types, TypeOK
  <2>2. next \in 1..Len(Lines) + 1 /\ Len(Lines) \in Nat
    BY <2>1, LineIsText
  <2> QED
    BY <1>4, <2>1, <2>2, RecordsOfFiles
<1>6. \A a : LineMatches(A, a, lineno) <=> Here(a, ps)
  BY <1>4 DEF LineMatches, Here
<1> HIDE DEF A
<1>7. Applies <=> SelectedIn(A, c, lineno)
  <2>1. Applies <=> (in_range[1] \/ Here(c.a1, ps))
    BY <1>1, <1>3 DEF Applies
  <2>2. SelectedIn(A, c, lineno) <=> (OpenAfter(A, c, lineno - 1) \/ LineMatches(A, c.a1, lineno))
    BY <1>4, <1>5, RangeOfLine
  <2> QED
    BY <1>4, <1>6, <2>1, <2>2
<1>8. OpenAfter(A, c, lineno) <=> (Applies /\ ~Ends(c, ps))
  <2>1. OpenAfter(A, c, lineno) <=> (SelectedIn(A, c, lineno) /\ ~LineMatches(A, c.a2, lineno))
    BY <1>4, <1>5, RangeOfLine
  <2> QED
    BY <1>6, <1>7, <2>1 DEF Ends
<1>9. SelectedOf(A, c, lineno) = IF Applies THEN out \o ps ELSE out
  <2>1. SelectedOf(A, c, lineno) =
          SelectedOf(A, c, lineno - 1) \o (IF SelectedIn(A, c, lineno) THEN A[lineno].text ELSE <<>>)
    BY <1>5, SelectedAdds
  <2>2. A[lineno].text = ps
    BY <1>4
  <2>3. out \o <<>> = out
    BY SpacesArePrinted, EmptyEnd
  <2> QED
    BY <1>4, <1>7, <2>1, <2>2, <2>3
<1>10. OpenAfter(A, c, lineno) \in BOOLEAN
  BY DEF OpenAfter
<1>11. ~Applies => ~in_range[1]
  BY <1>1, <1>3 DEF Applies
<1> QED
  BY <1>1, <1>2, <1>3, <1>8, <1>9, <1>10, <1>11 DEF A

LEMMA RecordsStay ==
  ASSUME job' = job, g_cmds' = g_cmds
  PROVE  /\ \A n \in Nat : Records(n)' = Records(n)
         /\ PrintsOneRange' = PrintsOneRange
BY DEF Records, PrintsOneRange, Ops

LEMMA CountedStays ==
  ASSUME job' = job, UNCHANGED <<file, next>>
  PROVE  Counted' = Counted /\ Records(file)' = Records(file)
BY DEF Records, Counted

\* a step within the file that neither reads nor executes a command
LEMMA PausesKeepDealing ==
  ASSUME Types, Types', Dealing, PrintsOneRange, job' = job, g_cmds' = g_cmds,
         UNCHANGED <<file, next, lineno, is_last_line_in_file, quit_now, in_range, out>>,
         ps' = ps, ~Pending, ~Pending',
         status' = "done" => status = "done" /\ step' = step,
         step' \in {"exec", "after"} => step \in {"exec", "after"}
  PROVE  Dealing'
<1>1. Counted' = Counted /\ Records(file)' = Records(file)
  BY CountedStays
<1>2. DealtWith(lineno)
  BY DEF Dealing
<1>3. DealtWith(lineno)'
  BY <1>1, <1>2 DEF DealtWith
<1> QED
  BY <1>1, <1>3 DEF Dealing

LEMMA CommandKeepsDealing ==
  ASSUME Types, Types', Dealing, PrintsOneRange, job' = job, g_cmds' = g_cmds, Command \/ PassOver
  PROVE  Dealing'
<1> USE DEF Executes
<1>1. step = "exec" /\ status = "running" /\ i <= Len(g_cmds)
  BY DEF Command, PrintSpace, PrintFirst, List, LineNumber, ShowText, ShowFile, Change, Translate, Get,
         GetAppend, Hold, HoldAppend, Exchange, Write, Substitute, DeleteFirst, Delete, Quit, NextLine,
         JoinLine, JoinLineFails, PassOver
<1>2. Pending
  BY <1>1, IndexOfCommand DEF Pending, PrintsOneRange
<1>3. /\ c = g_cmds[1] /\ i = 1 /\ c.op = "p" /\ Ranged(c)
      /\ in_range[1] \in BOOLEAN /\ (~Applies => ~in_range[1])
      /\ SelectedOf(Records(file), c, lineno) = IF Applies THEN out \o ps ELSE out
      /\ OpenAfter(Records(file), c, lineno) = (Applies /\ ~Ends(c, ps))
  BY <1>2, LineIsDealtWith DEF Ranging
<1>4. PrintSpace \/ PassOver
  BY <1>3 DEF Command, PrintSpace, PrintFirst, List, LineNumber, ShowText, ShowFile, Change, Translate, Get,
         GetAppend, Hold, HoldAppend, Exchange, Write, Substitute, DeleteFirst, Delete, Quit, NextLine,
         JoinLine, JoinLineFails
<1>5. /\ UNCHANGED <<file, next, lineno, is_last_line_in_file, quit_now, status, step, ps>> /\ i' = 2
  BY <1>3, <1>4 DEF PrintSpace, PassOver, Then, Goes, input
<1>6. /\ out' = SelectedOf(Records(file), c, lineno)
      /\ in_range'[1] = OpenAfter(Records(file), c, lineno)
  <2>1. CASE PrintSpace
    <3>1. Applies /\ out' = out \o ps /\ in_range' = [in_range EXCEPT ![1] = Ranged(c) /\ ~Ends(c, ps)]
      BY <1>3, <2>1 DEF PrintSpace, Then, Goes
    <3>2. 1 \in DOMAIN in_range
      <4>1. DOMAIN g_cmds = 1..Len(g_cmds)
        BY LenProperties DEF Types
      <4> QED
        BY <4>1 DEF Types, TypeOK, PrintsOneRange
    <3> QED
      BY <1>3, <3>1, <3>2
  <2>2. CASE PassOver
    BY <1>3, <2>2 DEF PassOver
  <2> QED
    BY <1>4, <2>1, <2>2
<1>7. Counted' = Counted /\ Records(file)' = Records(file)
  BY <1>5, CountedStays
<1>8. DealtWith(lineno)'
  BY <1>3, <1>5, <1>6, <1>7 DEF DealtWith
<1>9. lineno' = Counted'
  BY <1>5, <1>7 DEF Dealing
<1> QED
  BY <1>1, <1>5, <1>8, <1>9 DEF Dealing, Pending

LEMMA ReadingKeepsDealing ==
  ASSUME Types, Types', Dealing, PrintsOneRange, job' = job, g_cmds' = g_cmds, ReadLine
  PROVE  Dealing'
<1>1. /\ step = "read" /\ status = "running" /\ More /\ file # 0
      /\ ps' = Lines[next] /\ next' = next + 1 /\ lineno' = lineno + 1
      /\ is_last_line_in_file' = (next = Len(Lines)) /\ i' = 1 /\ step' = "exec"
      /\ UNCHANGED <<file, quit_now, in_range, out, status>>
  BY DEF ReadLine, Start, Types
<1>2. next \in 1..Len(Lines) /\ Lines[next] \in Line /\ Len(Lines) \in Nat
  BY <1>1, LineIsText
<1>3. /\ file \in Nat /\ \A k \in 1..file : job.input[k] \in Seq(Line)
      /\ Len(Records(file - 1)) \in Nat /\ lineno = Len(Records(file - 1)) + next - 1
  BY <1>1, FileNumbers, RecordsOfFiles DEF Dealing, Counted
<1>4. Records(file)[Len(Records(file - 1)) + next] = [text |-> Lines[next], last |-> next = Len(Lines)]
  BY <1>1, <1>2, <1>3, RecordsOfFile DEF Lines
<1>5. lineno + 1 = Len(Records(file - 1)) + next /\ lineno + 1 > 0 /\ (lineno + 1) - 1 = lineno
  BY <1>2, <1>3
<1>6. Records(file)' = Records(file) /\ Counted' = Len(Records(file - 1)) + next' - 1
  BY <1>1 DEF Records, Counted
<1>7. LineAtHand'
  BY <1>1, <1>4, <1>5, <1>6 DEF LineAtHand
<1>8. DealtWith(lineno)
  BY <1>1 DEF Dealing, Pending
<1>9. DealtWith(lineno - 1)'
  BY <1>1, <1>5, <1>6, <1>8 DEF DealtWith
<1>10. lineno' = Counted'
  BY <1>1, <1>2, <1>5, <1>6
<1> QED
  BY <1>1, <1>2, <1>7, <1>9, <1>10 DEF Dealing, Pending

LEMMA OpeningKeepsDealing ==
  ASSUME Types, Types', Dealing, PrintsOneRange, job' = job, g_cmds' = g_cmds, OpenFile
  PROVE  Dealing'
<1>1. /\ step = "open" /\ status = "running" /\ UNCHANGED <<lineno, quit_now, in_range, out, ps>>
      /\ step' \in {"open", "read"} /\ (status' = "done" => step' = "open" /\ file = Len(job.input) /\ file' = file)
  BY DEF OpenFile
<1>2. DealtWith(lineno) /\ lineno = Len(Records(file))
  <2>1. DealtWith(lineno)
    BY <1>1 DEF Dealing, Pending
  <2>a. lineno = Counted
    BY DEF Dealing
  <2>2. CASE file = 0
    <3>1. Records(file) = <<>> /\ lineno = 0
      BY <2>a, <2>2, RecordsOfNone DEF Counted
    <3> QED
      BY <2>1, <3>1, EmptySeq
  <2>3. CASE file # 0
    <3>1. next = Len(Lines) + 1 /\ Len(Lines) \in Nat
      BY <1>1, <2>3, LineIsText DEF Types
    <3>2. lineno = Len(Records(file - 1)) + next - 1
      BY <2>a, <2>3 DEF Counted
    <3>3. lineno = Len(Records(file))
      BY <2>3, <3>1, <3>2, RecordsOfFiles
    <3> QED
      BY <2>1, <3>3
  <2> QED
    BY <2>1, <2>2, <2>3
<1>3. CASE UNCHANGED <<file, next>>
  <2>1. Records(file)' = Records(file) /\ Counted' = Counted
    BY <1>3, CountedStays
  <2>2. DealtWith(lineno)'
    BY <1>1, <1>2, <1>3, <2>1 DEF DealtWith
  <2>3. lineno' = Counted'
    BY <1>1, <1>3, <2>1 DEF Dealing
  <2> QED
    BY <1>1, <1>3, <2>2, <2>3 DEF Dealing, Pending
<1>4. CASE file' = file + 1 /\ next' = 1
  <2>1. file \in Nat /\ file + 1 \in Nat /\ file + 1 # 0 /\ (file + 1) - 1 = file
    BY FileNumbers
  <2>2. \A k \in 1..file + 1 : job.input[k] \in Seq(Line)
    BY <1>4 DEF Types
  <2>3. /\ \A n \in 1..Len(Records(file)) : Records(file + 1)[n] = Records(file)[n]
        /\ Len(Records(file)) \in Nat
    <3>1. \A n \in 1..Len(Records((file + 1) - 1)) : Records(file + 1)[n] = Records((file + 1) - 1)[n]
      BY <2>1, <2>2, RecordsOfFile
    <3> QED
      BY <2>1, <3>1, RecordsOfFiles
  <2>4. \A n \in 1..lineno : Records(file + 1)[n] = Records(file)[n]
    BY <1>2, <2>3
  <2>5. /\ SelectedOf(Records(file + 1), g_cmds[1], lineno) = SelectedOf(Records(file), g_cmds[1], lineno)
        /\ OpenAfter(Records(file + 1), g_cmds[1], lineno) = OpenAfter(Records(file), g_cmds[1], lineno)
    BY <1>2, <2>3, <2>4, LaterLines
  <2>6. Records(file)' = Records(file + 1) /\ Counted' = Len(Records(file))
    <3>1. Records(file)' = Records(file + 1)
      BY <1>4 DEF Records
    <3>2. Counted' = Len(Records(file)) + 1 - 1
      BY <1>4, <2>1 DEF Records, Counted
    <3> QED
      BY <2>3, <3>1, <3>2
  <2>7. DealtWith(lineno)'
    BY <1>1, <1>2, <2>5, <2>6 DEF DealtWith
  <2>8. lineno' = Counted'
    BY <1>1, <1>2, <2>6
  <2>9. status' # "done"
    BY <1>1, <1>4, <2>1
  <2> QED
    BY <1>1, <1>4, <2>1, <2>7, <2>8, <2>9 DEF Dealing, Pending
<1> QED
  BY <1>3, <1>4 DEF OpenFile

LEMMA StepRanges ==
  ASSUME Types, Ranging, [Next]_vars
  PROVE  Ranging'
<1>1. Types' /\ job' = job /\ g_cmds' = g_cmds
  BY StepKeepsTypes, JobStays
<1> SUFFICES ASSUME PrintsOneRange PROVE Dealing'
  BY <1>1, RecordsStay DEF Ranging
<1>2. Dealing /\ ~job.auto
  BY DEF Ranging, PrintsOneRange
<1>3. CASE Command \/ PassOver
  BY <1>1, <1>2, <1>3, CommandKeepsDealing
<1>4. CASE ReadLine
  BY <1>1, <1>2, <1>4, ReadingKeepsDealing
<1>5. CASE OpenFile
  BY <1>1, <1>2, <1>5, OpeningKeepsDealing
<1>6. step = "after" => ps \in Line /\ ps # Null /\ ~Marked
  <2> SUFFICES ASSUME step = "after" PROVE ps \in Line /\ ps # Null /\ ~Marked
    OBVIOUS
  <2>1. ps \in Line
    BY <1>2 DEF Dealing
  <2>2. ASSUME ps # <<>> PROVE ps[Len(ps)] # Marker
    <3>1. Len(ps) \in 1..Len(ps)
      BY <2>1, <2>2, EmptySeq DEF Line
    <3>2. ps[Len(ps)] \in Char \cup {Newline}
      BY <2>1, <3>1, ElementOfSeq DEF Line
    <3> QED
      BY <3>2, SymbolAssumption
  <2> QED
    BY <2>1, <2>2, PrintedTexts, PointerAssumption DEF Marked
<1>7. CASE EndOfScript \/ EndOfFile \/ FinishLine
  <2>1. /\ UNCHANGED <<file, next, lineno, is_last_line_in_file, quit_now, in_range, out, ps>>
        /\ ~Pending' /\ status' # "done"
    BY <1>2, <1>7 DEF EndOfScript, EndOfFile, FinishLine, Finish, input, Pending, Dealing
  <2>2. ~Pending
    <3>1. Len(g_cmds) = 1
      BY DEF PrintsOneRange
    <3> QED
      BY <1>7, <3>1 DEF EndOfScript, EndOfFile, FinishLine, Pending
  <2>3. step' \in {"exec", "after"} => step \in {"exec", "after"}
    BY <1>7 DEF EndOfScript, EndOfFile, FinishLine, Finish
  <2> QED
    BY <1>1, <1>2, <2>1, <2>2, <2>3, PausesKeepDealing
<1>8. CASE UNCHANGED vars
  <2>1. UNCHANGED <<file, next, lineno, is_last_line_in_file, quit_now, in_range, out, ps, step, i, status>>
    BY <1>8 DEF vars
  <2>2. Records(file)' = Records(file) /\ Counted' = Counted
    BY <1>1, <2>1, CountedStays
  <2> QED
    BY <1>1, <1>2, <2>1, <2>2 DEF Dealing, DealtWith, LineAtHand, Pending
<1>9. ~(ReadForNext \/ NothingToPrint \/ FinishJoin)
  BY <1>6 DEF ReadForNext, NothingToPrint, FinishJoin
<1> QED
  BY <1>3, <1>4, <1>5, <1>7, <1>8, <1>9 DEF Next, Driver, Ended

LEMMA RangingHolds == Spec => []Ranging
<1>1. Init => Ranging
  <2> SUFFICES ASSUME Init, PrintsOneRange PROVE Dealing
    BY DEF Ranging
  <2>1. Records(0) = <<>>
    BY RecordsOfNone
  <2>2. SelectedOf(<<>>, g_cmds[1], 0) = <<>>
    BY FlattenOfNone DEF SelectedOf
  <2>3. OpenAfter(<<>>, g_cmds[1], 0) = FALSE
    BY DEF OpenAfter
  <2>4. in_range[1] = FALSE
    <3>1. DOMAIN g_cmds = 1..Len(g_cmds)
      BY InitTypes, LenProperties DEF Types
    <3> QED
      BY <3>1 DEF Init, PrintsOneRange
  <2> QED
    BY <2>1, <2>2, <2>3, <2>4 DEF Init, Dealing, DealtWith, Pending, Counted
<1>2. Types /\ Ranging /\ [Next]_vars => Ranging'
  BY StepRanges
<1> QED
  BY <1>1, <1>2, TypesHold, PTL DEF Spec

\* where the addresses are taken as the manual says, so is the range
LEMMA MeansTheSame ==
  ASSUME NEW A, NEW cmd, NEW n \in Nat,
         \A k \in 1..n : \A a \in {cmd.a1, cmd.a2} : LineMatches(A, a, k) <=> Means(a, k)
  PROVE  Selected(cmd, n) <=> SelectedIn(A, cmd, n)
<1>1. \A first \in 1..n : \A k \in first..n - 1 : k \in 1..n
  OBVIOUS
<1>2. ASSUME Selected(cmd, n) PROVE SelectedIn(A, cmd, n)
  <2>1. PICK first \in 1..n : Means(cmd.a1, first) /\ \A k \in first..n - 1 : ~Means(cmd.a2, k)
    BY <1>2 DEF Selected
  <2>2. LineMatches(A, cmd.a1, first) /\ \A k \in first..n - 1 : ~LineMatches(A, cmd.a2, k)
    BY <1>1, <2>1
  <2> QED
    BY <2>2 DEF SelectedIn
<1>3. ASSUME SelectedIn(A, cmd, n) PROVE Selected(cmd, n)
  <2>1. PICK first \in 1..n :
          LineMatches(A, cmd.a1, first) /\ \A k \in first..n - 1 : ~LineMatches(A, cmd.a2, k)
    BY <1>3 DEF SelectedIn
  <2>2. Means(cmd.a1, first) /\ \A k \in first..n - 1 : ~Means(cmd.a2, k)
    BY <1>1, <2>1
  <2> QED
    BY <2>2 DEF Selected
<1> QED
  BY <1>2, <1>3

(* With -n p prints the lines of its range, wherever in the files the range   *)
(* begins and ends, and nothing else, for addresses taken as the manual says. *)
THEOREM RangesArePrinted == Spec => []PrintsItsRange
<1>1. Types /\ Ranging => PrintsItsRange
  <2> SUFFICES ASSUME Types, Ranging, OneRange("p"), ~job.auto
               PROVE  out = LinesWhere([n \in DOMAIN AllLines |-> Selected(g_cmds[1], n)])
    BY DEF PrintsItsRange
  <2> DEFINE A == AllLines
             cmd == g_cmds[1]
  <2>1. PrintsOneRange /\ status = "done"
    BY DEF OneRange, PrintsOneRange
  <2>2. /\ step = "open" /\ file = Len(job.input) /\ ~Pending /\ DealtWith(lineno)
        /\ lineno = Counted
    BY <2>1 DEF Ranging, Dealing, Pending
  <2>3. A = Records(file)
    <3>1. DOMAIN job.input = 1..file
      BY <2>2, FileNumbers, LenProperties
    <3> QED
      BY <3>1 DEF AllLines, Records
  <2>4. lineno = Len(A) /\ A \in Seq(Record)
    <3>1. CASE file = 0
      BY <2>2, <2>3, <3>1, RecordsOfFiles, RecordsOfNone, EmptySeq DEF Counted
    <3>2. CASE file # 0
      <4>1. next = Len(Lines) + 1 /\ Len(Lines) \in Nat
        BY <2>2, <3>2, LineIsText DEF Types
      <4> QED
        BY <2>2, <2>3, <3>2, <4>1, RecordsOfFiles DEF Counted
    <3> QED
      BY <3>1, <3>2
  <2>5. DOMAIN A = 1..Len(A)
    BY <2>4, LenProperties
  <2>6. \A n \in DOMAIN A : Selected(cmd, n) <=> SelectedIn(A, cmd, n)
    <3>1. \A k \in 1..Len(A) : \A a \in {cmd.a1, cmd.a2} : LineMatches(A, a, k) <=> Means(a, k)
      BY <2>5 DEF OneRange, AsDocumented, LineMatches
    <3> TAKE n \in DOMAIN A
    <3>2. n \in Nat /\ \A k \in 1..n : k \in 1..Len(A)
      BY <2>4, <2>5, LenProperties
    <3>3. \A k \in 1..n : \A a \in {cmd.a1, cmd.a2} : LineMatches(A, a, k) <=> Means(a, k)
      BY <3>1, <3>2
    <3> HIDE DEF A, cmd
    <3> QED
      BY <3>2, <3>3, MeansTheSame
  <2> DEFINE chosen == [n \in DOMAIN A |-> Selected(cmd, n)]
  <2>7. [n \in DOMAIN A |-> IF chosen[n] THEN A[n].text ELSE <<>>]
          = [n \in 1..Len(A) |-> IF SelectedIn(A, cmd, n) THEN A[n].text ELSE <<>>]
    <3>1. \A n \in DOMAIN A : chosen[n] <=> SelectedIn(A, cmd, n)
      BY <2>6
    <3> HIDE DEF chosen, A
    <3> QED
      BY <2>5, <3>1
  <2>8. LinesWhere(chosen) = SelectedOf(A, cmd, Len(A))
    BY <2>7 DEF LinesWhere, SelectedOf
  <2> QED
    BY <2>2, <2>3, <2>4, <2>8 DEF DealtWith
<1> QED
  BY <1>1, RangingHolds, TypesHold, PTL

=============================================================================
