--------------------------------- MODULE Tr ---------------------------------
(***************************************************************************)
(* src/src/tr/tr.c: tr.  Bytes are 0..MaxByte; the two greatest stand for  *)
(* 0xFF and 0xFE, with which STRING2 marks a [c*].  An operand is a        *)
(* sequence of elements: [t |-> "byte", c], [t |-> "range", lo, hi],       *)
(* [t |-> "class", set], and in STRING2 [t |-> "repeat", c, n], with n = 0 *)
(* for [c*].                                                               *)
(*                                                                         *)
(* The input comes from a file, of which a read gives as much as was asked *)
(* for, or from a pipe, of which it gives a part.  Writing may fail.  The  *)
(* letters of a name given with -i or -o, which tr.c goes on to read as    *)
(* options, are taken to do no harm.                                       *)
(***************************************************************************)
EXTENDS Integers, Sequences, FiniteSets
LOCAL INSTANCE SequencesExt
LOCAL INSTANCE FiniteSetsExt

CONSTANTS
  MaxByte,
  MaxString,    \* MAX_STRING
  BufferLen,    \* 4096, the length of inbuf
  Strings1, Strings2, Inputs,
  Switches      \* sets of the option letters "c", "d", "s"

Marker1 == MaxByte
Marker2 == MaxByte - 1
Bytes == 0..MaxByte

VARIABLES
  s1, s2,          \* the operands; has2: there is a STRING2
  has2, switches,
  source,          \* "file" or "pipe"
  target,          \* "file" (-o) or "stdout"
  input,           \* all of the input, and what is not read of it
  unread,
  set1, set2,      \* set1_buf and set2_buf, up to their lengths
  in_squeeze, map,
  last_out,        \* the last byte of the squeeze set put out, -1 if none
  written,
  status           \* "start", "copy", then "exit 0" to "exit 2"

tvars == <<s1, s2, has2, switches, source, target, input, unread, set1, set2,
           in_squeeze, map, last_out, written, status>>
operands == <<s1, s2, has2, switches, source, target, input>>

opt_complement == "c" \in switches
opt_delete == "d" \in switches
opt_squeeze == "s" \in switches
TooLong == <<-1>>

-----------------------------------------------------------------------------
(* parse_class, parse_repeat and the range of expand_string; a range is read *)
(* upwards whichever end comes first.                                       *)
Ascending(set) == SetToSortSeq(set, <)
Expansion(e) ==
  CASE e.t = "byte" -> <<e.c>>
    [] e.t = "range" -> Ascending(IF e.lo <= e.hi THEN e.lo..e.hi ELSE e.hi..e.lo)
    [] e.t = "class" -> Ascending(e.set)
    [] e.t = "repeat" /\ e.n > 0 -> [k \in 1..e.n |-> e.c]
    [] OTHER -> <<Marker1, Marker2, e.c>>

Truncated(s) == SubSeq(s, 1, Min({Len(s), MaxString}))

(* What is longer than the buffer is cut short; tr gives up when the next   *)
(* element finds the buffer full, or a marker has no room.                  *)
expand_string(elements) ==
  FoldLeft(LAMBDA out, e:
             IF out = TooLong \/ Len(out) >= MaxString
                \/ (e.t = "repeat" /\ e.n = 0 /\ Len(out) + 3 > MaxString)
             THEN TooLong ELSE Truncated(out \o Expansion(e)),
           <<>>, elements)

(* The padding is done in place: it may overwrite what is still to be read. *)
RECURSIVE Pad(_, _, _, _, _)
Pad(str, src, dst, len2, len1) ==
  LET marked == src + 2 < len2 /\ str[src + 1] = Marker1 /\ str[src + 2] = Marker2
      to == IF marked THEN Max({dst, len1}) ELSE dst + 1
      c == IF marked THEN str[src + 3] ELSE str[src + 1]
      longer == IF to > Len(str) THEN str \o [k \in 1..to - Len(str) |-> 0] ELSE str
      after == [k \in DOMAIN longer |-> IF k \in dst + 1..to THEN c ELSE longer[k]]
  IN CASE src >= len2 -> SubSeq(str, 1, dst)
       [] src < len2 /\ to >= MaxString -> TooLong
       [] OTHER -> Pad(after, IF marked THEN src + 3 ELSE src + 1, to, len2, len1)

resolve_string2_padding(str, len1) == Pad(str, 0, 0, Len(str), len1)

-----------------------------------------------------------------------------
InSet1(set, c) == \E k \in DOMAIN set: set[k] = c
Logical(set, c) == IF opt_complement THEN ~InSet1(set, c) ELSE InSet1(set, c)

SqueezeSet(one, two) ==
  IF ~opt_squeeze THEN {}
  ELSE IF opt_delete \/ two # <<>> THEN ToSet(two)
  ELSE {c \in Bytes: Logical(one, c)}

(* Only bytes written in STRING1 are entered, those after -c excluded: with *)
(* -c the map remains the identity.                                         *)
TransliterationMap(one, two) ==
  LET places(c) == {k \in DOMAIN one: one[k] = c /\ Logical(one, c)}
      last(c) == Max(places(c))
  IN [c \in Bytes |->
        IF opt_delete \/ two = <<>> \/ places(c) = {} THEN c
        ELSE two[Min({last(c), Len(two)})]]

(* Without -d there must be a STRING2. *)
MissingOperand ==
  /\ status = "start"
  /\ ~opt_delete /\ ~has2
  /\ status' = "exit 2"
  /\ UNCHANGED <<operands, unread, set1, set2, in_squeeze, map, last_out, written>>

CannotOpen ==
  /\ status = "start"
  /\ opt_delete \/ has2
  /\ source = "file" \/ target = "file"
  /\ status' = "exit 1"
  /\ UNCHANGED <<operands, unread, set1, set2, in_squeeze, map, last_out, written>>

Prepare ==
  LET one == expand_string(s1)
      expanded == IF has2 THEN expand_string(s2) ELSE <<>>
      two == IF expanded = TooLong \/ one = TooLong THEN TooLong
             ELSE IF has2 THEN resolve_string2_padding(expanded, Len(one)) ELSE <<>>
  IN /\ status = "start"
     /\ opt_delete \/ has2
     /\ IF two = TooLong
        THEN /\ status' = "exit 2"
             /\ UNCHANGED <<set1, set2, in_squeeze, map>>
        ELSE /\ set1' = one /\ set2' = two
             /\ in_squeeze' = SqueezeSet(one, two)
             /\ map' = TransliterationMap(one, two)
             /\ status' = "copy"
     /\ UNCHANGED <<operands, unread, last_out, written>>

-----------------------------------------------------------------------------
(* One byte of the input: r is what is put out so far and last_out. *)
PutByte(r, c) ==
  LET member == Logical(set1, c)
      uc == IF ~opt_delete /\ member THEN map[c] ELSE c
  IN CASE opt_delete /\ member -> r
       [] ~(opt_delete /\ member) /\ uc \in in_squeeze ->
            IF r.last = uc THEN r ELSE [out |-> Append(r.out, uc), last |-> uc]
       [] OTHER -> [out |-> Append(r.out, uc), last |-> -1]

ProcessMutant(chunk) ==            \* the squeeze starts anew with each buffer
  FoldLeft(PutByte, [out |-> <<>>, last |-> -1], chunk)
Process(chunk) == FoldLeft(PutByte, [out |-> <<>>, last |-> last_out], chunk)

(* inbuf is the buffer of the stream as well.  When a read gives less than   *)
(* was asked for, the next one goes to the beginning of inbuf and is copied  *)
(* from there behind the first: the first is overwritten.                   *)
InBuffer(first, second) ==
  LET k == Min({Len(first), Len(second)})
  IN SubSeq(second, 1, k) \o SubSeq(first, k + 1, Len(first)) \o second

(* fread: from a file all that there is room for, from a pipe also less, in *)
(* at most two parts.                                                       *)
Chunks ==
  LET full == Min({BufferLen, Len(unread)})
      parts == IF source = "file" THEN {<<full, 0>>}
               ELSE {p \in (1..full) \X (0..full): p[1] + p[2] <= full}
  IN {[n |-> p[1] + p[2],
       bytes |-> InBuffer(SubSeq(unread, 1, p[1]), SubSeq(unread, p[1] + 1, p[1] + p[2]))]:
      p \in parts}

Copy ==
  /\ status = "copy"
  /\ unread # <<>>
  /\ \E chunk \in Chunks:
       LET r == Process(chunk.bytes) IN
       /\ unread' = SubSeq(unread, chunk.n + 1, Len(unread))
       /\ last_out' = r.last
       /\ \/ written' = written \o r.out /\ status' = status
          \/ \E k \in 0..Len(r.out) - 1:   \* fwrite fails
               written' = written \o SubSeq(r.out, 1, k) /\ status' = "exit 1"
  /\ UNCHANGED <<operands, set1, set2, in_squeeze, map>>

ReadError ==
  /\ status = "copy"
  /\ status' = "exit 1"
  /\ UNCHANGED <<operands, unread, set1, set2, in_squeeze, map, last_out, written>>

(* What fwrite has kept may be lost at the end: fclose tells it of a file,   *)
(* of the standard output nobody does.                                      *)
Finish ==
  /\ status = "copy"
  /\ unread = <<>>
  /\ \/ status' = "exit 0" /\ written' = written
     \/ \E k \in 0..Len(written) - 1:
          /\ written' = SubSeq(written, 1, k)
          /\ status' = IF target = "file" THEN "exit 1" ELSE "exit 0"
  /\ UNCHANGED <<operands, unread, set1, set2, in_squeeze, map, last_out>>

TInit ==
  /\ s1 \in Strings1 /\ s2 \in Strings2 /\ has2 \in BOOLEAN
  /\ switches \in Switches
  /\ source \in {"file", "pipe"} /\ target \in {"file", "stdout"}
  /\ input \in Inputs /\ unread = input
  /\ set1 = <<>> /\ set2 = <<>> /\ in_squeeze = {}
  /\ map = [c \in Bytes |-> c]
  /\ last_out = -1 /\ written = <<>> /\ status = "start"

TNext == MissingOperand \/ CannotOpen \/ Prepare \/ Copy \/ ReadError \/ Finish
TSpec == TInit /\ [][TNext]_tvars

TTypeOK ==
  /\ unread \in Seq(Bytes) /\ written \in Seq(Bytes)
  /\ set1 \in Seq(Bytes) /\ set2 \in Seq(Bytes)
  /\ in_squeeze \subseteq Bytes /\ map \in [Bytes -> Bytes] /\ last_out \in Bytes \cup {-1}
  /\ status \in {"start", "copy", "exit 0", "exit 1", "exit 2"}

-----------------------------------------------------------------------------
(* What the operands mean, the input taken as a whole. *)
Members(elements) == UNION {ToSet(Expansion(e)): e \in ToSet(elements)}
Chosen(c) == (c \in Members(s1)) # opt_complement

(* STRING2 to the length of STRING1: by its [c*] if there is one, at the    *)
(* end, otherwise by its last byte.                                         *)
Counterpart(c) ==
  LET one == FlattenSeq([k \in DOMAIN s1 |-> Expansion(s1[k])])
      plain == SelectSeq(s2, LAMBDA e: ~(e.t = "repeat" /\ e.n = 0))
      two == FlattenSeq([k \in DOMAIN plain |-> Expansion(plain[k])])
      k == Max({i \in DOMAIN one: one[i] = c})
  IN IF k <= Len(two) THEN two[k]
     ELSE IF plain # s2 THEN s2[Len(s2)].c
     ELSE IF two = <<>> THEN c ELSE two[Len(two)]

Meant ==
  LET kept == IF opt_delete THEN SelectSeq(input, LAMBDA c: ~Chosen(c))
              ELSE [k \in DOMAIN input |->
                      IF Chosen(input[k]) THEN Counterpart(input[k]) ELSE input[k]]
      alone(k) == k = 1 \/ kept[k] # kept[k - 1] \/ kept[k] \notin in_squeeze
  IN [i \in 1..Cardinality({k \in DOMAIN kept: alone(k)}) |->
        LET at == CHOOSE k \in DOMAIN kept:
                    alone(k) /\ Cardinality({j \in 1..k: alone(j)}) = i
        IN kept[at]]

(* Read from a file, the output is a beginning of what the operands mean,    *)
(* however the input falls into buffers (a run that is squeezed may be cut   *)
(* by one); and when tr reports success for an output file it is all there. *)
(* Left out, because the code does it otherwise: -c without -d, a [c*] that  *)
(* is not last, and a pipe.                                                 *)
TranslatesTheStream ==
  source = "file" /\ (opt_complement => opt_delete)
  /\ (\A k \in DOMAIN s2: s2[k].t = "repeat" /\ s2[k].n = 0 => k = Len(s2))
  /\ status \notin {"start", "exit 2"}
  => /\ IsPrefix(written, Meant)
     /\ status = "exit 0" /\ target = "file" => written = Meant
=============================================================================
