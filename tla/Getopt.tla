------------------------------- MODULE Getopt -------------------------------
(***************************************************************************)
(* src/src/lib/getopt.c: getopt and getopt_long, one option per call, the  *)
(* arguments rearranged on the way.  argv[0] is left out: argv and optind  *)
(* begin with the first argument.                                          *)
(*                                                                         *)
(* An argument is a record: a plain word, "--", a cluster of option        *)
(* letters (text are the letters behind the dash), or a long option (text  *)
(* are the letters of its name, value what follows "=").  The extension    *)
(* "W;", the short form of a long option, is left out; so are messages.    *)
(***************************************************************************)
EXTENDS Integers, Sequences, FiniteSets
LOCAL INSTANCE SequencesExt

CONSTANTS
  Arguments,   \* the arguments that a command line is made of
  MaxArgs,     \* bound on their number
  ShortOption, \* option letter -> "none", "required" or "optional"
  LongOptions, \* sequence of [name, has, val]
  LongOnly     \* getopt_long_only

VARIABLES
  given,      \* the command line as it was
  argv,
  ordering,   \* PERMUTE, REQUIRE_ORDER or RETURN_IN_ORDER
  colon,      \* the option string begins with ":"
  optind, firstNonopt, lastNonopt,
  nextchar,   \* the letters of a cluster that are still to come
  results,    \* history: what the calls returned, with optarg
  finished    \* a call has returned -1

gvars == <<given, argv, ordering, colon, optind, firstNonopt, lastNonopt,
           nextchar, results, finished>>

NoArg == <<>>
argc == Len(argv) + 1
Cur == argv[optind]
NonOption(a) == a.kind = "plain"

GTypeOK ==
  /\ argv \in Seq(Arguments) /\ Len(argv) = Len(given)
  /\ ordering \in {"PERMUTE", "REQUIRE_ORDER", "RETURN_IN_ORDER"}
  /\ optind \in 1..argc /\ firstNonopt \in 1..argc /\ lastNonopt \in 1..argc
  /\ \A r \in Range(results): r.ret \in STRING

-----------------------------------------------------------------------------
(* exchange: the plain words first..last-1 change places with the options   *)
(* last..optind-1, by swaps of equal blocks at one end or the other.        *)
SwapBlocks(s, i, j, len) ==
  [k \in DOMAIN s |-> CASE k \in i..i + len - 1 -> s[j + k - i]
                        [] k \in j..j + len - 1 -> s[i + k - j]
                        [] OTHER -> s[k]]

RotateStep(r) ==
  LET left == r.middle - r.bottom
      right == r.top - r.middle
  IN CASE left = 0 \/ right = 0 -> r
       [] left # 0 /\ right > left ->
            [r EXCEPT !.s = SwapBlocks(@, r.bottom, r.top - left, left), !.top = @ - left]
       [] OTHER ->
            [r EXCEPT !.s = SwapBlocks(@, r.bottom, r.middle, right), !.bottom = @ + right]

(* Every round settles at least one word: as many rounds as there are. *)
Exchanged(s, bottom, middle, top) ==
  FoldLeft(LAMBDA r, k: RotateStep(r),
           [s |-> s, bottom |-> bottom, middle |-> middle, top |-> top], s).s

-----------------------------------------------------------------------------
(* The scan for the next argument, when no cluster is being read. *)

(* What the last option left behind it is put before the plain words. *)
Gathered ==
  LET first == IF firstNonopt > optind THEN optind ELSE firstNonopt
      last == IF lastNonopt > optind THEN optind ELSE lastNonopt
      moves == first # last /\ last # optind
      s == IF moves THEN Exchanged(argv, first, last, optind) ELSE argv
      f == IF moves THEN first + (optind - last)
           ELSE IF last # optind THEN optind ELSE first
      rest == {i \in optind..Len(s): ~NonOption(s[i])}
      o == IF rest = {} THEN argc ELSE CHOOSE i \in rest: \A j \in rest: i <= j
  IN IF ordering = "PERMUTE"
     THEN [s |-> s, first |-> f, last |-> o, ind |-> o]
     ELSE [s |-> argv, first |-> first, last |-> last, ind |-> optind]

(* "--" ends the options: all that follow it are plain. *)
PastDashesMutant(g) ==             \* the plain words are left where they are
  IF g.ind = argc \/ g.s[g.ind].kind # "dashes" THEN g
  ELSE [g EXCEPT !.first = IF g.first = g.last THEN g.ind + 1 ELSE g.first,
                 !.last = argc, !.ind = argc]
PastDashes(g) ==
  LET ind == g.ind + 1
      moves == g.first # g.last /\ g.last # ind
  IN IF g.ind = argc \/ g.s[g.ind].kind # "dashes" THEN g
     ELSE [s |-> IF moves THEN Exchanged(g.s, g.first, g.last, ind) ELSE g.s,
           first |-> IF moves THEN g.first + (ind - g.last)
                     ELSE IF g.first = g.last THEN ind ELSE g.first,
           last |-> argc, ind |-> argc]

-----------------------------------------------------------------------------
(* What one call does, as a record: the letters left, the new optind and    *)
(* the result.                                                              *)
Result(ret, arg) == [ret |-> ret, arg |-> arg]
Out(next, ind, ret, arg) == [next |-> next, ind |-> ind, result |-> Result(ret, arg)]
MissingArg == IF colon THEN ":" ELSE "?"

(* process_long_option: an exact name, or a prefix of one name only. *)
LongMatch(name) ==
  LET exact == {i \in DOMAIN LongOptions: LongOptions[i].name = name}
      partial == {i \in DOMAIN LongOptions: IsPrefix(name, LongOptions[i].name)}
      least(s) == CHOOSE i \in s: \A j \in s: i <= j
  IN CASE exact # {} -> <<"found", least(exact)>>
       [] exact = {} /\ partial = {} -> <<"none", 0>>
       [] exact = {} /\ \E i \in partial: \A j \in partial: i = j -> <<"found", least(partial)>>
       [] OTHER -> <<"ambiguous", 0>>

process_long_option(s, ind, name, value) ==
  LET m == LongMatch(name)
      opt == LongOptions[m[2]]
  IN CASE m[1] # "found" -> Out(<<>>, ind + 1, "?", NoArg)
       [] m[1] = "found" /\ value # NoArg ->
            IF opt.has = "none" THEN Out(<<>>, ind + 1, "?", NoArg)
            ELSE Out(<<>>, ind + 1, opt.val, value)
       [] m[1] = "found" /\ value = NoArg /\ opt.has = "required" ->
            IF ind + 1 < argc THEN Out(<<>>, ind + 2, opt.val, s[ind + 1].text)
            ELSE Out(<<>>, ind + 1, MissingArg, NoArg)
       [] OTHER -> Out(<<>>, ind + 1, opt.val, NoArg)

(* A letter of a cluster. *)
process_short_option(s, ind, letters) ==
  LET c == Head(letters)
      rest == Tail(letters)
      past == IF rest = <<>> THEN ind + 1 ELSE ind
  IN CASE c \notin DOMAIN ShortOption -> Out(rest, past, "?", NoArg)
       [] c \in DOMAIN ShortOption /\ ShortOption[c] = "none" -> Out(rest, past, c, NoArg)
       [] c \in DOMAIN ShortOption /\ ShortOption[c] # "none" /\ rest # <<>> ->
            Out(<<>>, ind + 1, c, rest)
       [] c \in DOMAIN ShortOption /\ ShortOption[c] = "optional" /\ rest = <<>> ->
            Out(<<>>, past, c, NoArg)
       [] OTHER -> IF past = argc THEN Out(<<>>, past, MissingArg, NoArg)
                   ELSE Out(<<>>, past + 1, c, s[past].text)

(* With long_only a cluster is first looked up as a long name: one that is  *)
(* longer than a letter or no known letter.  It stays one only when no name *)
(* fits and its first letter is an option.                                  *)
TriesLong(letters) ==
  /\ LongOnly
  /\ Len(letters) > 1 \/ Head(letters) \notin DOMAIN ShortOption
StaysLong(letters) ==
  TriesLong(letters) /\ (LongMatch(letters)[1] # "none" \/ Head(letters) \notin DOMAIN ShortOption)

Option(s, ind) ==
  LET a == s[ind] IN
  CASE a.kind = "long" -> process_long_option(s, ind, a.text, a.value)
    [] a.kind = "short" /\ StaysLong(a.text) -> process_long_option(s, ind, a.text, NoArg)
    [] OTHER -> process_short_option(s, ind, a.text)

-----------------------------------------------------------------------------
Take(out) ==
  /\ nextchar' = out.next
  /\ optind' = out.ind
  /\ results' = Append(results, out.result)
  /\ UNCHANGED <<given, ordering, colon, finished>>

(* A call in the middle of a cluster. *)
NextLetter ==
  /\ ~finished
  /\ nextchar # <<>>
  /\ Take(process_short_option(argv, optind, nextchar))
  /\ UNCHANGED <<argv, firstNonopt, lastNonopt>>

(* A call that begins with another argument. *)
NextArgument ==
  LET g == PastDashes(Gathered) IN
  /\ ~finished
  /\ nextchar = <<>>
  /\ argv' = g.s /\ firstNonopt' = g.first /\ lastNonopt' = g.last
  /\ CASE g.ind = argc ->
            /\ finished' = TRUE
            /\ optind' = IF g.first # g.last THEN g.first ELSE g.ind
            /\ UNCHANGED <<given, ordering, colon, nextchar, results>>
       [] g.ind # argc /\ NonOption(g.s[g.ind]) ->
            IF ordering = "REQUIRE_ORDER"
            THEN /\ finished' = TRUE
                 /\ optind' = g.ind
                 /\ UNCHANGED <<given, ordering, colon, nextchar, results>>
            ELSE Take(Out(<<>>, g.ind + 1, "in order", g.s[g.ind].text))
       [] OTHER -> Take(Option(g.s, g.ind))

GInit ==
  /\ given \in UNION {[1..n -> Arguments]: n \in 0..MaxArgs}
  /\ argv = given
  /\ ordering \in {"PERMUTE", "REQUIRE_ORDER", "RETURN_IN_ORDER"}
  /\ colon \in BOOLEAN
  /\ optind = 1 /\ firstNonopt = 1 /\ lastNonopt = 1
  /\ nextchar = <<>> /\ results = <<>> /\ finished = FALSE

GNext == NextLetter \/ NextArgument
GSpec == GInit /\ [][GNext]_gvars

-----------------------------------------------------------------------------
(* What a command line means, read once from the left with nothing moved:   *)
(* m.wants is the option whose argument is next, m.taken what the options    *)
(* and their arguments are, m.plain the rest.                               *)
MeansLetters(m, letters) ==
  LET takes == {k \in DOMAIN letters: letters[k] \in DOMAIN ShortOption
                                      /\ ShortOption[letters[k]] # "none"}
      last == IF takes = {} THEN Len(letters)
              ELSE CHOOSE k \in takes: \A j \in takes: k <= j
      c == letters[last]
      arg == SubSeq(letters, last + 1, Len(letters))
      alone == [k \in 1..(IF takes = {} THEN last ELSE last - 1) |->
                  Result(IF letters[k] \in DOMAIN ShortOption THEN letters[k] ELSE "?", NoArg)]
  IN IF takes # {} /\ ShortOption[c] = "required" /\ arg = <<>>
     THEN [m EXCEPT !.results = @ \o alone, !.wants = c]
     ELSE [m EXCEPT !.results = @ \o alone \o (IF takes = {} THEN <<>> ELSE <<Result(c, arg)>>)]

MeansLong(m, name, value) ==
  LET fit == {o \in Range(LongOptions): IsPrefix(name, o.name)}
      meant == {o \in fit: o.name = name \/ Cardinality(fit) = 1}
      o == CHOOSE x \in meant: TRUE
  IN IF meant = {} \/ (value # NoArg /\ o.has = "none")
     THEN [m EXCEPT !.results = Append(@, Result("?", NoArg))]
     ELSE IF o.has = "required" /\ value = NoArg THEN [m EXCEPT !.wants = o.val]
     ELSE [m EXCEPT !.results = Append(@, Result(o.val, value))]

MeansArgument(m, a) ==
  LET taken == [m EXCEPT !.taken = Append(@, a)]
      plain == [m EXCEPT !.plain = Append(@, a)]
  IN CASE m.wants # "" -> [taken EXCEPT !.results = Append(@, Result(m.wants, a.text)), !.wants = ""]
       [] m.wants = "" /\ m.ended -> plain
       [] OTHER ->
            CASE a.kind = "plain" /\ ordering = "PERMUTE" -> plain
              [] a.kind = "plain" /\ ordering = "REQUIRE_ORDER" -> [plain EXCEPT !.ended = TRUE]
              [] a.kind = "plain" /\ ordering = "RETURN_IN_ORDER" ->
                   [taken EXCEPT !.results = Append(@, Result("in order", a.text))]
              [] a.kind = "dashes" -> [taken EXCEPT !.ended = TRUE]
              [] a.kind = "long" \/ (a.kind = "short" /\ StaysLong(a.text)) ->
                   MeansLong(taken, a.text, IF a.kind = "long" THEN a.value ELSE NoArg)
              [] OTHER -> MeansLetters(taken, a.text)

Meaning ==
  LET m == FoldLeft(MeansArgument,
                    [results |-> <<>>, taken |-> <<>>, plain |-> <<>>, wants |-> "", ended |-> FALSE],
                    given)
  IN IF m.wants = "" THEN m
     ELSE [m EXCEPT !.results = Append(@, Result(MissingArg, NoArg))]

(* The calls return what the command line means, one result after another;  *)
(* at the end the options stand in front, the plain words behind them in    *)
(* their order, and optind is the first of these.  (getopt reads while it   *)
(* rearranges: every exchange works on what the calls before left.)         *)
ParsesWhatIsGiven ==
  /\ IsPrefix(results, Meaning.results)
  /\ finished => /\ results = Meaning.results
                 /\ argv = Meaning.taken \o Meaning.plain
                 /\ optind = Len(Meaning.taken) + 1
=============================================================================
