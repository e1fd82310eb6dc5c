------------------------------- MODULE VfsCalls -------------------------------
(***************************************************************************)
(* The calls of src/level2/vfs/vfs_client.c and their other side in         *)
(* vfs_server.c: how each lays out the bytes of a request and of an answer. *)
(* How they get through is VfsServer's, what they do VfsTable's: here the   *)
(* server's operation has any outcome it may have.                          *)
(*                                                                          *)
(* Numbers are little-endian, 0 to 255 or -1; Other is any other value read. *)
(* A string is a sequence of bytes that are not 0; an argument is a string,  *)
(* data or a number, which is a sequence of one.  Handles are pointers below *)
(* 2^32; a path fits in the buffer, a mode in four bytes.  An answer   *)
(* arrives whole.                                                           *)
(***************************************************************************)
EXTENDS Integers, Sequences, FiniteSets
LOCAL INSTANCE SequencesExt
LOCAL INSTANCE FiniteSetsExt

CONSTANTS
  WireCalls,    \* the arguments each function is called with
  Handles,      \* what vfs_fopen and vfs_opendir return but for NULL
  Entries,      \* what vfs_readdir returns but for NULL: <<d_ino, d_name, d_type>>
  MaxName,      \* VFS_MAX_NAME
  WireLen,      \* BUFFER_SIZE
  MaxCalls      \* bound: calls on a connection

VARIABLES
  asked,     \* the call that was made last
  buffer,    \* client_state.buffer of the connection: requests leave their bytes there
  heard,     \* the arguments the server's operation was called with
  outcome,   \* and what it returned
  reply,     \* the answer: whether resp[0] is set, and what follows its head
  returned,  \* what the client's function returned
  turn,      \* client, server, answer
  nth        \* calls made

wvars == <<asked, buffer, heard, outcome, reply, returned, turn, nth>>

Unknown == 256       \* a byte nobody has written
Other == -2
NULL == 0

Number(n, width) == [k \in 1..width |-> IF n < 0 THEN 255 ELSE IF k = 1 THEN n ELSE 0]
Value(bytes) ==
  CASE \A k \in DOMAIN bytes: bytes[k] = 255 -> -1
    [] bytes[1] # Unknown /\ \A k \in DOMAIN bytes \ {1}: bytes[k] = 0 -> bytes[1]
    [] OTHER -> Other
StrMutant(text) == text
Str(text) == Append(text, 0)
Unwritten(n) == [k \in 1..n |-> Unknown]
Fitted(bytes, n) == SubSeq(bytes \o Unwritten(n), 1, n)

-----------------------------------------------------------------------------
(* Requests.  The client declares eight bytes and the path for fopen,       *)
(* whatever the length of the mode; the whence of fseek overwrites the upper *)
(* half of its offset.                                                      *)
Payload(x) ==
  CASE x.op = "fopen" ->
         Fitted(Number(Len(x.args[2]) + 1, 4) \o Str(x.args[2]) \o Str(x.args[1]), 8 + Len(x.args[1]) + 1)
    [] x.op \in {"fclose", "ftell", "closedir", "readdir", "rewinddir"} -> Number(x.args[1][1], 4)
    [] x.op = "fread" -> Number(x.args[1][1], 4) \o Number(x.args[2][1], 4) \o Number(x.args[3][1], 4)
    [] x.op = "fwrite" ->
         Number(x.args[1][1], 4) \o Number(x.args[2][1], 4) \o Number(x.args[3][1], 4) \o x.args[4]
    [] x.op = "fseek" -> Number(x.args[1][1], 4) \o Number(x.args[2][1], 4) \o Number(x.args[3][1], 4)
    [] x.op = "mkdir" -> Number(x.args[2][1], 2) \o Str(x.args[1])
    [] x.op \in {"remove", "opendir"} -> Str(x.args[1])
    [] x.op = "rename" -> Number(Len(x.args[1]) + 1, 4) \o Str(x.args[1]) \o Str(x.args[2])

(* The server's reading: at is an offset in the payload, which follows the   *)
(* five bytes of the head in the buffer.                                     *)
Read(at, width) == <<Value(SubSeq(buffer, at + 6, at + 5 + width))>>
ReadNumber(at) == Read(at, 4)[1]
ReadString(at) ==
  SubSeq(buffer, at + 6, Min({WireLen + 1} \cup {k \in at + 6..WireLen: buffer[k] = 0}) - 1)

Heard(op) ==
  CASE op = "fopen" -> <<ReadString(8), ReadString(4)>>
    [] op \in {"fclose", "ftell", "closedir", "readdir", "rewinddir"} -> <<Read(0, 4)>>
    [] op = "fread" -> <<Read(0, 4), Read(4, 4), Read(8, 4)>>
    [] op = "fwrite" ->
         <<Read(0, 4), Read(4, 4), Read(8, 4), SubSeq(buffer, 18, 17 + ReadNumber(4) * ReadNumber(8))>>
    [] op = "fseek" -> <<Read(0, 4), Read(4, 8), Read(12, 4)>>
    [] op = "mkdir" -> <<ReadString(2), Read(0, 2)>>
    [] op \in {"remove", "opendir"} -> <<ReadString(0)>>
    [] op = "rename" -> <<ReadString(4), ReadString(4 + ReadNumber(0))>>

(* What the operation may return.  fread returns the members it has read,    *)
(* with their bytes, fwrite those it has written.                            *)
Members(n, size) == <<n, [k \in 1..n * size |-> 65 + k]>>
Outcomes(op, args) ==
  CASE op \in {"fopen", "opendir"} -> Handles \cup {NULL}
    [] op = "fread" -> {Members(n, args[2][1]): n \in 0..args[3][1]}
    [] op = "fwrite" -> 0..args[3][1]
    [] op = "ftell" -> {-1, 0, 7}
    [] op = "readdir" -> Entries \cup {<<>>}
    [] op = "rewinddir" -> {0}
    [] OTHER -> {0, -1}

(* Answers.  fread sends as many bytes as it has members; ftell sends the    *)
(* half of its long; a name stands in VFS_MAX_NAME bytes.                    *)
Answer(bad, body) == [bad |-> bad, body |-> body]
Failure == [k \in 1..15 |-> 70]     \* the text of a failed open
Answered(op, args, x) ==
  CASE op \in {"fopen", "opendir"} -> Answer(x = NULL, IF x = NULL THEN Failure ELSE Number(x, 4))
    [] op = "fread" -> Answer(x[1] = 0 /\ args[2][1] * args[3][1] > 0, SubSeq(x[2], 1, x[1]))
    [] op = "fwrite" -> Answer(x = 0 /\ args[2][1] * args[3][1] > 0, Number(x, 4))
    [] op = "readdir" ->
         Answer(FALSE, IF x = <<>> THEN <<>>
                       ELSE Number(x[1], 4) \o Fitted(Str(x[2]), MaxName) \o <<x[3]>>)
    [] op = "rewinddir" -> Answer(FALSE, <<>>)
    [] OTHER -> Answer(x < 0, Number(x, 4))

(* The client's reading: four bytes behind the head.  Of the long of ftell   *)
(* it has half, and takes the rest from behind its array.                    *)
Result == Value(SubSeq(reply.body, 1, 4))
Name(bytes) == SubSeq(bytes, 1, Min({Len(bytes) + 1} \cup {k \in DOMAIN bytes: bytes[k] = 0}) - 1)
Returned(op, args) ==
  CASE op \in {"fopen", "opendir", "fwrite"} -> IF reply.bad THEN 0 ELSE Result
    [] op = "fread" -> IF reply.bad THEN <<0, <<>>>> ELSE <<Len(reply.body) \div args[2][1], reply.body>>
    [] op = "ftell" -> IF reply.bad THEN -1 ELSE Other
    [] op = "readdir" -> IF reply.body = <<>> THEN <<>>
                         ELSE <<Result, Name(SubSeq(reply.body, 5, MaxName + 4)), reply.body[MaxName + 5]>>
    [] op = "rewinddir" -> 0
    [] OTHER -> Result

-----------------------------------------------------------------------------
(* The head of a request is its number and the length of the payload; what   *)
(* was in the buffer behind it stays.                                        *)
Ops == <<"fopen", "fclose", "fread", "fwrite", "fseek", "ftell", "mkdir", "remove", "rename",
         "opendir", "closedir", "readdir", "rewinddir">>
Request(x) == <<CHOOSE k \in DOMAIN Ops: Ops[k] = x.op>> \o Number(Len(Payload(x)), 4) \o Payload(x)

Ask(x) ==
  /\ turn = "client" /\ nth < MaxCalls
  /\ asked' = x /\ nth' = nth + 1
  /\ buffer' = Request(x) \o SubSeq(buffer, Len(Request(x)) + 1, WireLen)
  /\ turn' = "server"
  /\ UNCHANGED <<heard, outcome, reply, returned>>

Perform(op) ==
  /\ turn = "server" /\ op = Ops[buffer[1]]
  /\ heard' = Heard(op)
  /\ \E x \in Outcomes(op, Heard(op)):
       /\ outcome' = x
       /\ reply' = Answered(op, Heard(op), x)
  /\ turn' = "answer"
  /\ UNCHANGED <<asked, buffer, returned, nth>>

Return ==
  /\ turn = "answer"
  /\ returned' = Returned(asked.op, asked.args)
  /\ turn' = "client"
  /\ UNCHANGED <<asked, buffer, heard, outcome, reply, nth>>

WInit ==
  /\ asked = [op |-> "none", args |-> <<>>] /\ buffer = Unwritten(WireLen)
  /\ heard = <<>> /\ outcome = 0 /\ reply = Answer(FALSE, <<>>) /\ returned = 0
  /\ turn = "client" /\ nth = 0

WNext ==
  \/ \E op \in Range(Ops): \E a \in WireCalls[op]: Ask([op |-> op, args |-> a])
  \/ \E op \in Range(Ops): Perform(op)
  \/ Return
WSpec == WInit /\ [][WNext]_wvars

-----------------------------------------------------------------------------
WTypeOK ==
  /\ Len(buffer) = WireLen /\ turn \in {"client", "server", "answer"} /\ nth \in 0..MaxCalls
  /\ asked.op = "none" \/ asked.args \in WireCalls[asked.op]

(* The two files lay out each request and each answer by hand, and the       *)
(* buffer still has the bytes of earlier requests: the server does what the   *)
(* client was asked for and the client returns what came of it.  Not so for   *)
(* fopen with a mode that is not three letters long, fread of members of      *)
(* more than a byte, ftell, which is told half of a position, and fseek,      *)
(* which is heard with an offset only from the start, and never with its      *)
(* whence.                                                                    *)
Agrees(x) ==
  CASE x.op = "fopen" -> Len(x.args[2]) = 3
    [] x.op = "fread" -> x.args[2] = <<1>>
    [] x.op = "ftell" -> outcome = -1
    [] x.op = "fseek" -> x.args[3] = <<0>> /\ x.args[2][1] >= 0
    [] OTHER -> TRUE
CallsAreHeard ==
  turn # "server" /\ nth > 0 /\ Agrees(asked) =>
    /\ IF asked.op = "fseek" THEN SubSeq(heard, 1, 2) = SubSeq(asked.args, 1, 2) ELSE heard = asked.args
    /\ turn = "client" => returned = outcome
=============================================================================
