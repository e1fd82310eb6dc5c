# A TLA+ development of validc-tools

The repository is a userland written in ISO C: a line editor, a few Unix tools, two shells,
small file systems for machines without one. This directory holds TLA+ modules translated
from its sources, TLC configurations that check them on small instances, and proofs that
TLAPS checks for every instance. `PROJECT.json` maps every definition to the lines it stands
for and lists the runs, the mutants that each property must reject, the findings and the
hazards.

## 1. Inventory

| part | sources | state | operations | what is hard about it |
|---|---|---|---|---|
| **ed: addresses** | `src/ed/ed.c` 183-452, 603-751 | none (pure functions of the line typed, the buffer, the current line and the marks) | `parse_one_address`, `parse_ed_address`, `parse_address`, `parse_address_range`, `search_pattern` | 0-based and 1-based indices, 0 standing for "none", two parsers that must agree, wrap-around |
| **ed: buffer** | `src/ed/ed.[ch]` | the `Editor` structure: lines, current line, file name, dirty flag, marks, one undo snapshot | append, insert, delete, change, move, copy, join, substitute, read, undo, load | in-place loops in phases; indices (marks, current line) that must follow the lines; nested snapshots; failed allocations |
| **ed: commands** | `src/ed/ed.c` 1136-2525 | the structure, the files, the stack of global commands | every letter of `execute_command`, `g` and `v` nested and with `{}` lists, `main` | commands run by commands; what is lost on error, on memory failure, on quitting |
| **bre** | `src/lib/bre.[ch]` | the groups of one match | `bre_match`, `bre_substitute` | backtracking over repeated groups; order of groups |
| **getopt** | `src/lib/getopt.[ch]` | `optind`, the place in a cluster, the permutation so far | `getopt`, `getopt_long`, `getopt_long_only` | state kept between calls; permutation of `argv` |
| **sed** | `level1/sed.c` | the script and the place in it; pattern space, hold space, `in_range` of each command, write files | options and operands, the parser, the cycle and 21 commands | one position through seven functions of the parser; ranges over cycles; `n`, `N`, `D` handled by the driver through marks left in the pattern space |
| **smoltar** | `src/smoltar` | the archive and the files | create, list, extract in three modes | a file read three times; the next header found by the size alone; partial writes |
| **tr** | `src/tr` | two sets, a map, the byte written last | operands, complement, delete, translate, squeeze | squeezing over the ends of buffers; padding of STRING2; write errors |
| **grep** | `src/grep` | patterns, counters | files, lines, six ways to report | exit status over files that fail; words and whole lines |
| **batch** | `src/batch` | variables, the command being continued, the condition | `var`, `unset`, `ifeq` ..., expansion | cuts at fixed sizes; continuation; conditions |
| **cat** | `src/cat` | none | a copy | |
| **fat16** | `fat16/vfs.c` | FAT, directories, descriptors, two flash images, one mutex | mount, flush, open ... rmdir | crash between two images; stale descriptors; a lock taken twice |
| **level2 vfs** | `level2/vfs` | array of inodes, block map, handles; client buffers | the file operations; framing over a socket; thirteen requests | handles that outlive what they point to; numbers given twice; edge-triggered sockets; requests laid out twice, by hand |
| **sh23** | `level2/sh23` | tokenizer state; variable, alias, trap and function stores; syntax tree | tokenize, parse, execute, builtins | quotes over several lines; arrays of owned pointers |
| **fnvtest, fnvupdate** | `level1/fnv*.c` | the list of hashes, shared by processes | test a file, update the list | no lock; a list cut and then written |
| **level1 tools** | `level1/*.c` | single passes; `led` is an earlier editor | | |

The parts are separate programs. `ed`, `led`, `grep` and `sed` call `bre`; `grep` calls `getopt_long`;
`fat16/vfs.c` has host tools around it; the client library of `level2/vfs` talks to its server over a
local socket; the shell would run on `level2/vfs` through `c23lib`.

Not everything compiles as committed: `fat16/vfs.c` (`mode_t`), `level2/vfs/vfs.c` (the number `0xVF51`),
`vfs_client.c` and several files of `sh23` (headers that are missing, or that the Makefile makes from a template)
and `bre2.c`. Where the text has one plain reading in spite of that, the modules model it; where it has none
(`function_store.c`, `executor.c`, `arithmetic.c`, `parser.c`), nothing is modelled.

What makes each part correct:

* addresses: a line means what POSIX `ed` users expect of its forms, results are in bounds, the
  two interfaces agree, searches find the nearest match;
* buffer: no line is lost or duplicated by a shift, marks and the current line follow, `u` takes
  one command back;
* commands: no undefined operation on any sequence of careful commands, errors are harmless, text is
  let go only when it is stored or by an explicit command, global commands visit the lines they
  chose and end, unless an `s///g` under them never does;
* sed: a script with one command to a line comes to the commands it was written as; ranges between line numbers open and close
  as `sed_manual.txt` says, and every line is printed once;
* getopt: what comes out of the calls is what the command line means read once; bre: the match is
  the leftmost and the longest, its groups lie in it in order;
* tr, grep, batch: what is written is what the operands say of the input as a whole;
* smoltar: what is extracted is what was archived; the list of hashes: no file is called unchanged
  that was not entered with its hash;
* fat16: after a crash the image of the last flush, or of one begun after it, is mounted; no two files share a
  cluster; level2 vfs: no two files share a block until an inode number is given twice or a pointer strays; its server answers
  every request that fits, and hears what the client was asked for in the calls whose two layouts agree;
* tokenizer: no character of a word is lost or doubled; stores: each name has the value last given, each object one owner.

## 2. Modules

    EdAddress --> EdBuffer --> Editor --> MCEditor      EdBuffer --> EdBuffer_proofs --> Editor_proofs
        \--> EdAddressCalls        \--> EdStore (INSTANCE)      Editor ------------------/
    SedLines --> Sed --> MCSed                          Sed --> Sed_proofs
       \--> SedScript --> MCTools

    DurableImage <-- FlashStore    Fat16    VfsTable    Smoltar    HashList           --> MCStorage
    Getopt    Bre --> BreCalls    Bre --> Grep    Tr    Batch    VfsServer
    VfsCalls     Tokenizer    Stores    EdAddressCalls                                --> MCTools

    FlashStore --> FlashStore_proofs    HashList --> HashList_proofs
    VfsServer --> VfsServer_proofs      VfsTable --> VfsTable_proofs     Fat16 --> Fat16_proofs

`MCStorage` extends `FlashStore`, `Fat16`, `HashList` and `VfsTable` and instantiates `Smoltar`, `MCTools` extends
`VfsServer`, `MCEditor` extends `Editor` and `MCSed` extends `Sed`; so TLC evaluates the assumptions of those modules. (Where names meet, `VfsTable`'s `vfs_mount` is
`vfs_mount_disk`, and `Fat16`'s `vfs_mkdir`, `vfs_opendir`, `vfs_readdir` and `vfs_closedir` are `fat_mkdir` and so on.)

| module | models | how |
|---|---|---|
| `EdAddress` | the parsers of addresses and the searches | pure operators over tokens: a number, a mark or a delimited expression is one token, so that digit loops and delimiters are left out, while every branch, the blanks that matter and the place where the parser stops are kept |
| `EdAddressCalls` | an address typed, token by token | the parsers called on every beginning of it; what an address means beside them |
| `EdBuffer` | every function that changes the `Editor` structure | operators from structure to structure; the loops of `move_range` and `copy_range` are kept slot by slot (what a slot holds after the loop), the others by the sequence they build |
| `Editor` | `execute_command`, `main`, files, failures | one action per command letter and per way a global command proceeds |
| `EdStore` | the promise about the user's text | an abstract machine that `Editor` implements |
| `Sed` | `level1/sed.c`: the driver and every command | one action per command and per step of the driver; text is a sequence of symbols |
| `SedLines` | which commands of its lines a script comes to | an operator that `Sed` runs on and that `SedScript` is shown to arrive at |
| `SedScript` | `main` and the parser of `level1/sed.c` | a step per option and per command parsed, over characters; the writing of a script, in all the ways the parser allows for, beside it |
| `DurableImage` | the promise of the flash: the last image, or one begun after it | an abstract machine that `FlashStore` implements (`INSTANCE ... WITH`, `found` mapped to what `vfs_mount` would load) |
| `FlashStore` | `vfs_init`, `vfs_mount`, `vfs_flush` of `fat16/vfs.c` | a step for each write to the flash; a crash, or a write that fails, at any of them; the mutex as far as a call waits for itself |
| `Fat16` | every other operation of `fat16/vfs.c` | one step each, as the mutex is held throughout; chains, entries, descriptors with their own copies of cluster and size |
| `VfsTable` | `level2/vfs/vfs.c` | one step per call; handles are addresses of array elements, and the array moves |
| `VfsServer` | `vfs_server.c`, the sending side of `vfs_client.c` | clients, network, socket, edge, buffer; requests in any pieces |
| `VfsCalls` | the bytes of requests and answers in `vfs_client.c` and `vfs_server.c` | a call in three steps: laid out by the client, read and answered by the server, read by the client; the operation between has any outcome |
| `Smoltar` | `smoltar.c` | create in steps (open, write, end), between which files change and writes fail; list and extract |
| `HashList` | `fnvtest.c`, `fnvupdate.c` | processes with a step for each access to the list and to a file, ended at any point |
| `Getopt` | `getopt.c` | a step per call; the abstract reading of a command line beside it |
| `Bre`, `BreCalls` | `bre.c` | the matcher as operators over tokens; a step per call |
| `Tr`, `Grep`, `Batch` | `tr.c`, `grep.c`, `batch.c` | a step per buffer, per line and per physical line |
| `Tokenizer` | `sh23/tokenizer.c` and `main.c` | a step per line typed |
| `Stores` | the stores of `sh23` that have a reading | a step per call; a heap of objects, the arrays that own them |
| `MCEditor`, `MCSed`, `MCStorage`, `MCTools` | | values for TLC; the last two put independent programs side by side, `program` says which of them runs |
| `*_proofs` | | theorems and their lemmas |

State of `Editor` against the code: `ed` is the structure, `disk` the files by name, `work` the
recursion of `execute_command` through `g` and `v` (one frame for each level, with the indices
of `match_lines` that remain), `status` how the program ended, `failed` whether the command
printed `?`, `last` its letter, `left` the commands that may still be typed. A command is a
record; an action is guarded by its letter and by the checks of its branch, and covers the branch
to its `return`: snapshot, loops, marks, dirty flag, error.

Left out of `Editor`: what is printed, the prompt, verbose messages, the cut of lines beyond
`MAX_LINE`, `delete_line` (no command calls it). Texts of lines are model values; a pattern is
the set of texts it matches and `s` a function on texts: `bre` is external here. A newline that is
missing at the end of a file is taken as present. `fopen` may fail on any file.

* Operations that C leaves undefined (a store past the array, a use after free, a loop over a
  negative count) end the run in the status `"undefined"`: nothing is claimed about what follows.
* A failed allocation is a buffer that would exceed `MaxLines`; `critical_error` then ends the
  program and may write the lines the structure holds at that moment. Where `CopiesFail`, `my_strdup` may fail for any line that
  `t` copies: the null pointer is in its slot before it is tested (2286), so `emergency_save`, which prints the lines up to the
  count (559-560), does something undefined if that slot is one of them (`CopyFails`).
* The loop of `s///g` is `Diverges`: it does not end when no text that the substitution leaves
  unchanged can be reached. Under `g` or `v` it keeps the global command from ending (`work` stays as it is).
* Under `g` and `v`, `a`, `i` and `c` read their text from the input except in a list, where `a`
  and `i` take it from the list, as the code does.

State of `Sed` against the code: `ps`, `hs`, `lineno`, `quit_now` are the fields of `ExecState`,
`in_range` those of the commands in `g_cmds`, `i` the loop index, `wfile` the contents of `g_wfiles`, `step` the place in
`process_files`, `again` whether it is in the second call of `exec_cmds_on_line`, for `n`. A command either
goes on to the closing of ranges after the switch (`Goes`) or returns before it (`Leaves`). A null
pattern space and the marker byte that `N` appends are states of the model as they are of the code. `Sed` begins
with the commands that are kept of the lines of a script (`ParseScript`); `SedScript` shows that the characters come to those. Regular expressions are a character or a
starred character, with what `bre_match` returns for them. `realloc` fails for a space longer than `MaxSpace`;
other allocations succeed. `fopen` fails for the write files in `Unwritable`, and what is written to them is dropped. Left out: lines longer than `MAX_LINE`, how `l` shows a
character, groups in a replacement (no replacement is ever made).

The later modules, against the code:

* `FlashStore`: a body that was cut off has the new header and a checksum that matches nothing; the header is
  the first thing written and is written whole. A crash is one of the process: there is no `fsync`, so nothing
  can be said of a loss of power. `vfs_mount` of a flash without an image calls `vfs_init` with the mutex held and
  never returns; `StaysMountable` says that a flash that has once held an image never comes to that. A `vfs_write` that fails
  half way has changed the table without marking it (`FailedWrite`): a flush right after it writes nothing and returns 0.
* `Fat16`: the root table is clusters 0 and 1, so a write through a first cluster that was never set lands in it,
  as in the code. What is written is a slot of an entry's size: nothing in use, or an entry with any name and first cluster, which
  is read as one if its cluster has become that of a directory. Such an entry differs from one that a call made in `made` alone, which no
  guard reads; `misled` records that one was removed and its chain freed. Left out: forged first clusters past the table, and a
  directory at cluster 0. A path is its components; `findEntry` steps over the terminator of one without a trailing slash
  (263-264) and looks at the byte behind it, which is taken to be 0. Times and attributes other than the directory bit are left out, and so is what `ls.c` and the two
  copy programs do with the interface.
* `VfsTable`: an access outside of the array or through memory that `realloc` gave up sets `wild`, a number that is
  given a second time sets `renumbered`; the property speaks of the behaviours up to there.
* `SedScript`: a character is a character, a number has at most two digits where it is written; no memory failure, no byte
  order mark. `\r` goes before parsing, as in `main`, so that the parser's own test for it is never reached.
* `VfsServer`: what a request does is left to `VfsTable`, what it says to `VfsCalls`.
* `VfsCalls`: a number is 0 to 255 or -1, anything else that is read is `Other`; handles lie below 2^32 (the server casts a
  pointer to 32 bits and back); an answer arrives whole, as one write. The bytes behind a request are those of earlier ones:
  fields the client does not send are read from there.
* `Smoltar`: a header is the cells of one block with one checksum (`list_archive` looks at the magic alone, extraction at the
  checksum too; the two agree here, as the data of a member never looks like a header); names have no path separator (with one the
  program exits before it writes the header).
* `Getopt` takes an argument as letters or as a name and a value; `W;` and messages are left out. `Bre` takes a pattern as tokens: how characters
  group into them is left out. `Grep` has the options as a set; how `-e` and `-f` collect patterns, `-n`, `-s` and the file names before a
  line are left out. `Tr` has the operands as elements; escapes and class names are left out. `tr.c` goes on with
  the letters of the file name after `-i` and `-o`: a name is taken to be one for which that does no harm.
* `Batch` counts lengths in words; quotes within a value, `vars`, `-v` and the prompt are left out.
* `Tokenizer`: the three expansions that never return (`$(`, `${` and the backtick: the code tests the pointer where it means
  its character), and the here-document, which aborts, end the shell in the model as in the code. `is_complete`
  looks at neither an escaped end of line nor a pending here-document, so no line is continued after a backslash.
* `Stores`: the families are `alias_store`, `trap_store`, `variable_store` (variables, positional and special
  parameters) and `variables.c`. Getters, patterns and printing change nothing and are left out.
* `HashList`: a list fits into a buffer of the C library: it is read at once and written when its stream is closed.

## 3. Runs

| run | question | instance |
|---|---|---|
| `edit` | is the buffer right after editing commands, global ones included? | two files of 2 and 3 lines, 3 commands, 5 lines of memory, one mark, ranges in order, text that is not empty |
| `session` | is the text safe whatever is typed? | two files, 3 commands out of every letter, ranges in the wrong order, empty text, missing and unreadable files, 4 lines of memory |
| `nested` | do global commands end, and do `m` and `t` lose no line of the buffers they make? | global commands over commands that lengthen and reorder the buffer, and over other global commands |
| `sed_filter` | does `sed` print and write what its commands say, and end? | scripts of one and two commands of every kind and some of up to six, with two commands on a line and a line after a text; inputs of up to four lines in up to three files, one of them empty, missing or without its last newline; room for 8 symbols and one write file out of three names, one of which cannot be opened |
| `storage` | do the programs that keep files lose, mix up or invent any of them? | the flash with three images and up to five flushes; five clusters of three slots, two names, three paths, one descriptor, reads and writes of two and four slots, what is written being zeros or an entry; two blocks, three inodes, counters modulo 3, two saved images; archives of two of four file names, a member of one and a half blocks, one short write; two processes over two files, four starts and changes of a file in all |
| `tools` | do the libraries, the filters, the address parsers of `ed`, the server and the shell come step by step to what the whole of their input means? | every address of up to 4 tokens out of 13 on each buffer of up to 2 lines, with each current line and mark (a form has at most 3 tokens and a pair of addresses 7, of which those of 4 are typed), searches in each buffer of up to 3; command lines of up to four of eight arguments; some 1500 patterns on 17 texts; sed scripts of every address and argument alone and of two or three lines given in each of five ways, of which two commands fit; tr with buffers of two bytes and operands of up to four on inputs of up to five; grep on a file, an empty, a missing one and the standard input twice; batch scripts of four or five lines; two clients, a buffer of three units and requests of up to five; two calls of the thirteen functions over a buffer of 24 bytes; three typed lines; two names, two entries, two parameters, three objects in all |
| `change_undo`, `swap`, `copy_abort`, `sed_range`, `sed_substitute`, `sed_script` | the disagreements below | one command each; for `sed_script` the scripts of `tools` |

Why the bounds are enough: three commands make a snapshot, a change and the command that takes
it as its state; a range, a destination before it and one after it fit into three lines; five lines
let a command double a two-line buffer and still be refused when it doubles again, so the
failing allocation happens; two files are needed to tell the file that is saved from the one that
is named. `edit` keeps ranges in order and texts non-empty because the code does reach
undefined operations otherwise (`1,2i` of nothing followed by `a`, or `3,1d`), and lets no copy of `t` fail; `session` types
those too, with copies that fail, and checks what holds up to the undefined step. `nested` types no `s///g` that loops for ever: a
global command over one does not end, which `swap` shows of the command itself.

For `Sed`: a range needs a line before it, its two ends and a line after them, over the end of a file;
the signals of `n` and `N` meet in scripts of two commands and at the end of a file; a second write
file is refused, and one that cannot be opened; the memory ends in `H`, `G`, in `N` and in the line `N` asks for.

For `storage`: three images tell the last from the one before and from one that was begun and failed; five flushes let
the sequence pass both slots twice and let a torn slot be followed by a whole one. Five clusters run out, a chain
has two or three of them, a write of four slots takes two at once and may find one, and a file in a directory of its own name meets the rule by which `findEntry` looks a name up.
Two blocks and three inodes make the array move, close up and run out. Two processes are enough to
write over each other's list, and a later start reads what they left.

For `tools`: each buffer is shorter than an input, each limit (groups, kept advances, words of a command and of a
value, variables, tokens) is met. Requests of 1, 2 and 3 units arrive two in a piece or one in three; one of 5
never fits, and nothing is promised for it.

Fairness: `nested` and `sed_filter` state liveness properties. `FairSpec` of `Editor` adds weak fairness of the steps
inside a global command: the program has one thread and does not wait for anything while a
global command has work. Typing is not fair: a user may stop. `FairSpec` of `Sed` is weak fairness of
every step: one sequential process that reads files. `Finishes` excludes scripts with `D` and a command that
may give the pattern space new lines (`c`, `g`, `G`, `x`): `c` and then `D` do run for ever, as `D` starts the
script again without reading. `SFairness` of `VfsServer` is weak fairness of the network's delivery, of `epoll`'s loop (accept, serve,
hang up) and of a client that reads its answer: one thread serves whatever `epoll_wait` announces, and a local
socket delivers. Clients need not send anything. `RequestsAreAnswered` relies on the edges: a read per edge is enough because what does
not fit into the buffer is the only thing left unread.

Each property has a mutant in `PROJECT.json`: a change of one definition (a guard dropped, an index
not adjusted, a snapshot incomplete) under which TLC finds the property violated.

### What the runs found

* `change_undo`: `c` calls `delete_range` and `insert_line`, each of which takes a snapshot, after
  its own: `u` after `c` brings back the buffer in the middle of `c`, without the old lines.
* `swap`: `s///g` looks at the text it has produced again, until it does not change: a
  replacement that keeps matching is never finished (`s/\(.\)\(.\)/\2\1/g` on `xy`).
* `copy_abort`: when memory runs out while `t` fills the gap it has opened, the count of lines is
  still the old one, and the emergency file lacks the lines that had been shifted: `,t1` of `x y z` with memory for two copies
  leaves `x x y`. There the copy that fails was to go behind the old count; where it was to go before it, the null pointer in its slot
  is among the lines saved, which is undefined (`CopyFails`) and not what this run shows.

* `sed_range`: `d` returns from the script before the place where a range is closed: once the first
  address of `addr1,addr2d` has matched, every line to the end of the input is deleted. So it is of
  `D` without a newline, `n` and `N`.
* `sed_substitute`: `bre_match` returns `BRE_OK`, which is 0, for a match, and `sed.c` takes the result for a
  truth value: `s` never replaces anything, and `/re/` selects the lines that `re` does not match.
  (`PrintsItsRange` and `DeletesItsRange` therefore speak of the addresses that `addr_matches` takes as `sed_manual.txt` says: line
  numbers, and `$` where one file alone has lines.)
* `sed_script`: the parser eats the `;` behind a command and then goes on to the end of the line instead of stopping there, as its
  comments say (`sed.c` 538 and 558): of `w f;d` only `w f` is kept. `ScriptReadsAsWritten` is about scripts with one command to a line.

Seen and not checked, because no text of the repository promises otherwise or because no run has room for it:

* `fat16`: `findEntry` without its third argument wants the last component to be a directory and looks for its name in it, so that a
  file is found only under a directory of its own name; the size in an entry is hardly ever updated;
  `vfs_rmdir` of a directory is refused as not empty; every open mode opens for both; when
  clusters run out those already linked stay; a descriptor whose file is gone can make `vfs_write` loop with the mutex
  held; a write through such a descriptor into a cluster that is a directory by now makes entries of its bytes.
* `level2/vfs`: `vfs_remove` takes the parent's number less one for its index; a number may be given twice; opening a directory for
  writing writes block 0; unmounting writes the table over the first blocks; the server never unmounts.
* client and server: the path of `fopen` is read at a fixed place, where it is for a mode of three letters only; `fread` sends as
  many bytes as it has members; `ftell` is told four bytes of a position and takes eight; `fseek` is heard with an offset whose
  upper half is the whence, and with a whence from whatever was in the buffer. `CallsAreHeard` is about the other calls.
* server: a request larger than the buffer is never answered: either both sides wait, or a read of no bytes is taken for
  the end of the connection; more clients than `MAX_EVENTS` overrun the table.
* `smoltar`: an archive cut at the end of a member extracts without an error; the result of `fclose` is ignored; a file that
  changes while it is added makes an archive that cannot be read on from there.
* `bre`: a group that can match nothing, repeated more often than 256 times, walks back before the text; `a\(b\)` finds `axb`.
* `grep`: without `-i` a line keeps its newline, so `$` and `-x` match only a last line without one; `-w` looks for further matches with `^`
  matching in the middle.
* `tr`: `-c` without `-d` translates nothing; `-s` with one string is refused although the head of the file describes it; a
  `[c*]` that is not last overwrites what follows; the stream's buffer is also the program's.
* `batch`: `unset` with white space before it removes a variable named `unset`; a long line is read as two; the exit status is 0.
* `tokenizer`: the text of an operator stays in the current word: `a && b` is `a`, `&&`, the word `&&`, `b`
  and quotes stay in the word; `tests/token_tests.txt` expects otherwise (2, 3, 6, 7, 9, 17-20), but is read by no program that builds.
  What follows `<<` on a line that begins with it is dropped.
  `NothingTypedIsLost` is about the characters of words, in tokens that are no operators.
* stores: `variable_store_add` replaces a read-only variable; setting the positional parameters from the parameters themselves
  reads what has just been freed (the calls of `Stores` give texts of their own and pointers to variables).
* `fnvtest`: an unchanged file makes it write the old list over what another process has written meanwhile; a crash between
  cutting the list and writing it loses all of it (`ListIsTrue` promises the list only where no two overlapped).

Seen in `sed` and not checked: the line after the text of `a`, `i` and `c` is dropped, although it is a command
(`sed_manual.txt` 43); a range whose second address is a number not behind its first goes on to the end of the input, unlike POSIX;
what is written to a file that cannot be opened, or to one more than the table holds, is dropped without a word; the parser takes the backslash from every character of an expression, so that the
groups and `\1` which `sed_manual.txt` describes never come to `bre`; a script file without a last newline runs into the
next `-e`; after N `is_last_line_in_file` is that of the line before; `$` is the last line of each file, not of the input
(`sed_manual.txt` 12); `a` and `r` print before the line, not after; `N` leaves
two newlines between the lines; `c` over a range prints its text for every line; a byte 1 at the end of the
input is taken for the marker of `N`.

Seen while modelling `ed` and not checked, because no text of the repository says otherwise: `j` leaves
marks where they are (`MarksFollow` does not cover it); `u` is refused in an empty buffer; `w`
clears the dirty flag although `fprintf` may have failed; `e` without a name uses the name it has
just freed; `m` and `t` to a tab alone take the current line, which may be past the end.

## 4. Proofs

Each theorem is about every value of the constants that the named assumptions allow: every set of texts, files and
commands, every number of clients, processes, images, inodes and blocks, and every bound.

| theorem | says | argument |
|---|---|---|
| `TypeCorrect` | `Spec => []TypeOK` | invariant `IInv` below |
| `CursorStaysInBounds` | `Spec => []CursorInBounds` | same |
| `ShiftsAlwaysSplice` | `Spec => []ShiftsAreSplices` | `CopyIsSplice`, `MoveIsSplice`: the slots of the loops, compared element by element with the splice |
| `CommandsAreUndone` | `Spec => OneCommandIsUndone` | every operation begins with its snapshot and takes no other (`OperationsSave`) |
| `FailuresAreHarmless` | `Spec => FailureIsHarmless` | every way of printing `?` leaves the structure, or the structure with a new snapshot |
| `EditorKeepsThePromise` | `ThereIsRoom => (Spec => KeepsThePromise)`: `Editor` implements `EdStore` | initial states map to initial states; each command maps to one action of `EdStore` or to a stutter, with `IInv` for the types of what is mapped |
| `GlobalsStayOnCourse` | `PlainGlobals => (Spec => []TargetsStayPut)` | invariant `GInv` |
| `EmergencySaveKeepsAll` | `ThereIsRoom => (Spec => EmergencySaveIsComplete)` | what the structure holds where the allocation fails is the buffer with lines put in, so no line occurs less often (`SpliceKeepsLines`, `PartialKeepsLines`: an injection between the places of a line) |
| `MarksStayOnTheirLines` | `Spec => MarksFollow` | for each operation, where it puts a line and where it puts a mark are the same place (`SpliceMovesMarks`, `MoveMovesMarks`, `CopyMovesMarks` ...) |
| `CarefulCommandsAreDefined` | `Careful => (Spec => []NothingUndefined)`: what C leaves undefined is reached by none of the commands of a careful user | invariant `Composed`, beside `IInv` |
| `FlashTypes`, `FlashStaysMountable` | `FSpec => []FTypeOK`, `FSpec => []StaysMountable` | invariant `FInv` |
| `FlashIsDurable` | `FSpec => MountFindsLastFlush`: `FlashStore` implements `DurableImage` | with `FInv`, what a mount would load is the image of the last flush or of one begun after it, at every write |
| `ServerTypes`, `NothingIsLost`, `EdgesAreEnough` | `SSpec => []STypeOK`, `[]UnansweredIsAccountedFor`, `[]NoEdgeIsMissed` | invariant `SInv` |
| `HashTypes`, `HashListIsTrue` | `LSpec => []LTypeOK`, `LSpec => []ListIsTrue` | invariant `LInv` |
| `FatTypes`, `ChainsAreNotShared` | `TSpec => []TTypeOK`, `TSpec => []NoCrossLinks`, where `NoCrossLinks` speaks of the behaviours up to the removal of an entry that no call made | invariant `XInv` |
| `TableTypes`, `BlocksAreNotShared` | `VSpec => []VTypeOK`, `VSpec => []NoSharedBlocks` | invariant `TInv` |
| `SedTypes` | `Spec => []TypeOK` (of `Sed`) | invariant `Types` |
| `FilesAreWritten` | `Spec => []WrittenAsPrinted`: the file, if it can be opened, of a `w` that follows the `p` of the same address holds what was printed | invariant `WrittenWith(f)` for each file |
| `LinesAreAccounted` | `RoomForMarker => (Spec => []LinesAccounted)`: a script that only passes text on writes every character it read, once and in order | invariants `HandedOver` and `HeldBack` |
| `RangesArePrinted` | `Spec => []PrintsItsRange`: `addr1,addr2p`, with addresses that `addr_matches` takes as the manual says, prints the lines of its ranges, over all cycles and files | invariant `Ranging` |

The inductive invariants, each of which TLC checked before it was proved:

* `IInv` (`Editor`). `CursorInBounds` is not inductive: `u` makes the snapshot current, so its current line must be in the
  bounds of its own lines; a mark is read by an address; the size of the buffer decides whether an
  append is refused. `IInv` therefore joins to the bounds of the current line the types of the whole structure,
  the same bounds for the snapshot, and the types of the frames of `work` (a nested command is
  built from a frame and has to be well formed again). `EdBuffer_proofs` shows, function by function,
  that a consistent structure stays consistent (`Good`) under the checks its caller makes;
  its first part shows that what the parsers of addresses return is within the bounds those checks rely on;
  `Editor_proofs` puts them together with one step per command. For the promise of `EdStore` a command also
  writes one file at most (`OneFile`) and no file outgrows `MaxFile`.
* `GInv` (`Editor`). Lines below the one being visited have to keep place and text while its command works; what an
  editing command leaves alone is stated operation by operation (it changes nothing before the line it is given).
  The frame therefore says, besides what `TargetsStayPut` says of the lines that remain, that they all lie below the one
  being visited: the reason why `execute_global` goes backwards.
* `Composed` (`Editor`). That nothing undefined has happened does not say why. The code lets the current line be one place past
  the last line (`CursorInBounds` allows it), where an `i` or a `c` of nothing can leave it, and the next command that takes
  `.` for an existing line works on one that is not there. `Composed` says that neither the current line nor the one `u`
  restores is that place, and that the frames of global commands hold commands that stay careful when a line number is put before them.
* `FInv` (`FlashStore`). One slot is whole and holds an image that a mount may return, and the other cannot take
  precedence over it with anything older: it is torn, or its number is lower, or what it holds is as recent. While a
  process has the flash mounted that slot is the one in use, which `vfs_flush` never writes; after a crash it is one of the two.
* `SInv` (`VfsServer`). What a client waits for is in flight, in the socket, in the buffer or answered, unit by unit; and
  whatever the server has not read has an edge that is still to be seen, unless the request is longer than the buffer.
* `LInv` (`HashList`). Where no two processes have overlapped, what a process holds (lines kept, lines still to be read) and
  what the file holds make up the list that is promised, at each of the places where the process can be ended; a list names a
  file once.
* `TInv` (`VfsTable`). The map gives each block one owner, every inode with a block is that owner, and the numbers of inodes
  differ; the root has no parent, so that a removal that finds an index less one for the wrong parent is seen as astray. The same
  holds of the image on the disk, which becomes the table when it is mounted.
* `XInv` (`Fat16`). Chains that end and do not meet are not enough: what is allocated next must be in none of them. So the chain
  of an entry has no free cluster in it either (`Whole`). A descriptor whose file is gone is not asked for anything: it
  may append to a chain that is another file's by now, which then is longer (`LinkedChain`), or walk in what is
  freed for ever; but it only links a cluster that was free behind one that ended a chain, and only one chain ends there.
  `ChainOf` is defined as the least set closed under the links, so that no induction along a chain is needed. What is written through
  a descriptor may be read as an entry; `XInv` therefore counts the chains of the entries that calls have made, and holds them apart
  until one that was not made is removed (`misled`), which frees the chain it happens to name.
* `Types` (`Sed`). Besides the types, where the driver is: a file is open unless `step` is "open", and where the next file is
  opened the one before has been read to its end, so that what has been read is made of whole files.
* `WrittenWith` (`Sed`). In the script `addr p`, `addr w f`, ... each pair keeps one `in_range` between them, and between the two
  commands (`Halfway`) what is printed is ahead of the file by the pattern space, if the second command will be selected as well.
* `HandedOver`, `HeldBack` (`Sed`). What is printed, what is in the pattern space while a line is under way and what is in the
  hold space make up what was read, in this order; of a script that begins with `x`, in another order up to that command.
  `N` leaves its marker in the pattern space, which is why a line must be shorter than `MaxSpace`: otherwise memory ends with the
  line in the driver's hands.
* `Ranging` (`Sed`). After each line `in_range` tells whether some line up to it matched the first address and none after that one
  has matched the second; with it, what is printed is what the lines dealt with select. `Flatten` of the lines is the library's
  recursive definition: that of a sequence with one element more is got from the least length for which it would be wrong.

Assumptions, on constants only:

* `CopiesFail` is true or false; `Concat` maps non-empty sequences of texts to texts; every command is well formed (`WellFormed`), in particular the single
  command after `g` does not begin with a number, which would run into the line number put before it; bounds are natural numbers.
* `FlashAssumption`: the blank image is an image, the mark of a torn body is none. `ServerAssumption`: the buffer and every
  request have at least one unit. `HashAssumption`: names of files differ from the marks used beside them, and a list there from the
  beginning names each file once, as `fnvtest` makes it (`ListIsTrue` is false of others: only the first of two lines is replaced).
  `FatAssumption`: the table has the root's two clusters and no cluster has the number that ends a chain (65535; the code
  has 125), counts are natural numbers, what is written is a slot that no call has made, with any name and a first cluster in the table, that of a
  directory not 0.
  `TableAssumption`: paths are sequences of names, sizes are positive, and the counters are wider than what they count (2^32 in
  the code).
* `JobsAssumption`: lines of input are characters and newlines, none of them byte 1; commands have the fields
  they use. `SymbolAssumption`, `PointerAssumption`: a newline, the marker and characters differ, a null pointer is no text.
  `RoomForMarker`: every line of input is shorter than `MaxSpace`. `FilesAssumption`: the files that cannot be opened are write files.
* `ThereIsRoom`: the bound `MaxFile` on a file is no smaller than the bound `MaxLines` on the buffer, and the files given fit into
  it. The code has no such bound on files; with a smaller one the model would cut what is written.
* `PlainGlobals`: after `g` and `v` stands one command, without an address of its own, that is none of `m t u e E g v`. Those do
  lead a global command astray in the code: they put lines where they are told to, replace the buffer, or go through it again.

* `Careful`: each command, and each under a `g` or `v`, has text if it is `a`, `i` or `c`; no range before `a` and `r`, which take
  one address and use the first of two; ends in order, so far as its two addresses are written as numbers or left out, if it is
  `d`, `c`, `j` or `t`; and a file name after `e` and `E`; and if copies may fail, every `t` copies to `$`, where the slots filled lie behind the count
  (`FailedCopyEnds`, `DollarIsLast`). The commands of the run `edit` meet it, and that run checks the property
  of them without the theorem. Some condition is needed: `1,2i` of nothing followed by `a`, or `3,1d`, is
  undefined, and so is a copy to a place before the last line that fails.

`MarksFollow` leaves out a `t` that makes the buffer shorter: that of a range in the wrong order, which cuts the end of the
buffer off. The prover would not do without that exception, and TLC then showed the case.

Only model-checked: as liveness is out of the prover's reach, `GlobalEnds`, `Finishes` and `RequestsAreAnswered`; what lists of
tokens or characters mean, which is computed by recursion over them: the meaning of addresses, `GlobalActsOnChosen`,
`SedScript`, `Getopt`, `Tr`, `Batch`, `Tokenizer` and `Bre`, `Grep` (their recursive operators keep them from the prover
altogether). Also `Smoltar`, `Stores` and `VfsCalls`.

## 5. Plan

Done: 1. `EdAddress`; 2. `EdBuffer`; 3. `Editor` with `EdStore`; 4. their type and cursor invariants,
`ShiftsAreSplices`, undo and failure as theorems; 5. `Sed`; 6. `Getopt`; 7. `Bre` and `Grep`; 8. `Tr`, `Batch`;
9. `Smoltar`, `HashList`; 10. `FlashStore` with `DurableImage`, `Fat16`; 11. `VfsTable`, `VfsServer`; 12. `Tokenizer`, `Stores`;
also `SedScript` and `VfsCalls`.

Done, as proofs: 13. `FlashStore`: `StaysMountable` and the refinement of `DurableImage`; 14. `VfsServer`: nothing that is sent
is lost, no edge is missed; 15. `HashList`: `ListIsTrue`; 16. `VfsTable`: `NoSharedBlocks`; 17. `Editor`: the refinement of
`EdStore`, `TargetsStayPut`, `EmergencySaveIsComplete`, `MarksFollow`; 18. `Fat16`: `NoCrossLinks`; 19. `Sed`: types, `WrittenAsPrinted`,
`LinesAccounted`, `PrintsItsRange`; 20. `Editor`: `NothingUndefined`, for careful commands.

Left: 21. `Stores`: a safety theorem.

## 6. Not modelled

* `parser.c`, `executor.c`, `builtins.c`, `execute.c`, `function_store.c` and `arithmetic.c` of `sh23`: not built, and without types,
  functions or braces that no file supplies; a model would have to invent them. What `arithmetic.c` has steps back over every
  operator it reads.
* `junk/` and the files of `sh23` whose names begin with `_`: superseded. `bre2.c`: a second matcher that nothing uses.
* `process_char`, `process_string` and `process_arith` of the tokenizer, which no path reaches, and aliases in it: `main`
  never defines one.
* `sha256.c`: a pure function of the bytes; `Smoltar` takes the content itself for its hash.
* `cat`, `cp`, `mv`, `rm`, `echo`, `ifc`, the host tools of `fat16`, `c23lib`: straight copies and wrappers. `chgenc`
  and `checkenc` convert and classify bytes in one pass. `led` is an earlier editor, superseded by `ed`.
* the tests and their framework: read for what they expect of the programs.
