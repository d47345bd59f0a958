# A TLA+ model of chmlib

chmlib reads Microsoft HTML Help archives (`.chm`). The library is one C file
for the archive format (`src/src/chm_lib.c`), one for the LZX decoder
(`src/src/lzx.c`), and a handful of programs on top. This directory holds
specifications of its parts, the instances TLC checks, and proofs for TLAPS.
Paths below are relative to the directory above this one.

The library has no threads of its own, but it keeps a good deal of state
between calls: a cache, a decoder that can only go forward, a pointer into the
cache, and linked lists whose direction is set in one place and used in
another. What is hard about it is what a call finds when the calls before it
failed half-way, seeked back, or changed the cache's size. One of its programs,
`chm_http`, does have threads, and shares one archive and one file descriptor
between them.

## 1. The parts of the system

### Block cache and retrieval (`chm_lib.c:577-866`)

* **State**: in `chm_file`, the hash table of decompressed blocks
  (`cache_blocks`, `cache_block_indices`, `n_cache_blocks`), the decoder
  (`lzx_state`), and where the decoder stands (`lzx_last_block`,
  `lzx_last_block_data`). In a call of `chm_retrieve_entry`: how far it got.
* **Operations**: `chm_retrieve_entry` loops over `decompress_region`, which
  serves one swath out of one block. A miss goes to `decompress_block`, which
  first decodes the blocks of the reset interval the decoder has not been
  through, each by `uncompress_block`. `chm_set_cache_size` rehashes the table;
  `chm_close` frees it.
* **Interactions**: reads through the `chm_reader` callback; calls `lzx_init`,
  `lzx_reset`, `lzx_decompress`; depends on the entries, sizes and the
  `compression_enabled` flag that `chm_parse` leaves.
* **Hard**: every early exit of `uncompress_block` leaves the slot's tag, the
  decoder and `lzx_last_block` at different points of progress, and the next
  call starts from there.
* **Correct when**: a call returns exactly the bytes the entry has, whatever
  was called before; each block buffer has one owner; the decoder is run only
  on the block it is ready for; every call ends.

### Opening an archive (`chm_lib.c:868-1045`, headers `:347-532`)

* **State**: the entries (a linked list while parsing, then a table), the
  section parameters, `compression_enabled`, `parse_entries_failed`.
* **Operations**: `chm_parse` (headers, `parse_entries`, the three entries
  that describe the compressed section, reset table, control data) and what
  `chm_close` frees of it.
* **Hard**: a directory given up in the middle, allocation that fails between
  two steps, 32-bit arithmetic on numbers from the file by which
  `chm_retrieve_entry` later divides.
* **Correct when**: the table is the directory, or a prefix of it with the flag
  set; compression stays enabled only if the retrieval can rely on it; nothing
  allocated is out of reach; parsing ends.

### Parsing primitives (`chm_lib.c:265-345`, `:633-672`)

The `unmarshaller`, `get_cword`, `parse_pmgl_entry`, `flags_from_path`: no
state beyond a cursor. Numbers are of variable length, wrap around in 64 bits
and are cut to 32 or read as signed in places. Correct when they stay in the
page and take apart what was put together, so that the entry behind is read
from where it begins.

### Readers (`chm_lib.c:111-200`)

`mem_reader`, `fd_reader`, `win_reader`: the callback by which all bytes come
in. `fd_reader` reads the file position, moves it, reads and moves it back;
its state is the position in the kernel, shared by everyone who has the
descriptor. Correct when a read returns the bytes at the offset it asked for.

### LZX decoder (`lzx.c`)

* **State** (`struct lzx_state`): the window and the position in it, three
  repeated offsets, what is left of the block, the code lengths, the frame
  counters and the size for the translation of x86 calls.
* **Operations**: `lzx_init`, `lzx_reset`, `lzx_decompress` (one frame a call),
  `lzx_read_lens`, `make_decode_table`, `lzx_teardown`.
* **Hard**: the bit buffer fetches ahead of what is used, and uncompressed
  blocks have to be found behind it; code lengths are differences to those of the block before; blocks
  end anywhere in a frame; the window wraps; some state is written back at the
  end of a frame and some in place.
* **Correct when**: a call returns the next frame of what the encoder was
  given; a decoding table accepts exactly the codes it can decode and decodes
  them canonically; bits, offsets and call targets come out as they went in.

### HTTP server (`src/tools/chm_http.c`)

* **State**: the descriptor table, one slave thread per connection, one
  `chm_file` and one `fd_reader_ctx` for all of them.
* **Operations**: the accept loop, `_slave`, `service_request`,
  `deliver_content`, `deliver_index`.
* **Hard**: no lock anywhere; a descriptor number is closed twice, so two slaves
  may read from one; the loop that pumps an entry ends only when the entry's
  length is reached, which an `int` counts towards; a client that hangs up ends
  the process by a signal, a failed `accept` by a return, a line without a blank
  by a null pointer.
* **Correct when**: a client gets the whole answer to its own request, a slave
  writes as much as it announced, every slave ends, and every connection is
  closed. The last two hold with exceptions, which the properties name.

### The command line tools (`src/tools/extract.c`, `enum.c`, `test.c`)

* **State**: the entry the loop is at, how much of it has been read, the file
  system, what is open.
* **Operations**: open a reader, `chm_parse`, a loop over the entries, close.
  `extract` makes directories and writes files, and stops at the first entry it
  cannot write; `enum` prints a line for each entry, `test` one with a SHA-1.
* **Hard**: entries meet each other and what was there before in the file
  system; any call may fail in the middle.
* **Correct when**: what comes before the entry `extract` stops at is there,
  with the right content or reported; success means all of it; everything that
  was opened is closed.

### The cover finder (`src/chmlibtest/chmlibtest.cpp`)

* **State**: the indices of three nested loops, over pages or hhc files, over
  their tags or objects, and over images.
* **Operations**: `TryGetCoverBitmap` goes through stages, each of which looks
  for an image by its name or by way of pages that refer to one.
* **Hard**: a loop goes on behind the entry its search has come back with, and
  the search prefers paths with few slashes, so candidates are passed over.
* **Correct when**: the image is the one the first stage that has one leads to.

`test_dir.go` runs the tools over a directory. All of these are sequential
clients of `chm_parse`, `chm_retrieve_entry` and `chm_close`.

## 2. Modules

| module | models | where |
| --- | --- | --- |
| `EntryStore` | what `chm_retrieve_entry` promises: bytes of an entry, as many as there are | `chm_lib.h:201`, `chm_lib.c:824-866` |
| `ChmRetrieve` | retrieval, cache, decoder as the cache sees it | `chm_lib.c:557-866` |
| `ChmRetrieveProofs` | theorems about `ChmRetrieve`: types, memory and tags; what a call delivers and which blocks are decoded for it; what it hands out when nothing fails, and `EntryStore` | |
| `ChmPage` | `unmarshaller`, `get_cword`, `parse_pmgl_entry`, `flags_from_path`, the page header | `chm_lib.c:255-345, 435-453, 633-672` |
| `ChmParse` | `chm_parse`, `parse_entries`, release of the entries | `chm_lib.c:347-575, 868-1045` |
| `FdReader` | `fd_reader`, call by call, on a shared position | `chm_lib.c:152-162` |
| `ChmHttp` | the server on top of `FdReader` | `chm_http.c:129-200, 283-354` |
| `LzxFrames` | `lzx_reset`, `lzx_read_lens`, `lzx_decompress` on symbols | `lzx.c:212-236, 437-805` |
| `LzxDecodeTable` | `make_decode_table` and the lookup | `lzx.c:297-435` |
| `LzxBits` | the bit buffer, uncompressed bytes, the exhaustion check | `lzx.c:248-316, 525-588, 749-755` |
| `LzxOffsets` | position slots and the offsets of matches | `lzx.c:135-179, 622-712` |
| `LzxCalls` | the translation of x86 calls in a frame | `lzx.c:777-803` |
| `LzxPieces` | the four modules above, one of them in each behaviour | |
| `ChmTools` | `extract`, and what `enum` and `test` share with it | `extract.c:38-177`, `enum.c:32-73`, `test.c:41-127` |
| `CoverFinder` | the search for a cover | `chmlibtest.cpp:159-454` |
| `ChmClients` | a tool or the cover finder in each behaviour | |
| `MC...` | the instances of the module of that name | |
| `ChmParseProofs`, `ChmHttpProofs`, `LzxFramesProofs`, `ChmClientsProofs` | theorems about the module of that name | |
| `LzxTableProofs` | the invariant of `LzxDecodeTable`: canonical codes, the tree of pairs, the lookup | |
| `LzxPiecesProofs` | the theorems about the four pieces of the decoder | |
| `NumberFacts` | lemmas on division, remainders, least elements and iteration, for all proofs | |

How they fit together:

* `ChmRetrieve` defines `Store == INSTANCE EntryStore WITH ...`: a call in
  progress is "busy", the client's buffer up to the value returned is the
  answer. `ImplementsEntryStore` is the abstract specification, with its
  fairness, as a property of the detailed one.
* `ChmParse` shows with `CompressionUsable` what `ChmRetrieve` assumes of its
  constants (`BlockLen` and `ResetBlkCount` are not 0) and of its reads: there,
  the bounds of a block are part of one step that may fail, here
  (`get_cmpblock_bounds`) they are compared with where the block was written.
* `ChmRetrieve` takes the decoder as one step that is ready for one block, and
  anything else makes it decode junk. `LzxFrames` is why: a frame comes out
  right when all frames since the reset have been through the decoder, in order
  (`ReturnsNextFrame`), and its state after a failed frame is of no use.
* `LzxDecodeTable`, `LzxBits`, `LzxOffsets` and `LzxCalls` do the same for what
  `LzxFrames` takes as given: that symbols are found by the canonical code of
  the lengths read, that the next bits are those of the stream, that an offset
  is the one the encoder meant, and that translating a call restores it.
* `ChmParse` EXTENDS `ChmPage`: its pages are sequences of bytes, and an item is
  whatever `parse_pmgl_entry` makes of them.
* `ChmTools` and `CoverFinder` see of the library what `ParseEnds`,
  `ListsDirectory` and `EntryStore` promise: a list of entries that may be
  flagged as partial, and for each how many bytes of it can be read.
* `ChmHttp` EXTENDS `FdReader`: slaves call the reader step by step, so the
  system calls of different slaves interleave.

### ChmRetrieve

Names are the code's. A buffer of the heap holds the number of the block whose
bytes are in it, `Junk`, or `Free`; a byte the client gets is the pair of block
and offset in it. `pc` says where a call is: `enter` (the checks of
`chm_retrieve_entry`), `region` (its loop; the hit, the miss with
`decompress_block`'s choice of how far to go back), `uncompress` and `fill` (the
two halves of `uncompress_block`: up to the tagging of the slot, and from the
read on). One call at a time, as the library asks for. A failure is an action
of its own and happens only if `Faults` allows it: `malloc` (input buffer,
slot, `lzx_init`), `read` (block bounds and bytes), `data` (a decoder error).
After a failed `lzx_init` the code goes on with a null pointer: `crash`.

### ChmParse

An archive is a record of its parts: headers and the section's tables as
records of their fields, pages as sequences of bytes. The numbers of the reset
table are read from the file, at the offset `get_cmpblock_bounds` makes of where
the content, the table's entry and the table in it begin; the content begins
where a version 3 header says, or behind the directory (`data_offset`). A step is a header, a
page, an item, or one of the section's three lookups; every early return and
`goto Error` has its action. `Cont` stands for the 0x80 that marks a byte with
another one behind it, `Word` for 2^32, `Long` for 2^64 and `Unit` for 0x8000, so
that numbers of three bytes and small products wrap around. Each page carries
what was written to it (`written`) and at which byte each entry begins
(`places`). The parser looks at neither. `ListsDirectory` compares what it has
found with what was written, `PagesReadBack` says of the parsing primitives alone
that from each of these places they read the entry written there and stop where
the next one begins. What the writer of an archive has to do for there to be a
directory at all is `WrittenAssumption`: the chain of pages ends, the entries of a
page fill it, their bytes stand for them (`BytesStandForEntries`), and the blocks
of the compressed section follow one another. What bytes stand for is the writer's
side of the format, without a cursor, a width or a sign: a number is the sum of its
digits (`Number`), an entry is the length of a path, the path, and three numbers
that fit their fields (`IsEntry`); bytes that stand for no entry say that their path
is too long or end too early (`IsNoEntry`). TLC evaluates all of it on every archive
of the run.

### FdReader and ChmHttp

Every thread inside the reader is at one of its system calls; `file_pos` is the
one position. A connection has its client's name; `fds` maps numbers to
connections, so what a slave writes to its number goes to whoever has the
number then. Entries are uncompressed. A slave makes a stream of its number
(`Fdopen`), reads the request, answers, closes the stream and closes the number
again, each in a step of its own; `write` and `fclose` are two.

Clients send their request whenever they like, or never, and with `Aborts` may
hang up at any time (`gone`). Reading a request consumes it: a second slave on the
same number waits in `fgets` (`Wait`), and from then on for that connection (`from`),
even when the number has been closed and given to another one; what still has a
reader stays open. Nothing comes from a client that has gone without sending, from
one whose request has been read before, and from a number that is nobody's. Then the
slave answers what `fgets` left in its buffer (`ServiceLeftovers`), which may be
anything, or finds no blank in it and dies of a null pointer with the whole server
(`NoRequestLine`), as it does of a line without a blank that a client has sent
(`Blankless`). The request line and the header lines behind it arrive together.

A write to a client that has hung up raises SIGPIPE, whose default action the
program keeps, or goes nowhere as long as the kernel has not noticed. With
`ThreadsFail` a connection may get no thread (`unborn`). The offset into an entry is
an `int`: past `MaxInt` it wraps around, or does not, which is the compiler's choice
(`AsInt`). The headers of an answer are left out, except that what `Content-Length`
announces is compared with what follows.

### The decoder

`LzxFrames` has one step for each block header, table of lengths, and run of
tokens. Next to the decoder it keeps the encoder's side as ghost state (`enc`:
everything encoded since the last reset, what its code lengths were meant to be,
whether the stream has been damaged), so that properties compare what comes out
with what went in. VERBATIM and ALIGNED blocks differ only in how bits are read
and are one kind here.

The pieces beneath are exact. `LzxDecodeTable` places one symbol a step, first
codes that fit the direct part, then the chains of pairs. In `LzxBits` a bit is
its place in the input, so that the bit buffer is a sequence of places and a
property can say which ones should come next; `nread` counts them on the side of
the stream. `LzxOffsets` has the code's tables as they are. `LzxCalls` runs the
loop of the translation over the frame an encoder makes of any original. The
encoder is not in the repository: it is the inverse the format's description
gives, written down next to the decoder and marked as external.

### ChmTools and CoverFinder

A job is a tool, the entries `chm_parse` has listed with how much of each can be
read, and the files that are there. The file system is a function from paths to
directories and files; a path is a sequence of components, and `rmkdir` is the
set of file systems its recursion can leave when any `mkdir` may fail.

A book of the cover finder is a sequence of entries with the patterns their
paths match, so comparing strings is membership. The four nested loops share
`at`, which says which of them is running; the properties compare the outcome
with `ImageOfStage`, a definition by stages without loops or indices.

## 3. Runs

Distinct states as TLC reports them.

| run | states | shows |
| --- | --- | --- |
| `retrieve_ok` | 15,400 | Nothing fails, the cache keeps its size: any sequence of calls returns the entry's bytes (`RetrievedIsContent`), the decoder is run in order and on needed blocks only, served slots hold their block, the pointer to the last block is good, and the whole implements `EntryStore`. |
| `retrieve_stress` | 204,358 | Anything fails at any step, and the cache is resized between calls: one owner for each buffer, tags hash to their slots, bytes are delivered in order without gaps, every call returns or dies of the null pointer. |
| `retrieve_staleslot` | violation | See finding 1. |
| `retrieve_shrink` | violation | See finding 2. |
| `parse` | 8,062 | Whole and damaged archives, any read and any allocation may fail: the bytes of the pages are parsed into what was written to them, compression is enabled only when usable and finds its blocks, what is allocated is listed, parsing ends. |
| `parse_leak` | violation | See finding 3. |
| `http_serve` | 156,768 | Two clients that come, send and hang up when they like and threads that may not be created; two slaves on one number; three slaves that read at the same time. What is pumped of an entry is as long as it was announced, a client alone gets its answer, slaves and connections end but for the reasons the properties name. |
| `http_sharedfile` | violation | See finding 4. |
| `http_doubleclose` | violation | See finding 5. |
| `lzx_frames` | 313,083 | Frames, blocks, matches and resets in any order: each call returns the next frame, the window is the history's end, code lengths come out as meant, calls are translated from their position, every call returns. |
| `lzx_pieces` | 276,084 | Complete codes, codes one short and one over, and no code: what is accepted decodes every stream canonically and fits its table, the others are refused. The stream is read bit by bit and byte by byte as it was written, offsets and calls are restored, and the loops end. |
| `clients` | 209,839 | Every archive of up to three entries from a stock of ten, on five file systems, with failing calls: what `extract` has passed is extracted, the tools close what they opened. Every book of up to three entries from a stock of twenty: the cover is the one the stages lead to. All end. |

### Bounds, and why they are enough

* **Retrieval.** Blocks of 2 bytes give every alignment of a swath: from the
  block's start, from its middle, to its end, past it. Intervals of 3 blocks
  (2 in the runs with failures) distinguish going on, going back inside an
  interval, and crossing into another; the entry starts and ends in the middle
  of a block and covers five blocks in two intervals. A cache of 2 slots has
  fewer slots than the interval has blocks, so blocks replace each other while
  a call goes back; one of 1 slot always collides; sizes 1 to 3 with a limit
  of 2 shrink, grow, and are clipped. As many buffers as slots suffice, because
  `OneOwner` says that no more are ever allocated. Requests of up to two blocks
  (`MaxLen`) need several swaths and a part of one.
* **Parsing.** Eleven directories (two pages out of order, a name twice, no
  control data, a compressed reset table, entries of every flag, names in
  capitals and with a NUL, numbers longer than they need be, four kinds of
  broken items, none at all) and three broken chains; 5 addresses are as many as
  the largest of them uses. Digits of base 8 in numbers of up to three bytes: the
  values at each change of length occur, numbers wrap around at 512, and one is
  negative. `Word` = 16 and `Unit` = 4 reach zero and wrap-around in
  every product of the control data. Sections of three blocks, one and none.
* **HTTP.** `http_serve` begins in three states of the server. From its start,
  with two clients, of which each may do anything, also send a line without a blank: two
  are enough for one slave to read at the other's position, and for a second close to
  hit a connection. Where a number has been closed twice and two slaves have it
  (`OneNumber`), which takes a third client. And where three slaves are inside
  `fd_reader`, and the end of the file, where one has read the last byte, is what the
  two others will restore (`EndHandedOn`): with two clients this cannot come
  about, since a slave finds the end of the file only in the middle of another
  one's call, and two more are needed to put each other back there for ever. The last
  two states are reachable from the start; the run has them as initial ones because
  everything that three clients may do on the way has too many states. In the last nobody hangs up. An entry of two bytes in swaths of
  one takes two reads, starts behind the beginning of the file and ends with it. In
  `http_sharedfile` and `http_doubleclose` clients also ask for pages; the latter has one
  descriptor number and three clients. No entry is cut off by the end of the file or
  longer than `MaxInt`, where a slave's loop does not end or sends without end, and
  the properties claim nothing. `MaxOpen` bounds clients waiting or connected.
* **Decoding tables.** 7 symbols, a direct part of 4 bits and codes of up to 6
  bits: chains of two pairs, chains shared by codes, tables without any. The code
  lengths are all choices in which three symbols have short codes and the rest
  long ones, and the same back to front, that are complete or one code away
  from it; a code with larger gaps fails at the same comparison.
* **Bits.** Bytes of 2 bits and words of 4: reads of 1, 2 and 5 bits need no
  word, one and two, and the last is the one that is longer than a word, as 17
  bits are in the code. Inputs of even and odd length; blocks of 1 to 3 bytes,
  cut anywhere behind an even number of them; five bits are read past the end
  before anybody looks, more than the word that is let pass.
* **Offsets.** Every window, and of every slot its first offsets, its last and
  one in between. These are the code's own numbers.
* **Calls.** Bytes of 4 values, addresses of two and frames of seven of them: a
  call follows another, lies in another's address, or has its address reach into
  the three bytes that are not looked at; addresses of both signs, files shorter
  and longer than the frame's position.
* **Tools.** Three entries are enough for a directory, a file in it, and one
  that is in the way; a buffer of 2 for files of less, one and two buffers. With
  entries that are skipped only sequences of two are tried, since these change
  nothing but the index.
* **Cover finder.** Three entries let a candidate lie before, behind and at the
  same depth as another, or be reached through one; images that load, do not
  load and cannot be read occur for every pattern.
* **Frames.** A window of two frames of two bytes, three frames between resets:
  the window comes around within a block, and matches reach behind its start,
  across its end, and overlap themselves. Blocks of 1 and 3 bytes end in the
  middle of a frame, at its end, and span frames. Runs of 1 and 2 lengths spill
  over the characters and into the safety area. Damage happens in the first
  frame behind a reset only, and nothing is read on behind a damaged frame but
  a reset, which is what `ChmRetrieve` does with a failed decoder by modelling
  it as lost.

### Fairness

The library blocks on nothing: each step of a call, of a parse, of a decode and
of a table's construction runs on its caller's thread and is weakly fair
(`WF_vars(Library)`, `Parse`, `Step`, `BuildTable`, `Translate`, and all of a
tool or of the cover finder, which are programs of their own). The client decides
when to call, and is not fair. In the server the accept loop and each slave
have a thread of their own and are weakly fair one by one; clients need never
connect, send or hang up. `CHECK_DEADLOCK FALSE` is set where the system may stop: closed
handles, finished parses, crashes, a server without clients.

What keeps a slave from its end under this fairness is part of the property, not of
the fairness: `SlavesFinish` and `EveryConnectionEnds` excuse a slave under whose
reads others move the file again and again (`Disturbed`: between its `lseek` and its
`read`), one whose entry is cut off by the end of the file or longer than an `int`
counts (`Servable`), and one that waits for a client which neither sends nor hangs
up; the second also excuses a connection that got no thread. Of these `http_serve` has
all but the entries that are not `Servable`: both properties fail in it when `Disturbed`
is left out, from `EndHandedOn`, and a slave that is not excused ends beside those
that are.

Liveness of parsing is checked on archives whose chain of pages ends. On others the
code does not end, which the source shows at a glance: `parse_entries` follows
`block_next` in a circle until memory is exhausted (`chm_lib.c:904`).

## 4. Findings

1. **A slot is tagged before it is filled** (`chm_lib.c:628`,
   `retrieve_staleslot`). After one failed read, the next call for that block
   finds it "in the cache" and gets whatever the buffer held.
2. **`chm_set_cache_size` leaves a dangling pointer** (`chm_lib.c:599`,
   `retrieve_shrink`). When the collision's loser is the block the decoder
   stands at, `lzx_last_block_data` points to freed memory that a later call
   returns.
3. **`chm_close` frees one entry** (`chm_lib.c:570`, `parse_leak`). Entries are
   linked from the last to the first, and `free_entries` starts at the first.
4. **`fd_reader` is not safe for the server's threads** (`chm_lib.c:158`,
   `http_sharedfile`). Two slaves move each other's file position.
5. **A slave closes its descriptor number twice** (`chm_http.c:198`,
   `http_doubleclose`). A connection accepted in between is cut off.

Beyond these, some properties of `retrieve_ok` fail once failures are allowed,
for reasons close to finding 1 and without a document that says otherwise:
`lzx_reset` comes before the steps of `uncompress_block` that can fail, so after
a failed `malloc` the decoder is fresh while `lzx_last_block` still names the
block before, and the next call decodes from the wrong state (`DecoderInSync`).

In the server two more things are in the model that no comment speaks of. Slaves can
keep each other from ever sending (`chm_http.c:312`, `chm_lib.c:157-160`): `fd_reader`
restores the position it found; when that was the end of the file, because another
slave's read had just got there, it is restored there, and slaves that have picked it
up put each other back between `lseek` and `read`: every read yields nothing, and the
loop asks again. It takes three slaves, and scheduling that is unlucky without end, but
no fairness between threads excludes it. And the offset into an entry is an `int`
(`chm_http.c:287`, `:318`, `Advance`): in an entry of 2 GB it becomes negative, and
`chm_retrieve_entry`, which looks at the upper end of the range only
(`chm_lib.c:830`), reads in front of the entry.

Some results hold only with an exception that is written into the property, and
the exception is the code's: `enum` leaves the archive and the reader open after
a partial directory (`ToolClosesUp`), an entry `fwrite` could not write or that
could be read in part counts as extracted (`ExtractsInOrder`), a connection no
thread could be made for stays open (`EveryConnectionEnds`), and what else keeps a
slave from its end is named in the properties of the server. `CallsReturnOrCrash`
and `ParseEnds` let a call end by the null pointers the code follows when memory is
short, and the end of the whole server counts as the end of its slaves.
`AloneGetsItsAnswer` and `AsLongAsAnnounced` are about lengths an `int` counts.
`extract` stops at the first entry it cannot write, although `extract.c:147` wants
to "extract as many entries as possible"; the property says what is there when
it has stopped. The cover finder
passes over candidates that lie before one with fewer slashes: `Tried` says which
ones it comes to.

A negative `block_len` passes `unmarshal_lzxc_reset_table`, whose comparison is
signed (`chm_lib.c:475`); `parse` has such an archive, and `ChmRetrieve` assumes
there is none.

Three facts about the decoder are worth knowing. The pairs behind the direct part
fit the room of `LZX_DECLARE_TABLE` for every complete code (`TypeOK` of
`LzxPieces`); about the pairs of an incomplete one, which is refused in the end,
nothing is claimed. `make_decode_table` returns
success as soon as the short codes fill the direct part: longer codes are then
never looked at (`RefusesBadCodes` says so). And a match longer than its run is
accepted and shifts the rest of the frame (`Overrun` in `LzxFrames`).

## 5. Proofs

Every theorem holds for all values of the constants that satisfy the named
assumptions: any block length, reset interval and cache, any number of clients
and descriptors, any window, any archive. Where a theorem has a hypothesis of its
own, it is stated in it and explained here.

### Retrieval: memory, tags, calls (any fault, any resizing)

| theorem | states |
| --- | --- |
| `TypeCorrect` | `Spec => []TypeOK` |
| `OneOwnerHolds` | `Spec => []OneOwner`: a block buffer is allocated exactly when one slot in use points to it; no leak, no double free, nothing left by `chm_close` |
| `TagsHashHolds` | `Spec => []TagsHashToTheirSlot`: the block in a slot is one that is looked for there |
| `CountsAddUpHolds` | `Spec => []CountsAddUp`: delivered and still wanted make up the clipped request |
| `DeliversInOrderHolds` | `Spec => DeliversInOrder` |
| `OnlyNeededBlocksHolds` | `Spec => []OnlyNeededBlocks` |

`TypeOK` is inductive by itself. The work is in the arithmetic: offsets and
swaths stay in the block (`RegionTypes`), a hash is a slot (`TargetSlot`), the
number of blocks to go back is a natural number (`BlockAlignRange`).

`OneOwner` is not inductive. The invariant is

    MemoryInv == TypeOK /\ OneOwner /\ UnusedSlotsEmpty /\ TargetInSection
                   /\ FilledSlotHasBuffer

* `FilledSlotHasBuffer`: decoding writes into the buffer of the slot being
  filled, so the slot must have one, or the write would mark some buffer as
  allocated that no slot has.
* `TargetInSection`: the number stored there is a block's, so not the mark of
  a free buffer; hence the decoder never goes back past block 0.
* `UnusedSlotsEmpty`: `chm_set_cache_size` and `chm_close` look at the slots in
  use only, so nothing may be in the others.

The step that takes work is `SetCacheSizeMemory`: of the blocks that hash to one
new slot exactly the first stays (`OneMoves`), every slot of the new table is
one that stayed (`MovedSlot`), and what is freed is just the rest. Tags are
inductive together with `MemoryInv` (`BeginTags`, `SetCacheSizeTags`).

Calls need `CallInv`: what the client asked for is remembered while the counters
move, and the buffer behind what was delivered is untouched. Blocks need
`BlocksInv`: while the decoder catches up it is inside the wanted block's interval,
behind block `lzx_last_block`, or at the interval's start.

### Retrieval: content (`Faults = {}`)

| theorem | states, when nothing fails | cache |
| --- | --- | --- |
| `DecoderInSyncHolds` | `Spec => []DecoderInSync` | resized at will |
| `ServedSlotsHold` | `Spec => []ServedSlotsHoldTheirBlock` | resized at will |
| `RetrievedIsContentHolds` | `Spec => []RetrievedIsContent` | keeps its size |
| `LastDataLiveHolds` | `Spec => []LastDataLive` | keeps its size |
| `StoreStepsHold` | `Spec => Store!Init /\ [][Store!Next]_...` | keeps its size |

Both hypotheses are needed. With failures the decoder is out of step, slots hold
other blocks than they say, and the client gets them (finding 1 and the paragraph
behind the findings); with a cache that shrinks the last three theorems are false
(finding 2). The runs `retrieve_staleslot` and `retrieve_shrink` show it.
A cache may be set to the size it has: the hypothesis is
`CacheSizes \subseteq {MaxBlocksCached}`.

`DecoderInSync` is about the moment of decoding only. `SyncInv` says in addition
where the decoder stands between two (`DecoderStands`): not there, fresh with no
last block, or ready for the block behind `lzx_last_block`. On top of it `StoreInv`
has the pointer to the last block's bytes (`DataStands`), which is why the size
must stay; the entry the call is about, checked on entering (`CallChecked`); and
the bytes so far. A step of the loop then delivers bytes of the wanted block or
nothing (`LoopStepContent`), and `SwathBytes` turns places in a block into places
in the entry. `StoreStepsHold` maps the state as `Store` does and shows that every
step is one of `EntryStore`'s or a stutter: the first step of a call is `Call`, the
last `Answer`, all between leave the abstract state as it is.

### Opening an archive

| theorem | states |
| --- | --- |
| `ParseTypeCorrect` | `Spec => []TypeOK` |
| `AllocatedIsListedHolds` | `Spec => []AllocatedIsListed` |
| `PagesReadBackHolds` | `Spec => []PagesReadBack` |
| `ListsDirectoryHolds` | `Spec => []ListsDirectory` |
| `CompressionUsableHolds` | `Spec => []CompressionUsable` |

for every archive, damaged or not, and every read and allocation that fails. The
first two know nothing of what was written; the others compare with it, so they
are about pages whose bytes stand for something (`WrittenAssumption`). A page cut
short or damaged in the middle does: it ends with an item that is none.

* `ListInv`: the entries are linked from the last to the first, each to the one
  allocated before, so the chain that becomes the table is the addresses counted
  down (`Linked`); what is allocated is what is linked, but for the entry of an
  item that was cut short. The chain is a recursive function that each state
  chooses anew; `ChainCountsDown` compares it with the one that counts down, and
  a least element at which they differed would have to differ before.
* `ItemsReadBack`: the bytes of an item. `get_cword` folds over its digits modulo
  2^64; the fold is a recursive function over sets of places, which is shown to
  exist place by place (`BitsExist`), and what it collects is the number the digits
  stand for, cut to 64 bits (`BitsOfNumber`). A number ends at most once
  (`EndsOnce`), so the cursor is where the writer's next field begins, or spoilt
  where there is none (`CwordReads`, `CwordSpoils`). An entry is then read field by
  field (`EntryIsRead`); where there is none, one of the fields spoils the cursor or
  the length is refused, also when it reads as negative (`NoEntryIsRead`).
* `DirectoryInv`: what was read so far, then the rest of the page, then the pages
  behind it, is the directory (`LeftOfPage`). That there is a directory to compare
  with is `ChainEnds`, from which the function over pages is built round by round.
* `UsableInv`: what `chm_parse` has checked when it leaves compression enabled stays
  true up to the end, and with `BlocksFillSection` `get_cmpblock_bounds` finds each
  block where it was written (`BoundsAreWritten`): the numbers in the file at the
  offsets the code computes are the starts of the blocks.

### The server

| theorem | states |
| --- | --- |
| `HttpTypeCorrect` | `Spec => []TypeOK` |
| `AsLongAsAnnouncedHolds` | `Spec => []AsLongAsAnnounced` |
| `AloneGetsItsAnswerHolds` | `Spec => []AloneGetsItsAnswer` |

with requests at any time or never, hang-ups, failed threads and any number of
slaves in each other's way. The
invariant `ServerInv` adds to the types what a slave stands on at each step
(`SlaveStands`): a descriptor as long as it uses one, a connection while it waits in one, an entry
while it pumps, and a swath that is no longer than what was announced and not yet
written. That the offset is what has been written needs `MaxInt`: it is a
natural number as long as the entry's length is at most that. Each step
changes one slave (`OneSlave`) or ends the process.

The last one has `SoloInv` for a client that no other slave is next to: there is
one descriptor in use, its own, from accept to close; nobody else reads its request,
and what is served is what it asked for, or what the buffer held when it hung up
without asking; the file position stays from `lseek` to `read`; what it has is the
entry up to the slave's `offset`. A slave that has begun never goes back
(`SlaveGoesOn`), so a state with one slave has only such states before it. Findings
4 and 5 show that a second slave breaks these parts.

### The decoder

| theorem | states |
| --- | --- |
| `FramesTypeCorrect` | `Spec => []TypeOK`, with it the bounds of window and length tables |
| `LensAsMeantHolds` | `Spec => []LensAsMeant` |
| `WindowHoldsHistoryHolds` | `Spec => []WindowHoldsHistory` |
| `ReturnsNextFrameHolds` | `Spec => []ReturnsNextFrame` |
| `TranslatedAtPositionHolds` | `Spec => []TranslatedAtPosition` |

for every window that is a whole number of frames, every code and every sequence
of blocks, matches and resets. The invariant has six parts, each of which needs
those before it:

* `TypeInv`: positions and run lengths in their ranges; in particular a run of code
  lengths that goes on behind the last symbol ends in the safety area. That is
  where `LensAssumption` is used (`Runs \subseteq 1 .. Safety`; the longest run is
  51 and `LZX_LENTABLE_SAFETY` 64, `lzx.c:60`).
* `LensInv`: below the symbol `lzx_read_lens` is at the lengths are those meant for
  this block, from it on those of the block before.
* `PosnInv`: what was decoded and what is left of the run and of the frame make up
  a whole number of frames, and a call starts and ends at a frame's border.
* `TextInv`: the window is the end of the text. Bytes that are written go on with
  it (`WindowGrows`), copying a match one byte at a time also when it overlaps
  itself; positions modulo the window are compared by `Wrapped`.
* `CallsInv`, `CurposInv`: no 0xE8 comes out before `intel_started` is set, and the
  position of the translation is that of the frame.
* `OutInv`: what a call has returned is the last frame of the text.

### The pieces of the decoder

| theorem | states |
| --- | --- |
| `PiecesTypeCorrect` | `Spec => []TypeOK`, with it the bound on the pairs of a complete code |
| `RefusesBadCodesHolds` | `Spec => []RefusesBadCodes` |
| `DecodesCanonicallyHolds` | `Spec => []DecodesCanonically` |
| `ReadsTheStreamHolds` | `Spec => []ReadsTheStream` |
| `OffsetsReadBackHolds` | `Spec => []OffsetsReadBack` |
| `CallsRestoredHolds` | `Spec => []CallsRestored` |

for every table size, all code lengths, every input and sequence of blocks, every
window, every frame an encoder may have translated. A behaviour of `LzxPieces` is
about one piece, so each has its own invariant, and a step of one leaves those of
the others alone (`PiecesApart`).

* Tables (`TableInv`, in `LzxTableProofs`). Canonical codes lie side by side: by
  sums over the symbols that come before one, the codes are intervals that do not
  overlap and, when the sum of all is the whole space, leave nothing out. `pos` is
  the sum of the symbols placed so far (`Placed`). While codes that fit the direct
  part are placed, an entry holds the symbol whose code covers it (`DirectPart`).
  Behind that, the pairs are the inner nodes of a tree over the code space that is
  complete on its left and grows to the right (`Grown` in `LongPart`): placing a
  code goes down the tree, opening the nodes it does not find, and ends at the
  code's own leaf. The lookup follows the bits down the same tree. Each pair
  belongs to one node with a code in the middle of it, which bounds their number.
  `Made` is what is left of this when the table is handed out or refused.
* Bits (`BitsInv`). The buffer holds what the stream has from the next bit on, as
  many bits as it counts, and the input was read word by word up to their end
  (`Holds`); in an uncompressed block the position is that of the next byte, and
  its parity is that of what is left to copy. Fetching, looking, removing, the way
  to bytes and back each keep this. That a position tells whether the input is
  exhausted needs that at most two words more are fetched than are used
  (`ExhaustedExactly`); of an input with an odd number of bytes the last one counts as
  not there for bits, and is there for the bytes of an uncompressed block.
* Offsets. Each slot ends where the next begins (`SlotsAdjoin`), those of a window
  end where it does (`WindowEnds`), so an offset lies in one slot (`SlotFound`) and
  comes back from it, whichever way the bits are divided (`OffsetComesBack`).
* Calls (`CallsInv`). The encoder's run over the frame is a function of its steps
  (`EncodingExists`). The decoder is where the encoder was after some of its steps,
  with the original before that place and the encoder's bytes behind: both look at
  the same byte and pass the same addresses, and an address that was made absolute
  is made relative again (`OffsetRoundTrip`), read and written byte by byte as a
  signed number (`AddressRead`, `AddressWritten`).

### Tools and cover finder

| theorem | states |
| --- | --- |
| `ClientsTypeCorrect` | `Spec => []TypeOK` |
| `ExtractsInOrderHolds` | `Spec => []ExtractsInOrder` |
| `ToolClosesUpHolds` | `Spec => []ToolClosesUp` |
| `CoverOfFirstStageHolds` | `Spec => []CoverOfFirstStage` |

for any entries, file systems and books. `ToolInv`: the file being copied holds
what was read of its entry (`Copying`), which stays true of the entries passed
(`Passed`), since `rmkdir` adds directories only where there is nothing
(`RmkdirAdds`) and a later entry of the same path is the exception the property
names. `CoverInv`: what is left to the loops from the innermost out, and to the
stages behind, gives the same image as the whole archive does from the start
(`LeftGivesCover`); one lemma per loop says what its next round takes away.

### Assumptions on the constants

Each is named in the module that declares the constants, and TLC evaluates it.

* Block length, interval, cache sizes, swath, buffers, frame and window are
  positive (`BlockAssumption`, `CacheAssumption`, `ServerAssumption`,
  `ToolAssumption`, `WindowAssumption`): they are constants of the code or
  checked by it, and 0 would be a division by zero.
* A table has at most half as many symbols as direct entries, and no code is longer
  than what the lookup peeks at (`SizeAssumption`, `LengthAssumption`): so are the
  four tables of `lzx.c:50-60`. Words, reads and codes have the sizes of
  `BitsAssumption`, a call's address ends before the bytes that are not looked at
  (`CallsAssumption`), and twice a file's size or a frame's position is within the
  width of an address (`WidthAssumption` of `LzxCalls`), as for files below 2 GB.
* Every window has the offsets `OffsetsAssumption` allows, which are those the
  format does. Streams are not empty sets: a run needs something to begin with.
* Entries, requests, jobs, books, archives have the types and widths of the fields
  they come from (`EntryAssumption`, `ClientAssumption`, `HeapAssumption`,
  `CharAssumption`, `StreamAssumption`, `BooksAssumption`, `ArchivesAssumption`).
* `JobsAssumption`: what can be read of an entry is nothing or at most its length,
  to which `chm_retrieve_entry` clips (`chm_lib.c:830-835`).
* `EndingsAssumption`: the endings of pages are lists, that of hhc files has one
  member (`chmlibtest.cpp:207`).
* `WrittenAssumption`: see ChmParse in section 2. It says what a directory is;
  damage that makes a reader stop is not excluded by it.

### Model-checked only

Liveness and everything under fairness, since `ENABLED` is out of the prover's reach:
`CallsReturnOrCrash`, `ParseEnds`, `SlavesFinish`, `EveryConnectionEnds`,
`CallsReturn`, `LoopsEnd`, `ClientEnds`, and of `ImplementsEntryStore` that every
call is answered. Every invariant and action property of a passing run is proved.

Definitions by recursion over data (folds, sums over codes, the encoder's run) are
reasoned about without induction over operators: `IterationExists` builds the
function a recursion describes, and `UpTo` carries a fact along it.

## 6. Not modelled

* Compressed entries in the server: several slaves would write the cache and the
  decoder of one handle without a lock. That is a data race on all of its state,
  for which a nondeterministic choice over outcomes leaves nothing to check.
* Requests that arrive in pieces (a line, or the end of the headers, that comes later:
  one wait stands for all of them), HTML and header text, the mapping from names to
  content types.
* `win_reader` and `IStreamReader`, the calls of `fd_reader` on Windows;
  `mem_reader`, two comparisons and a `memcpy`.
* Two limits of the API that no caller in the repository reaches: a cache of size
  0, which divides by zero (`chm_lib.c:594`), and block numbers past 2^31, for
  which the two casts to `int` differ (`:614`, `:623`).
* A stream that resumes an uncompressed block behind an odd number of its bytes
  in the next frame (`LzxBits`): what an encoder writes there is not in the
  repository. Code lengths above 16, which a nested run code can produce.
* The text processing of the cover finder (`XmlDocument`, `StrLib`, `Utility`),
  its stream classes and `Gfx`: a page is its tags, an image loads or does not.
  It never closes an archive (`chmlibtest.cpp:163`); the model has no memory.
* SHA-1, the escaping of CSV, `test_dir.go`, and the test driver in `lzx.c`.

## 7. Plan

What is modelled is as far as the code goes with states worth checking, and the
safety properties of all runs are proved. What could follow:

1. The composition of the pieces with `LzxFrames`: a refinement of the frame's
   symbols by the bits they are coded with.
2. Compressed entries in the server, should its slaves get a lock around the
   archive: `ChmRetrieve` inside `ChmHttp`.
3. Codes longer than 16 bits and odd resumptions of uncompressed blocks, should an
   encoder that writes them turn up.
