------------------------------- MODULE ChmParse -------------------------------
(***************************************************************************)
(* chm_parse: the headers, the walk over the directory pages that links    *)
(* the entries into a list and then lists them in a table, the entries     *)
(* that describe the compressed section, and what it takes for compression *)
(* to stay enabled; and chm_close, which gives the memory back.            *)
(*                                                                         *)
(* An archive is what the readers of its headers, directory pages, reset   *)
(* table and control data find, and the 64-bit numbers at other offsets of *)
(* the file; the entries of a page are its bytes, read with the operators  *)
(* of ChmPage.  An entry is known by its address, and addresses are handed *)
(* out in order.                                                           *)
(***************************************************************************)
EXTENDS ChmPage

CONSTANTS
    Archives,    \* the archives a run opens
    MaxEntries,  \* bound: addresses for entries
    Unit,        \* 0x8000: a version 2 control block counts in these
    Faults,      \* what can fail: a subset of {"malloc", "read"}
    \* the names of the entries essential to decompression
    CHMU_RESET_TABLE, CHMU_CONTENT, CHMU_LZXC_CONTROLDATA

ASSUME BoundAssumption ==
    MaxEntries \in Nat /\ Unit \in Nat
ASSUME FaultAssumption == Faults \subseteq {"malloc", "read"}

\* Numbers have the sign and the width of the fields they are read from, and
\* the pages of a file are counted from 0.
ASSUME ArchivesAssumption ==
    \A a \in Archives :
        /\ a.itsp.index_head \in Int
        /\ DOMAIN a.pages \subseteq Nat
        /\ \A p \in DOMAIN a.pages :
             /\ a.pages[p].bytes \in Seq(Nat)
             /\ a.pages[p].free_space \in Nat
             /\ a.pages[p].block_next \in Int
        /\ a.reset_table.block_len \in Int
        /\ {a.control.windowSize, a.control.resetInterval, a.control.windowsPerReset}
             \subseteq 0 .. Word - 1

CHM_UNCOMPRESSED == 0
CHM_COMPRESSED   == 1

Null      == 0
Addresses == 1 .. MaxEntries

VARIABLES
    archive,
    pc,
    cur_page,
    unread,      \* the bytes of the page's entries that are left
    page_buf,    \* is the page buffer of parse_entries allocated?
    live,        \* entries allocated and not freed
    item,        \* entry -> what was read into it
    next,        \* entry -> the entry parsed before it, or Null
    last_entry,
    parsed,      \* n_entries of parse_entries
    entries,     \* h->entries: a sequence of entries, <<>> for NULL
    n_entries,   \* h->n_entries
    parse_entries_failed,
    rt_unit, cn_unit, lzxc,
    compression_enabled, block_len, window_size, reset_blkcount

pageVars  == <<cur_page, unread, page_buf>>
listVars  == <<live, item, next, last_entry, parsed>>
tableVars == <<entries, n_entries>>
unitVars  == <<rt_unit, cn_unit, lzxc>>
sizeVars  == <<block_len, window_size, reset_blkcount>>
vars == <<archive, pc, pageVars, listVars, tableVars, parse_entries_failed,
          unitVars, compression_enabled, sizeVars>>

NoItem == [path |-> <<>>, space |-> CHM_UNCOMPRESSED, start |-> 0, length |-> 0,
           flags |-> {}]

Init ==
    /\ archive \in Archives
    /\ pc = "itsf"
    /\ cur_page = -1
    /\ unread = <<>>
    /\ page_buf = FALSE
    /\ live = {}
    /\ item = [e \in Addresses |-> NoItem]
    /\ next = [e \in Addresses |-> Null]
    /\ last_entry = Null
    /\ parsed = 0
    /\ entries = <<>>
    /\ n_entries = 0
    /\ parse_entries_failed = FALSE
    /\ rt_unit = Null /\ cn_unit = Null /\ lzxc = Null
    /\ compression_enabled = FALSE
    /\ block_len = 0 /\ window_size = 0 /\ reset_blkcount = 0

-----------------------------------------------------------------------------
(* The headers *)

UINT_MAX == Word - 1

\* unmarshal_itsf_header.  "whole" says that the header's length fits its
\* version.  Where the directory is and how long is signed, and what is negative
\* is not refused.
ItsfOk(hdr) ==
    /\ hdr.signature = "ITSF"
    /\ hdr.version \in {2, 3}
    /\ hdr.whole
    /\ hdr.dir_offset <= UINT_MAX /\ hdr.dir_len <= UINT_MAX

\* Where the content begins: version 3 says it in its header, in version 2 it
\* comes behind the directory.
data_offset(hdr) ==
    IF hdr.version = 3 THEN hdr.data_offset ELSE hdr.dir_offset + hdr.dir_len

\* unmarshal_itsp_header
ItspOk(hdr) ==
    /\ hdr.signature = "ITSP"
    /\ hdr.version = 1
    /\ hdr.whole
    /\ hdr.block_len # 0

ReadMayFail == "read" \in Faults
MallocMayFail == "malloc" \in Faults

ReadItsf ==
    /\ pc = "itsf"
    /\ \/ ItsfOk(archive.itsf) /\ pc' = "itsp"
       \/ (~ItsfOk(archive.itsf) \/ ReadMayFail) /\ pc' = "error"
    /\ UNCHANGED <<archive, pageVars, listVars, tableVars, parse_entries_failed,
                   unitVars, compression_enabled, sizeVars>>

ItspFails ==
    /\ pc = "itsp"
    /\ ~ItspOk(archive.itsp) \/ ReadMayFail
    /\ pc' = "error"
    /\ UNCHANGED <<archive, pageVars, listVars, tableVars, parse_entries_failed,
                   unitVars, compression_enabled, sizeVars>>

\* The last header is good, and parse_entries gets its page buffer or not.
ReadItsp ==
    /\ pc = "itsp"
    /\ ItspOk(archive.itsp)
    /\ compression_enabled' = TRUE
    /\ \/ /\ page_buf' = TRUE
          /\ cur_page' = archive.itsp.index_head
          /\ pc' = "page"
          /\ UNCHANGED parse_entries_failed
       \/ /\ MallocMayFail
          /\ parse_entries_failed' = TRUE
          /\ pc' = "table"
          /\ UNCHANGED <<page_buf, cur_page>>
    /\ UNCHANGED <<archive, unread, listVars, tableVars, unitVars, sizeVars>>

-----------------------------------------------------------------------------
(* parse_entries *)

\* There is no page to read past the end of the file.
PageOk(p) == p \in DOMAIN archive.pages /\ PmglOk(archive.pages[p], archive.itsp.block_len)

\* Mutant: the walk ends as if the directory did.
EntriesFailQuietly ==
    /\ parse_entries_failed' = parse_entries_failed
    /\ pc' = "table"

EntriesFail ==
    /\ parse_entries_failed' = TRUE
    /\ pc' = "table"

ReadPage ==
    /\ pc = "page"
    /\ cur_page # -1
    /\ \/ /\ PageOk(cur_page)
          /\ unread' = EntryBytes(archive.pages[cur_page])
          /\ pc' = "items"
          /\ UNCHANGED parse_entries_failed
       \/ /\ ~PageOk(cur_page) \/ ReadMayFail
          /\ EntriesFail
          /\ UNCHANGED unread
    /\ UNCHANGED <<archive, cur_page, page_buf, listVars, tableVars, unitVars,
                   compression_enabled, sizeVars>>

\* Mutant: the walk does not go on.
NextPageSame == cur_page

NextPage == archive.pages[cur_page].block_next

PageDone ==
    /\ pc = "items"
    /\ unread = <<>>
    /\ cur_page' = NextPage
    /\ pc' = "page"
    /\ UNCHANGED <<archive, unread, page_buf, listVars, tableVars,
                   parse_entries_failed, unitVars, compression_enabled, sizeVars>>

\* The end of the chain; a directory without entries is a failure.
LastPageDone ==
    /\ pc = "page"
    /\ cur_page = -1
    /\ pc' = "table"
    /\ parse_entries_failed' = (parse_entries_failed \/ parsed = 0)
    /\ UNCHANGED <<archive, pageVars, listVars, tableVars, unitVars,
                   compression_enabled, sizeVars>>

NewEntry == Cardinality(live) + 1

Link(e) == next' = [next EXCEPT ![e] = last_entry]

\* What parse_pmgl_entry makes of the bytes that are left.
Parsed == parse_pmgl_entry(unread)

ReadItem ==
    /\ pc = "items"
    /\ unread # <<>>
    /\ Parsed.result = "entry"
    /\ NewEntry <= MaxEntries
    /\ live' = live \union {NewEntry}
    /\ item' = [item EXCEPT ![NewEntry] = Parsed.entry]
    /\ Link(NewEntry)
    /\ last_entry' = NewEntry
    /\ parsed' = parsed + 1
    /\ unread' = SubSeq(unread, Parsed.at, Len(unread))
    /\ UNCHANGED <<archive, pc, cur_page, page_buf, tableVars,
                   parse_entries_failed, unitVars, compression_enabled, sizeVars>>

\* parse_pmgl_entry returned NULL: before it had an entry, or with the entry
\* it had allocated left behind.
RejectItem ==
    /\ pc = "items"
    /\ unread # <<>>
    /\ \/ /\ Parsed.result = "refused" \/ MallocMayFail
          /\ UNCHANGED live
       \/ /\ Parsed.result = "short"
          /\ NewEntry <= MaxEntries
          /\ live' = live \union {NewEntry}
    /\ EntriesFail
    /\ UNCHANGED <<archive, pageVars, item, next, last_entry, parsed, tableVars,
                   unitVars, compression_enabled, sizeVars>>

\* The entries from e on, along the next pointers.
Chain(e) ==
    LET from[x \in Addresses \union {Null}] ==
            IF x = Null THEN <<>> ELSE <<x>> \o from[next[x]]
    IN  from[e]

\* Mutant: the table is filled from its start.
TableFromStart == Chain(last_entry)

\* The list runs from the last entry to the first, so the table is filled
\* from its end.
Table == Reverse(Chain(last_entry))

BuildTable ==
    /\ pc = "table"
    /\ page_buf' = FALSE
    /\ n_entries' = parsed
    /\ \/ entries' = Table
       \/ MallocMayFail /\ entries' = <<>>
    /\ pc' = "units"
    /\ UNCHANGED <<archive, cur_page, unread, listVars, parse_entries_failed,
                   unitVars, compression_enabled, sizeVars>>

-----------------------------------------------------------------------------
(* The compressed section *)

\* The last entry of the table with this name.
Find(path) ==
    LET found == {k \in 1 .. n_entries : streq(item[entries[k]].path, path)}
    IN  IF found = {} THEN Null ELSE entries[Max(found)]

is_null_or_compressed(e) == e = Null \/ item[e].space = CHM_COMPRESSED

FindUnits ==
    /\ pc = "units"
    /\ n_entries > 0
    /\ entries # <<>>
    /\ rt_unit' = Find(CHMU_RESET_TABLE)
    /\ cn_unit' = Find(CHMU_CONTENT)
    /\ lzxc' = Find(CHMU_LZXC_CONTROLDATA)
    /\ compression_enabled' =
         (compression_enabled /\ \A e \in {rt_unit', cn_unit', lzxc'} :
                                    ~is_null_or_compressed(e))
    /\ pc' = "reset_table"
    /\ UNCHANGED <<archive, pageVars, listVars, tableVars, parse_entries_failed,
                   sizeVars>>

NoEntries ==
    /\ pc = "units"
    /\ n_entries = 0
    /\ pc' = "error"
    /\ UNCHANGED <<archive, pageVars, listVars, tableVars, parse_entries_failed,
                   unitVars, compression_enabled, sizeVars>>

\* There was no memory for the table, and its first element is looked at.
NoTable ==
    /\ pc = "units"
    /\ n_entries > 0
    /\ entries = <<>>
    /\ pc' = "crash"
    /\ UNCHANGED <<archive, pageVars, listVars, tableVars, parse_entries_failed,
                   unitVars, compression_enabled, sizeVars>>

\* unmarshal_lzxc_reset_table.  The lengths are signed, and a negative one is
\* not refused.
ResetTableOk(t) ==
    /\ t.version = 2
    /\ t.uncompressed_len <= UINT_MAX /\ t.compressed_len <= UINT_MAX
    /\ t.block_len # 0 /\ t.block_len <= UINT_MAX

\* parse_lzxc_reset_table; the table is stored in the handle as it is read,
\* before it is looked at.
ParseResetTable ==
    /\ pc = "reset_table"
    /\ pc' = "control"
    /\ \/ /\ ~compression_enabled
          /\ UNCHANGED <<compression_enabled, block_len>>
       \/ /\ compression_enabled
          /\ ReadMayFail \/ ~archive.reset_table.readable
          /\ compression_enabled' = FALSE
          /\ UNCHANGED block_len
       \/ /\ compression_enabled
          /\ archive.reset_table.readable
          /\ block_len' = archive.reset_table.block_len
          /\ compression_enabled' = ResetTableOk(archive.reset_table)
    /\ UNCHANGED <<archive, pageVars, listVars, tableVars, parse_entries_failed,
                   unitVars, window_size, reset_blkcount>>

\* Mutant: products are not cut to 32 bits.
u32Wide(n) == n

u32(n) == n % Word

\* The unit a control block of this version counts in.
Scaled(c, n) == IF c.version = 2 THEN u32(n * Unit) ELSE n

\* unmarshal_lzxc_control_data: a window and an interval that are not zero
\* once scaled, the interval a multiple of half the window.
ControlDataOk(c) ==
    LET window   == Scaled(c, c.windowSize)
        interval == Scaled(c, c.resetInterval)
    IN  /\ c.readable
        /\ window > 1
        /\ interval # 0
        /\ interval % (window \div 2) = 0
        /\ c.signature = "LZXC"

ResetBlkCount(c) ==
    u32((Scaled(c, c.resetInterval) \div (Scaled(c, c.windowSize) \div 2))
          * c.windowsPerReset)

\* Mutant: a reset interval of no blocks is accepted.
EnabledUnchecked(c) == TRUE

EnabledBy(c) == ResetBlkCount(c) # 0

ParseControlData ==
    /\ pc = "control"
    /\ pc' = "open"
    /\ LET c == archive.control
       IN  \/ /\ compression_enabled
              /\ ControlDataOk(c)
              /\ window_size' = Scaled(c, c.windowSize)
              /\ reset_blkcount' = ResetBlkCount(c)
              /\ compression_enabled' = EnabledBy(c)
           \/ /\ compression_enabled
              /\ ~ControlDataOk(c) \/ ReadMayFail
              /\ compression_enabled' = FALSE
              /\ UNCHANGED <<window_size, reset_blkcount>>
           \/ /\ ~compression_enabled
              /\ UNCHANGED <<compression_enabled, window_size, reset_blkcount>>
    /\ UNCHANGED <<archive, pageVars, listVars, tableVars, parse_entries_failed,
                   unitVars, block_len>>

-----------------------------------------------------------------------------
(* What uncompress_block finds in the tables of an open archive *)

\* "for all but the last block, use the reset table"; the count is unsigned.
EndsInTable(block) == block < u32(archive.reset_table.block_count - 1)

\* The bytes a compressed block lies in: where it starts, and where the next
\* one does, is read from the file, in the table behind its header.  (A read
\* that fails is one of the ways uncompress_block fails.)
get_cmpblock_bounds(block) ==
    LET t     == archive.reset_table
        data  == data_offset(archive.itsf)
        off   == data + item[rt_unit].start + t.table_offset + block * 8
        start == archive.numbers[off]
        end   == IF EndsInTable(block) THEN archive.numbers[off + 8] ELSE t.compressed_len
    IN  [start |-> start + data + item[cn_unit].start, len |-> end - start]

-----------------------------------------------------------------------------
(* chm_close *)

\* free_entries, from the first element of the table on.
FreedByClose ==
    IF entries # <<>> /\ n_entries > 0 THEN Range(Chain(entries[1])) ELSE {}

CloseTo(state) ==
    /\ live' = live \ FreedByClose
    /\ pc' = state
    /\ UNCHANGED <<archive, pageVars, item, next, last_entry, parsed, tableVars,
                   parse_entries_failed, unitVars, compression_enabled, sizeVars>>

\* The error path of chm_parse.
ParseFails == pc = "error" /\ CloseTo("failed")

\* The client closes what it opened.
Close == pc = "open" /\ CloseTo("closed")

-----------------------------------------------------------------------------

Parse ==
    \/ ReadItsf
    \/ ItspFails
    \/ ReadItsp
    \/ ReadPage
    \/ PageDone
    \/ LastPageDone
    \/ ReadItem
    \/ RejectItem
    \/ BuildTable
    \/ FindUnits
    \/ NoEntries
    \/ NoTable
    \/ ParseResetTable
    \/ ParseControlData
    \/ ParseFails

Next == Parse \/ Close

Spec == Init /\ [][Next]_vars

\* chm_parse runs on its caller's thread and waits for nothing.
FairSpec == Spec /\ WF_vars(Parse)

-----------------------------------------------------------------------------
(* Properties *)

TypeOK ==
    /\ pc \in {"itsf", "itsp", "page", "items", "table", "units", "reset_table",
              "control", "error", "open", "failed", "closed", "crash"}
    /\ cur_page \in Int
    /\ page_buf \in BOOLEAN
    /\ live \subseteq Addresses
    /\ next \in [Addresses -> Addresses \union {Null}]
    /\ last_entry \in Addresses \union {Null}
    /\ Range(entries) \subseteq Addresses
    /\ {parsed, n_entries} \subseteq 0 .. MaxEntries
    /\ {rt_unit, cn_unit, lzxc} \subseteq Addresses \union {Null}
    /\ {parse_entries_failed, compression_enabled} \subseteq BOOLEAN
    /\ {window_size, reset_blkcount} \subseteq 0 .. Word - 1

\* What an archive holds besides what chm_parse reads is what its writer had
\* in mind: the entries written to a page, the place of each in the page's
\* bytes, the offset of the compressed section, the lengths of its blocks, and
\* the offset of the table of their starts.
\* The writer left the chain of pages without a cycle, an entry where the
\* last one ended, and the blocks of the section one behind the other, where
\* its two tables say.
ChainEnds(a) ==
    \E rank \in [DOMAIN a.pages -> 1 .. Cardinality(DOMAIN a.pages)] :
        \A p \in DOMAIN a.pages :
            a.pages[p].block_next \in DOMAIN a.pages =>
                rank[a.pages[p].block_next] < rank[p]

EntriesFillPage(page) ==
    /\ page.places \in Seq(Nat)
    /\ Len(page.places) = Len(page.written) + 1
    /\ page.places[1] = 1
    /\ \A j, k \in DOMAIN page.places : j < k => page.places[j] < page.places[k]
    /\ page.places[Len(page.places)] = Len(EntryBytes(page)) + 1

\* What bytes stand for: the marked ones are the digits of a number up to the
\* first that is not; an entry is the length of its path, the path, and three
\* numbers, and a path ends before a NUL.  Numbers are as large as the fields
\* they are read into.  What flags an entry gets is not in its bytes.
Number(digits) ==
    LET upTo[k \in 0 .. Len(digits)] ==
            IF k = 0 THEN 0 ELSE upTo[k - 1] * Cont + (digits[k] % Cont)
    IN  upTo[Len(digits)]

NumberEnds(bytes, i) ==
    {j \in i .. Len(bytes) : \A k \in i .. j : bytes[k] < Cont <=> k = j}

IsPath(path, bytes) ==
    /\ Len(path) \in 0 .. Len(bytes) /\ path = SubSeq(bytes, 1, Len(path))
    /\ \A k \in DOMAIN path : path[k] # NUL
    /\ Len(path) < Len(bytes) => bytes[Len(path) + 1] = NUL

IsEntry(e, bytes, size) ==
    \E i \in NumberEnds(bytes, 1) :
        LET n == Number(SubSeq(bytes, 1, i))
        IN  /\ n <= CHM_MAX_PATHLEN
            /\ IsPath(e.path, SubSeq(bytes, i + 1, i + n))
            /\ \E j \in NumberEnds(bytes, i + n + 1) : \E k \in NumberEnds(bytes, j + 1) :
                  /\ size \in NumberEnds(bytes, k + 1)
                  /\ e.space = Number(SubSeq(bytes, i + n + 1, j)) /\ e.space < Word \div 2
                  /\ e.start = Number(SubSeq(bytes, j + 1, k))
                  /\ e.length = Number(SubSeq(bytes, k + 1, size))
                  /\ {e.space, e.start, e.length} \subseteq 0 .. (Long \div 2) - 1
            /\ e = [path |-> e.path, space |-> e.space, start |-> e.start,
                    length |-> e.length, flags |-> flags_from_path(e.path)]

\* Bytes that stand for no entry: the path is too long, or they end too early.
IsNoEntry(bytes) ==
    \A i \in NumberEnds(bytes, 1) :
        LET n == Number(SubSeq(bytes, 1, i))
        IN  /\ n < Long
            /\ n <= CHM_MAX_PATHLEN =>
                 \A j \in NumberEnds(bytes, i + n + 1) : \A k \in NumberEnds(bytes, j + 1) :
                     NumberEnds(bytes, k + 1) = {}

BytesStandForEntries(page) ==
    \A k \in DOMAIN page.written :
        LET bytes == SubSeq(EntryBytes(page), page.places[k], Len(EntryBytes(page)))
        IN  IF page.written[k] = NoItem THEN IsNoEntry(bytes)
            ELSE IsEntry(page.written[k], bytes, page.places[k + 1] - page.places[k])

Starts(a) == [k \in 1 .. Len(a.blocks) |-> a.numbers[a.table + 8 * (k - 1)]]

BlocksFillSection(a) ==
    LET n == Len(a.blocks)
    IN  /\ a.reset_table.block_count = n
        /\ n > 0 => /\ Starts(a)[1] = 0
                    /\ a.reset_table.compressed_len = Starts(a)[n] + a.blocks[n]
        /\ \A k \in 1 .. n - 1 : Starts(a)[k + 1] = Starts(a)[k] + a.blocks[k]

\* Both are where the entries that name them begin, in the file's content.
SectionInContent(a) ==
    \A p \in DOMAIN a.pages : \A k \in DOMAIN a.pages[p].written :
        LET e  == a.pages[p].written[k]
            at == data_offset(a.itsf) + e.start
        IN  /\ streq(e.path, CHMU_CONTENT) => a.section = at
            /\ streq(e.path, CHMU_RESET_TABLE) => a.table = at + a.reset_table.table_offset

ASSUME WrittenAssumption ==
    \A a \in Archives :
        /\ IsFiniteSet(DOMAIN a.pages)
        /\ ChainEnds(a)
        /\ \A p \in DOMAIN a.pages :
             /\ a.pages[p].written \in Seq(Range(a.pages[p].written))
             /\ \A e \in Range(a.pages[p].written) : e.start \in Int
             /\ PmglOk(a.pages[p], a.itsp.block_len) =>
                  EntriesFillPage(a.pages[p]) /\ BytesStandForEntries(a.pages[p])
        /\ a.blocks \in Seq(Int) /\ Len(a.blocks) < Word
        /\ Starts(a) \in Seq(Int)
        /\ {a.section, a.table, data_offset(a.itsf), a.reset_table.table_offset,
              a.reset_table.compressed_len} \subseteq Int
        /\ ResetTableOk(a.reset_table) => BlocksFillSection(a)
        /\ SectionInContent(a)

\* The parsing primitives read what was written: wherever an entry begins,
\* parse_pmgl_entry makes of the bytes the entry that was written there and
\* stops where the next one begins; and it makes none of bytes that stand for
\* no entry (written as NoItem).
PagesReadBack ==
    \A p \in {q \in DOMAIN archive.pages : PageOk(q)} :
        LET page  == archive.pages[p]
            bytes == EntryBytes(page)
        IN  \A k \in DOMAIN page.written :
              LET read == parse_pmgl_entry(SubSeq(bytes, page.places[k], Len(bytes)))
              IN  /\ (read.result = "entry") = (page.written[k] # NoItem)
                  /\ read.result = "entry" =>
                       /\ read.entry = page.written[k]
                       /\ read.at = Start + page.places[k + 1] - page.places[k]

\* What was written to the pages from page p on, in the order of the chain.
Directory(p) ==
    LET from[k \in Int] ==
            IF k \notin DOMAIN archive.pages THEN <<>>
            ELSE archive.pages[k].written \o from[archive.pages[k].block_next]
    IN  from[p]

Listed == [k \in 1 .. Len(entries) |-> item[entries[k]]]

\* The table lists the entries that were written to the directory's pages, in
\* their order, with the path, place and length they were written with, from
\* the first one and without a gap; and all of them unless
\* parse_entries_failed says that the directory could not be read to its end.
ListsDirectory ==
    pc = "open" =>
        /\ n_entries = Len(entries) /\ n_entries > 0
        /\ IsPrefix(Listed, Directory(archive.itsp.index_head))
        /\ ~parse_entries_failed => Listed = Directory(archive.itsp.index_head)

\* Where the block is that was written to the section behind these others.
WrittenAt(block) ==
    LET place[b \in 0 .. block] ==
            IF b = 0 THEN archive.section ELSE place[b - 1] + archive.blocks[b]
    IN  [start |-> place[block], len |-> archive.blocks[block + 1]]

\* When chm_parse leaves compression enabled, chm_retrieve_entry can rely on
\* it: the three entries are there and uncompressed, nothing it divides by is
\* zero, whatever wrapped around in the computation ("prevent division by
\* zero"), and every block of the section is found where it was written.
CompressionUsable ==
    pc = "open" /\ compression_enabled =>
        /\ \A e \in {rt_unit, cn_unit, lzxc} :
             e \in Range(entries) /\ item[e].space # CHM_COMPRESSED
        /\ streq(item[rt_unit].path, CHMU_RESET_TABLE)
        /\ streq(item[cn_unit].path, CHMU_CONTENT)
        /\ block_len # 0
        /\ window_size \div 2 # 0
        /\ reset_blkcount # 0
        /\ \A k \in DOMAIN archive.blocks : get_cmpblock_bounds(k - 1) = WrittenAt(k - 1)

\* After a complete parse every entry allocated is in the table, where the
\* client finds it, and the page buffer is gone.
AllocatedIsListed ==
    pc = "open" => /\ ~page_buf
                   /\ ~parse_entries_failed => live = Range(entries)

\* Closing leaves no entry behind.
CloseFreesEntries == pc = "closed" /\ ~parse_entries_failed => live = {}

\* chm_parse comes to an end, on every directory whose pages do.
ParseEnds == <>(pc \in {"open", "failed", "crash"})

=============================================================================
