------------------------------ MODULE MCChmParse ------------------------------
(* Small archives for ChmParse. *)
EXTENDS ChmParse

\* Bytes are 0 .. 15: a digit of base 8 with or without the mark, or a
\* character.
MCLower == (14 :> 4)
Name(letter) == <<7, letter>>
MCResetTable == Name(4)
MCContent    == Name(5)
MCControl    == Name(6)

Room == 28

\* What a writer of archives makes of a number, and of an entry.
Encoded(n) ==
    IF n < 8 THEN <<n>>
    ELSE IF n < 64 THEN <<8 + (n \div 8), n % 8>>
    ELSE <<8 + (n \div 64), 8 + ((n \div 8) % 8), n % 8>>

EncodedAs(path, e) ==
    Encoded(Len(path)) \o path \o Encoded(e.space) \o Encoded(e.start) \o Encoded(e.length)

Entry(path, space, start, length, flags) ==
    [path |-> path, space |-> space, start |-> start, length |-> length, flags |-> flags]

\* An item of a page is an entry and the bytes that stand for it; it is
\* nothing but bytes when no entry can be read from them.
Item(e)      == [written |-> <<e>>, bytes |-> EncodedAs(e.path, e)]
Raw(bytes)   == [written |-> <<NoItem>>, bytes |-> bytes]

Page(items, after) ==
    LET bytes == FlattenSeq([k \in DOMAIN items |-> items[k].bytes])
        Upto(n) == FlattenSeq([k \in 1 .. n |-> items[k].bytes])
    IN  [signature  |-> "PMGL",
         bytes      |-> bytes \o [k \in 1 .. Room - Len(bytes) |-> 0],
         free_space |-> Room - Len(bytes),
         places     |-> [k \in 1 .. Len(items) + 1 |-> Len(Upto(k - 1)) + 1],
         written    |-> FlattenSeq([k \in DOMAIN items |-> items[k].written]),
         block_next |-> after]

\* The content is where the header of version 3 says; in version 2 it is
\* where the directory ends.
Itsf == [signature |-> "ITSF", version |-> 3, whole |-> TRUE, dir_offset |-> 9,
         dir_len |-> 15, data_offset |-> 70]
Itsf2 == [Itsf EXCEPT !.version = 2]
Itsp == [signature |-> "ITSP", version |-> 1, whole |-> TRUE, index_head |-> 0,
         block_len |-> CHM_PMGL_LEN + Room]

Meta(path, space) == Item(Entry(path, space, 3, 40, {"meta", "files"}))
ResetItem   == Meta(CHMU_RESET_TABLE, CHM_UNCOMPRESSED)
ContentItem == Item(Entry(CHMU_CONTENT, CHM_UNCOMPRESSED, 7, 40, {"meta", "files"}))
ControlItem == Meta(CHMU_LZXC_CONTROLDATA, CHM_UNCOMPRESSED)
HtmlItem    == Item(Entry(<<SLASH, 5>>, CHM_COMPRESSED, 200, 255, {"normal", "files"}))
DirItem     == Item(Entry(<<SLASH, 5, SLASH>>, CHM_UNCOMPRESSED, 0, 0, {"normal", "dirs"}))
IndexItem   == Item(Entry(<<SLASH, HASH>>, CHM_COMPRESSED, 63, 64, {"special", "files"}))
BareItem    == Item(Entry(<<>>, CHM_UNCOMPRESSED, 8, 7, {"meta", "files"}))

\* The name of the reset table in capitals; a name that ends with a NUL; a
\* number with a digit more than it needs.
CapitalItem == Meta(Name(14), CHM_UNCOMPRESSED)
NulItem == [ContentItem EXCEPT
              !.bytes = EncodedAs(Append(CHMU_CONTENT, NUL), ContentItem.written[1])]
LongWay == [Meta(<<5>>, CHM_UNCOMPRESSED) EXCEPT !.bytes = <<8, 1, 5, 8, 0, 3, 8, 13, 0>>]

\* Items from which no entry can be read: the page ends before the item does,
\* or inside a number; a path that is longer than allowed, or so long that
\* its length is negative.
ShortItem   == Raw(<<1, 5, 0>>)
EndlessItem == Raw(<<1, 5, 0, 9, 9>>)
LongItem    == Raw(<<4, 5, 5, 5, 5, 0, 0, 0>>)
HugeItem    == Raw(<<12, 8, 0, 5, 0, 0, 0>>)

\* Directories: everything on two pages, the chain not in the order of the
\* page numbers; a name that comes twice; no control data; a compressed reset
\* table; every other kind of entry; pages with an item that cannot be
\* parsed; a chain that leaves the file or meets a page that is none; no
\* entries at all.
Directories == {
    (0 :> Page(<<HtmlItem, ResetItem>>, 2)) @@ (2 :> Page(<<ContentItem, ControlItem>>, -1)),
    (1 :> Page(<<HtmlItem>>, -1)) @@
        (0 :> Page(<<ControlItem, ResetItem, ContentItem, ResetItem>>, 1)),
    (0 :> Page(<<ContentItem, ResetItem>>, -1)),
    (0 :> Page(<<Meta(CHMU_RESET_TABLE, CHM_COMPRESSED), ContentItem, ControlItem>>, -1)),
    (0 :> Page(<<IndexItem, DirItem, BareItem>>, 1)) @@
        (1 :> Page(<<CapitalItem, NulItem>>, -1)),
    (0 :> Page(<<LongWay, HtmlItem>>, -1)),
    (0 :> Page(<<HtmlItem, ContentItem, ShortItem>>, -1)),
    (0 :> Page(<<ControlItem, ResetItem, ContentItem>>, 1)) @@
        (1 :> Page(<<LongItem, HtmlItem>>, -1)),
    (0 :> Page(<<HtmlItem, HugeItem>>, -1)),
    (0 :> Page(<<HtmlItem, EndlessItem>>, -1)),
    (0 :> Page(<<>>, -1))}

BrokenChains == {
    (0 :> Page(<<HtmlItem>>, 7)),
    (0 :> Page(<<HtmlItem>>, 3)) @@ (3 :> [Page(<<HtmlItem>>, -1) EXCEPT !.signature = "none"]),
    (0 :> Page(<<HtmlItem>>, 3)) @@ (3 :> [Page(<<HtmlItem>>, -1) EXCEPT !.free_space = Room + 1])}

\* The compressed section holds blocks of these lengths, or none; behind the
\* table of their starts the file goes on.
Blocks == <<5, 3, 4>>
Numbers(table) ==
    (table :> 0) @@ (table + 8 :> 5) @@ (table + 16 :> 8) @@ (table + 24 :> 1)
GoodTable == [version |-> 2, uncompressed_len |-> 3, compressed_len |-> 12,
              block_len |-> 1, block_count |-> 3, table_offset |-> 2,
              readable |-> TRUE]

\* Unreadable, of another version, with a length out of range, at the limit or
\* negative.
ResetTables ==
    {[GoodTable EXCEPT !.readable = FALSE], [GoodTable EXCEPT !.version = 1],
     [GoodTable EXCEPT !.uncompressed_len = Word], [GoodTable EXCEPT !.compressed_len = Word]}
      \union {[GoodTable EXCEPT !.block_len = n] : n \in {-1, 0, Word - 1, Word}}
      \union {[GoodTable EXCEPT !.block_count = 1, !.compressed_len = 5],
              [GoodTable EXCEPT !.block_count = 0, !.compressed_len = 0]}

\* With Word = 16 and Unit = 4 a window of 4 units wraps around to 0, and an
\* interval of half windows can be counted past the end of the word.
Controls ==
    [version : {1, 2}, signature : {"LZXC"}, readable : {TRUE},
     windowSize : {0, 1, 2, 4}, resetInterval : {0, 2, 3, 8}, windowsPerReset : {0, 1, 2}]
      \union {[version |-> 1, signature |-> "none", readable |-> TRUE, windowSize |-> 2,
               resetInterval |-> 2, windowsPerReset |-> 1],
              [version |-> 1, signature |-> "LZXC", readable |-> FALSE, windowSize |-> 2,
               resetInterval |-> 2, windowsPerReset |-> 1]}

GoodControl == [version |-> 2, signature |-> "LZXC", readable |-> TRUE,
                windowSize |-> 1, resetInterval |-> 2, windowsPerReset |-> 1]

Archive(f, p, d, t, c) ==
    LET content == data_offset(f)
    IN  [itsf |-> f, itsp |-> p, pages |-> d, reset_table |-> t, control |-> c,
         section |-> content + 7, blocks |-> SubSeq(Blocks, 1, t.block_count),
         table |-> content + 5, numbers |-> Numbers(content + 5)]

TwoPages == CHOOSE d \in Directories : Cardinality(DOMAIN d) = 2 /\ 2 \in DOMAIN d

MCArchives ==
    {Archive(Itsf, Itsp, d, GoodTable, GoodControl) : d \in Directories \union BrokenChains}
      \union {Archive(Itsf, Itsp, TwoPages, t, GoodControl) : t \in ResetTables}
      \union {Archive(Itsf, Itsp, TwoPages, GoodTable, c) : c \in Controls}
      \union {Archive(Itsf2, Itsp, TwoPages, GoodTable, GoodControl),
              Archive([Itsf EXCEPT !.dir_len = Word], Itsp, TwoPages, GoodTable, GoodControl),
              Archive([Itsf EXCEPT !.version = 4], Itsp, TwoPages, GoodTable, GoodControl),
              Archive(Itsf, [Itsp EXCEPT !.block_len = 0], TwoPages, GoodTable, GoodControl),
              Archive(Itsf, [Itsp EXCEPT !.block_len = CHM_PMGL_LEN - 1], TwoPages, GoodTable,
                      GoodControl),
              Archive(Itsf, [Itsp EXCEPT !.index_head = -1], TwoPages, GoodTable, GoodControl)}

\* One good archive.
OneArchive == {Archive(Itsf, Itsp, TwoPages, GoodTable, GoodControl)}
=============================================================================
