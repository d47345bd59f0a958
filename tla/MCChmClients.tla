----------------------------- MODULE MCChmClients -----------------------------
(* Small archives for the tools and the cover finder. *)
EXTENDS ChmClients, TLC

-----------------------------------------------------------------------------
(* Jobs *)

Entry(kind, path, length, given) ==
    [kind |-> kind, path |-> path, length |-> length, given |-> given]

\* Directories above, below and beside each other, the root, files of one
\* buffer and more, an empty file, one of a negative length, one that can be
\* read in part, a file where another entry has a directory; entries that are
\* no file.
ToolEntries == {
    Entry("dir",      <<>>,         0, 0),
    Entry("dir",      <<"a">>,      0, 0),
    Entry("file",     <<"a">>,      1, 1),
    Entry("file",     <<"a", "b">>, 3, 3),
    Entry("file",     <<"a", "b">>, 4, 2),
    Entry("file",     <<"c">>,      0, 0),
    Entry("file",     <<"c">>,     -1, 0),
    Entry("dots",     <<"d">>,      1, 1),
    Entry("long",     <<"d">>,      1, 1),
    Entry("relative", <<"d">>,      2, 2)}

\* The target directory is there, is to be made in one that is there, or has
\* only one component and is not; a file of the archive's is there already, or
\* one where the archive has a directory.
Places == {
    [base |-> <<"out">>,        files |-> (<<"out">> :> Dir)],
    [base |-> <<"tmp", "out">>, files |-> (<<"tmp">> :> Dir)],
    [base |-> <<"out">>,        files |-> (<<"tmp">> :> Dir)],
    [base |-> <<"out">>,
     files |-> (<<"out">> :> Dir) @@ (<<"out", "c">> :> File(<<<<0, 0>>>>))],
    [base |-> <<"out">>,
     files |-> (<<"out">> :> Dir) @@ (<<"out", "a">> :> File(<<>>))]}

Job(tool, entries, place, parses, failed) ==
    [tool |-> tool, entries |-> entries, base |-> place.base, files |-> place.files,
     parses |-> parses, parse_entries_failed |-> failed]

AnyPlace == CHOOSE p \in Places : TRUE

MCJobs ==
    {Job("extract", s, p, TRUE, f) :
        s \in UNION {[1 .. n -> ToolEntries] : n \in 1 .. 2}, p \in Places, f \in BOOLEAN}
      \union {Job("extract", s, p, TRUE, FALSE) :
                s \in [1 .. 3 -> {x \in ToolEntries : x.kind \in {"dir", "file"}}], p \in Places}
      \union {Job(t, s, AnyPlace, p, f) :
                t \in {"enum", "test"}, s \in [1 .. 2 -> ToolEntries], p \in BOOLEAN,
                f \in BOOLEAN}

-----------------------------------------------------------------------------
(* Books *)

InBook(matches, depth, readable) ==
    [matches |-> matches, depth |-> depth, readable |-> readable, loads |-> FALSE,
     tags |-> <<>>, objects |-> <<>>]

Image(matches, depth, loads) == [InBook(matches, depth, TRUE) EXCEPT !.loads = loads]
HtmlPage(matches, depth, imgs) == [InBook(matches, depth, TRUE) EXCEPT !.tags = imgs]
HhcFile(depth, list) == [InBook({"hhc"}, depth, TRUE) EXCEPT !.objects = list]
Object(named, leads_to, path) == [named |-> named, leads_to |-> leads_to, path |-> path]

\* Images of every name, near the top and below, that load, do not load or
\* cannot be read.
Images ==
    {Image({"cover"}, d, l) : d \in 1 .. 2, l \in BOOLEAN}
      \union {Image({"img"}, d, l) : d \in 1 .. 2, l \in BOOLEAN}
      \union {Image({"xs", "cover"}, 2, TRUE), Image({"xs"}, 1, FALSE),
              InBook({"cover"}, 1, FALSE), InBook({"img"}, 1, FALSE)}

\* Pages of every ending, with images that are there or not.
Pages ==
    {HtmlPage({"toc.html", ".html"}, 1, <<"none", "img">>),
     HtmlPage({"index.html", ".html", "path"}, 1, <<"img">>),
     HtmlPage({".htm"}, 1, <<"img", "cover">>), HtmlPage({".html"}, 2, <<"img">>),
     InBook({".html", "path"}, 1, FALSE)}

\* Objects without a name, without a path, of the name "Cover" and of another
\* one, before and behind the second; an hhc file that cannot be read.
HhcFiles ==
    {HhcFile(1, <<Object("other", "image", "img")>>),
     HhcFile(2, <<Object("none", "image", "img"), Object("Cover", "nothing", "none"),
                  Object("other", "page", "path"), Object("Cover", "page", "path")>>),
     InBook({"hhc"}, 1, FALSE)}

BookEntries == Images \union Pages \union HhcFiles

MCBooks == UNION {[1 .. n -> BookEntries] : n \in 1 .. 3}

MCToc  == <<"toc.html">>
MCOther == <<"cover.html", "index.html">>
MCHtml == <<".html", ".htm">>
MCHhc  == <<"hhc">>
=============================================================================
