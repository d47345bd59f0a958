------------------------------ MODULE CoverFinder ------------------------------
(***************************************************************************)
(* The cover finder of chmlibtest: the stages of TryGetCoverBitmap, the    *)
(* search for a file that matches, and the pages and tables of contents    *)
(* that lead from one file to another.                                     *)
(*                                                                         *)
(* What a path is compared with - a list of endings, the path an image tag *)
(* or an object names - is a pattern, and an entry has the patterns its    *)
(* path matches.  A page is the patterns of its image tags that pass for   *)
(* images, an hhc file its objects: whether each is named, "Cover" or      *)
(* otherwise, and what kind of path it leads to.                           *)
(***************************************************************************)
EXTENDS Integers, FiniteSets, SequencesExt

CONSTANTS
    Books,            \* the archives: sequences of entries
    \* patterns: the names of covers, and of images that may be one
    XsFile, CoverName,
    \* sequences of patterns: the endings of tables of contents, of other
    \* first pages, of pages, and of hhc files
    TocFileNames, OtherTocFileNames, HtmlExtensions, HhcExtension

\* The number of slashes in a path is its depth.
ASSUME BooksAssumption ==
    /\ Books # {}
    /\ \A b \in Books :
         /\ b \in Seq(Range(b))
         /\ \A k \in DOMAIN b :
              /\ b[k].depth \in Nat
              /\ b[k].tags \in Seq(Range(b[k].tags))
              /\ b[k].objects \in Seq(Range(b[k].objects))
              /\ \A o \in Range(b[k].objects) : o.named \in {"none", "Cover", "other"}
ASSUME EndingsAssumption ==
    /\ \A ends \in {TocFileNames, OtherTocFileNames, HtmlExtensions, HhcExtension} :
         ends \in Seq(Range(ends))
    /\ Len(HhcExtension) = 1

None == 0

VARIABLES
    book,
    stage,     \* the stage of TryGetCoverBitmap
    at,        \* the loop the search is in
    endings,   \* the endings of pages that are left
    page,      \* fileIndex of the loop over pages or hhc files
    objects,   \* the objects of the hhc file that are left ...
    count,     \* ... and how many there were before
    tags,      \* the image tags of the page that are left
    image,     \* the pattern an image is looked for with
    fileIndex, \* fileIndex of the loop over images
    bitmap     \* the entry of the image found, or None

coverVars == <<book, stage, at, endings, page, objects, count, tags, image,
               fileIndex, bitmap>>

\* An image is looked for by its name, or on the pages with these endings.
ByName(pattern) == [by |-> "name", image |-> pattern]
OnPages(ends)   == [by |-> "pages", endings |-> ends]

Stages == <<ByName(XsFile), OnPages(TocFileNames), OnPages(OtherTocFileNames),
            OnPages(HhcExtension), ByName(CoverName), OnPages(HtmlExtensions)>>
HHC    == 4

LookFor(pattern) == image' = pattern /\ fileIndex' = 1 /\ at' = "image"

BeginStage(s) ==
    /\ stage' = s
    /\ \/ Stages[s].by = "name" /\ LookFor(Stages[s].image) /\ UNCHANGED <<endings, page>>
       \/ /\ Stages[s].by = "pages"
          /\ endings' = Stages[s].endings /\ page' = 1 /\ at' = "pages"
          /\ UNCHANGED <<image, fileIndex>>

CoverInit(b) ==
    /\ book = b
    /\ stage = 1 /\ image = XsFile /\ endings = <<>> /\ at = "image"
    /\ page = 1 /\ fileIndex = 1
    /\ objects = <<>> /\ count = 0
    /\ tags = <<>>
    /\ bitmap = None

-----------------------------------------------------------------------------
(* TryGetFileMatchContent, TryGetFileEndsWithContent *)

Matching(pattern, from) == {k \in from .. Len(book) : pattern \in book[k].matches}

\* Mutant: the last of the shallowest ones.
LastShallowest(pattern, from) ==
    LET m == Matching(pattern, from)
        s == {k \in m : \A j \in m : book[k].depth <= book[j].depth}
    IN  IF s = {} THEN None ELSE Max(s)

\* The first of the entries with the fewest slashes in their path.
Shallowest(pattern, from) ==
    LET m == Matching(pattern, from)
        s == {k \in m : \A j \in m : book[k].depth <= book[j].depth}
    IN  IF s = {} THEN None ELSE Min(s)

\* TryReadFile: the whole entry or nothing.
CanRead(k) == k # None /\ book[k].readable

-----------------------------------------------------------------------------
(* The loop over images: TryGetCoverBitmap, TryLoadBitmap *)

ImageFound ==
    /\ at = "image"
    /\ LET k == Shallowest(image, fileIndex)
       IN  /\ CanRead(k)
           /\ book[k].loads
           /\ bitmap' = k
    /\ at' = "done"
    /\ UNCHANGED <<book, stage, endings, page, objects, count, tags, image, fileIndex>>

\* Mutants: the loop tries the same image again, or passes one over.
SameAgain(k) == k
TwoBehind(k) == k + 2

\* ++fileIndex, after the search has set it to what it found
Behind(k) == k + 1

\* No image, or too small a one: on with the entries behind it.
ImageWillNotDo ==
    /\ at = "image"
    /\ LET k == Shallowest(image, fileIndex)
       IN  /\ CanRead(k)
           /\ ~book[k].loads
           /\ fileIndex' = Behind(k)
    /\ UNCHANGED <<book, stage, at, endings, page, objects, count, tags, image, bitmap>>

\* There is none, or it cannot be read, which ends the loop as well.
NoImage ==
    /\ at = "image"
    /\ ~CanRead(Shallowest(image, fileIndex))
    /\ at' = "tags"
    /\ UNCHANGED <<book, stage, endings, page, objects, count, tags, image, fileIndex, bitmap>>

-----------------------------------------------------------------------------
(* The loops that lead to an image *)

\* TryGetCoverFromImageTag
NextTag ==
    /\ at = "tags"
    /\ tags # <<>>
    /\ LookFor(Head(tags))
    /\ tags' = Tail(tags)
    /\ UNCHANGED <<book, stage, endings, page, objects, count, bitmap>>

NoMoreTags ==
    /\ at = "tags"
    /\ tags = <<>>
    /\ at' = IF stage = HHC THEN "objects" ELSE "pages"
    /\ UNCHANGED <<book, stage, endings, page, objects, count, tags, image, fileIndex, bitmap>>

\* TryGetPathFromHhcObject: the first two objects need a name, the ones behind
\* them the name "Cover", and all of them a path.
Accepted(object) ==
    /\ object.named \in IF count < 2 THEN {"Cover", "other"} ELSE {"Cover"}
    /\ object.leads_to \in {"page", "image"}

\* ... to an image, to the first page with the path, or to nothing.
NextObject ==
    /\ at = "objects"
    /\ objects # <<>>
    /\ objects' = Tail(objects)
    /\ count' = count + 1
    /\ LET object == Head(objects)
           k      == Shallowest(object.path, 1)
       IN  \/ /\ Accepted(object) /\ object.leads_to = "image"
              /\ LookFor(object.path)
              /\ UNCHANGED tags
           \/ /\ Accepted(object) /\ object.leads_to = "page" /\ CanRead(k)
              /\ tags' = book[k].tags
              /\ at' = "tags"
              /\ UNCHANGED <<image, fileIndex>>
           \/ /\ ~Accepted(object) \/ (object.leads_to = "page" /\ ~CanRead(k))
              /\ UNCHANGED <<at, tags, image, fileIndex>>
    /\ UNCHANGED <<book, stage, endings, page, bitmap>>

NoMoreObjects ==
    /\ at = "objects"
    /\ objects = <<>>
    /\ at' = "pages"
    /\ UNCHANGED <<book, stage, endings, page, objects, count, tags, image, fileIndex, bitmap>>

Found == Shallowest(Head(endings), page)

\* TryGetCoverFromHtml, TryGetCoverFromHhc: a page or an hhc file is read.
ReadPage ==
    /\ at = "pages"
    /\ endings # <<>>
    /\ CanRead(Found)
    /\ IF stage = HHC
       THEN /\ at' = "objects" /\ objects' = book[Found].objects /\ count' = 0
            /\ UNCHANGED tags
       ELSE /\ at' = "tags" /\ tags' = book[Found].tags
            /\ UNCHANGED <<objects, count>>
    /\ page' = Found + 1
    /\ UNCHANGED <<book, stage, endings, image, fileIndex, bitmap>>

\* A page that cannot be read is passed over; an hhc file that cannot be read
\* ends the loop, and so does the last entry.
NoPage ==
    /\ at = "pages"
    /\ endings # <<>>
    /\ ~CanRead(Found)
    /\ IF Found # None /\ stage # HHC
       THEN page' = Found + 1 /\ UNCHANGED endings
       ELSE page' = 1 /\ endings' = Tail(endings)
    /\ UNCHANGED <<book, stage, at, objects, count, tags, image, fileIndex, bitmap>>

NextStage ==
    /\ at = "pages"
    /\ endings = <<>>
    /\ stage < Len(Stages)
    /\ BeginStage(stage + 1)
    /\ UNCHANGED <<book, objects, count, tags, bitmap>>

NoCover ==
    /\ at = "pages"
    /\ endings = <<>>
    /\ stage = Len(Stages)
    /\ at' = "done"
    /\ UNCHANGED <<book, stage, endings, page, objects, count, tags, image, fileIndex, bitmap>>

CoverNext ==
    \/ ImageFound
    \/ ImageWillNotDo
    \/ NoImage
    \/ NextTag
    \/ NoMoreTags
    \/ NextObject
    \/ NoMoreObjects
    \/ ReadPage
    \/ NoPage
    \/ NextStage
    \/ NoCover

-----------------------------------------------------------------------------
(* What the stages amount to *)

\* A loop that goes on behind the shallowest entry there is comes to the
\* entries that have none with fewer slashes behind them.
Tried(pattern) ==
    LET m == Matching(pattern, 1)
    IN  {k \in m : \A j \in m : j > k => book[k].depth <= book[j].depth}

\* The first member of a set of positions for which Give gives something.
FirstThat(S, Give(_)) ==
    LET good == {k \in S : Give(k) # None}
    IN  IF good = {} THEN None ELSE Give(Min(good))

\* Up to the first entry that cannot be read.
Readable(S) == {k \in S : \A j \in S : j <= k => book[j].readable}

ImageFor(pattern) ==
    FirstThat(Readable(Tried(pattern)), LAMBDA k : IF book[k].loads THEN k ELSE None)

ImageOnPage(k) == FirstThat(DOMAIN book[k].tags, LAMBDA t : ImageFor(book[k].tags[t]))

ImageOnPages(pattern) ==
    FirstThat({k \in Tried(pattern) : book[k].readable}, ImageOnPage)

ImageOfObject(k, o) ==
    LET object == book[k].objects[o]
        first  == Tried(object.path)
    IN  IF \/ object.leads_to \notin {"page", "image"}
           \/ object.named = "none"
           \/ o > 2 /\ object.named # "Cover"
        THEN None
        ELSE IF object.leads_to = "image" THEN ImageFor(object.path)
        ELSE IF first # {} /\ book[Min(first)].readable THEN ImageOnPage(Min(first))
        ELSE None

ImageOfHhc(k) == FirstThat(DOMAIN book[k].objects, LAMBDA o : ImageOfObject(k, o))

ImageOfStage(s) ==
    IF s = HHC THEN FirstThat(Readable(Tried(Head(HhcExtension))), ImageOfHhc)
    ELSE IF Stages[s].by = "name" THEN ImageFor(Stages[s].image)
    ELSE FirstThat(DOMAIN Stages[s].endings, LAMBDA n : ImageOnPages(Stages[s].endings[n]))

-----------------------------------------------------------------------------
(* Properties *)

CoverTypeOK ==
    /\ stage \in 1 .. Len(Stages)
    /\ at \in {"image", "tags", "objects", "pages", "done"}
    /\ page \in 1 .. Len(book) + 1
    /\ fileIndex \in 1 .. Len(book) + 1
    /\ bitmap \in 0 .. Len(book)

\* The image the finder comes back with is the one the first stage that has
\* one has: an image that loads, reached by way of entries none of which has
\* one with fewer slashes behind it; and it comes back without an image only
\* when no stage has one.
CoverOfFirstStage ==
    at = "done" => bitmap = FirstThat(DOMAIN Stages, ImageOfStage)
=============================================================================
