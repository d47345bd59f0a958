------------------------------- MODULE ChmTools -------------------------------
(***************************************************************************)
(* The command line tools: extract writes the entries of an archive below  *)
(* a directory, enum lists them, test lists them with a checksum.  All     *)
(* three open a reader, parse, go through the entries in their order and   *)
(* close what they opened.                                                 *)
(*                                                                         *)
(* A job is a tool and what it works on: the entries chm_parse listed, and *)
(* the files that are there already.  A path is the sequence of its        *)
(* components; an entry is a directory's when its path ends with a slash.  *)
(***************************************************************************)
EXTENDS Integers, FiniteSets, SequencesExt

CONSTANTS
    Jobs,
    BufLen,      \* 32768: how much extract asks for at a time
    ToolFaults   \* what can fail: a subset of ToolFailures

ToolFailures == {"open", "mkdir", "fwrite", "malloc", "sha1"}

ASSUME ToolAssumption ==
    /\ BufLen \in Nat \ {0}
    /\ ToolFaults \subseteq ToolFailures

Dir         == [kind |-> "dir",  bytes |-> <<>>]
File(bytes) == [kind |-> "file", bytes |-> bytes]

\* What there is at each path.
IsFileSystem(f) == \A path \in DOMAIN f : f[path] = Dir \/ f[path] = File(f[path].bytes)

\* chm_retrieve_entry gives no more of an entry than its length, which may be
\* negative.
ASSUME JobsAssumption ==
    /\ Jobs # {}
    /\ \A j \in Jobs :
         /\ j.entries \in Seq(Range(j.entries))
         /\ \A k \in DOMAIN j.entries :
              /\ j.entries[k].length \in Int
              /\ j.entries[k].given = 0 \/ j.entries[k].given \in 1 .. j.entries[k].length
         /\ {j.parses, j.parse_entries_failed} \subseteq BOOLEAN
         /\ IsFileSystem(j.files)

VARIABLES
    job,
    step,
    reader,     \* is the fd_reader open?
    chm,        \* has chm_parse left a handle that is not closed?
    i,          \* the entry the loop is at
    offset,     \* extract_entry: how much of the entry has been read
    fs,         \* path -> what is there: Dir, or a file's bytes
    incomplete, \* entries extract has reported as incomplete
    lost,       \* entries of which fwrite has not written everything
    listing,    \* what enum and test have printed, line by line
    ok          \* what the tool's function returns

toolVars == <<job, step, reader, chm, i, offset, fs, incomplete, lost, listing, ok>>
fileVars == <<offset, fs, incomplete, lost>>

ToolInit(j) ==
    /\ job = j
    /\ step = "init"
    /\ reader = FALSE /\ chm = FALSE
    /\ i = 1 /\ offset = 0
    /\ fs = job.files
    /\ incomplete = {} /\ lost = {}
    /\ listing = <<>>
    /\ ok = FALSE

n_entries == Len(job.entries)
e == job.entries[i]

-----------------------------------------------------------------------------
(* extract_fd, enum_fd, test_fd *)

Return(value) == step' = "returned" /\ ok' = value

OpenReader ==
    /\ step = "init"
    /\ \/ reader' = TRUE /\ step' = "parse" /\ UNCHANGED ok
       \/ "open" \in ToolFaults /\ Return(FALSE) /\ UNCHANGED reader
    /\ UNCHANGED <<job, chm, i, fileVars, listing>>

ParseArchive ==
    /\ step = "parse"
    /\ job.parses
    /\ chm' = TRUE
    /\ step' = "entry"
    /\ UNCHANGED <<job, reader, i, fileVars, listing, ok>>

\* Mutant: the reader is left to the end of the process.
ParseFailsOpen ==
    /\ step = "parse"
    /\ ~job.parses
    /\ Return(FALSE)
    /\ UNCHANGED <<job, reader, chm, i, fileVars, listing>>

ParseFails ==
    /\ step = "parse"
    /\ ~job.parses
    /\ reader' = FALSE
    /\ Return(FALSE)
    /\ UNCHANGED <<job, chm, i, fileVars, listing>>

\* The loop over the entries ends, by itself or with a failure.
LoopEnds(value) == step' = "close" /\ ok' = value

\* extract_fd and test_fd hand on what their loop returned.
CloseAll ==
    /\ step = "close"
    /\ chm' = FALSE /\ reader' = FALSE
    /\ Return(ok)
    /\ UNCHANGED <<job, i, fileVars, listing>>

\* A partial directory: extract fails, test says so and does not, and enum
\* returns at once.
EntriesDone ==
    /\ step = "entry"
    /\ i > n_entries
    /\ \/ job.tool = "extract" /\ LoopEnds(~job.parse_entries_failed)
       \/ job.tool = "test" /\ LoopEnds(TRUE)
       \/ job.tool = "enum" /\ job.parse_entries_failed /\ Return(FALSE)
       \/ job.tool = "enum" /\ ~job.parse_entries_failed /\ LoopEnds(TRUE)
    /\ UNCHANGED <<job, reader, chm, i, fileVars, listing>>

AtEntry(tool) == job.tool = tool /\ step = "entry" /\ i <= n_entries

NextEntry == step' = "entry" /\ i' = i + 1

-----------------------------------------------------------------------------
(* enum and test *)

\* print_entry
PrintEntry ==
    /\ AtEntry("enum")
    /\ listing' = Append(listing, [entry |-> i, sha1 |-> "none"])
    /\ NextEntry
    /\ UNCHANGED <<job, reader, chm, fileVars, ok>>

ReadWhole == e.length > 0 /\ e.given = e.length

\* process_entry: an entry that is empty or cannot be read as a whole is
\* listed with a checksum of zeros, and one whose checksum cannot be computed
\* ends the loop.
ProcessEntry ==
    /\ AtEntry("test")
    /\ \/ /\ ReadWhole
          /\ listing' = Append(listing, [entry |-> i, sha1 |-> "content"])
          /\ NextEntry
          /\ UNCHANGED ok
       \/ /\ ~ReadWhole \/ "malloc" \in ToolFaults
          /\ listing' = Append(listing, [entry |-> i, sha1 |-> "zeros"])
          /\ NextEntry
          /\ UNCHANGED ok
       \/ /\ ReadWhole /\ "sha1" \in ToolFaults
          /\ LoopEnds(FALSE)
          /\ UNCHANGED <<i, listing>>
    /\ UNCHANGED <<job, reader, chm, fileVars>>

-----------------------------------------------------------------------------
(* The file system, as rmkdir and fopen see it *)

Target(k) == job.base \o job.entries[k].path

Ancestors(path) == {SubSeq(path, 1, n) : n \in 1 .. Len(path)}
IsDir(f, path)  == path \in DOMAIN f /\ f[path] = Dir

\* mkdir fails on a path where something is.
WithDirs(f, paths) ==
    [p \in DOMAIN f \union paths |-> IF p \in DOMAIN f THEN f[p] ELSE Dir]

MkdirMayFail == "mkdir" \in ToolFaults

\* The file systems rmkdir can leave: the components that are missing are
\* made from the last one there is on, if that is a directory.  The first
\* component has no slash before it and is not made.
rmkdir(f, path) ==
    LET there   == Ancestors(path) \intersect DOMAIN f
        lowest  == CHOOSE p \in there : \A q \in there : Len(q) <= Len(p)
        missing == Ancestors(path) \ there
        upTo(n) == {p \in missing : Len(p) <= n}
    IN  IF there = {} \/ ~IsDir(f, lowest) THEN {f}
        ELSE {WithDirs(f, upTo(n)) : n \in IF MkdirMayFail THEN Len(lowest) .. Len(path)
                                            ELSE {Len(path)}}

\* rmkdir of a path with a slash at its end, which even the first component
\* has then.
rmkdirSlash(f, path) ==
    IF Len(path) = 1 /\ path \notin DOMAIN f
    THEN {WithDirs(f, {path})} \union (IF MkdirMayFail THEN {f} ELSE {})
    ELSE rmkdir(f, path)

\* Mutant: what the file holds is kept.
OpenedToAppend(f, path) ==
    [p \in DOMAIN f \union {path} |-> IF p \in DOMAIN f THEN f[p] ELSE File(<<>>)]

\* fopen(path, "wb")
Opened(f, path) ==
    [p \in DOMAIN f \union {path} |-> IF p = path THEN File(<<>>) ELSE f[p]]

CanOpen(f, path) == IsDir(f, Front(path)) /\ ~IsDir(f, path)

-----------------------------------------------------------------------------
(* extract_entry *)

\* No path the tool takes: it does not begin with a slash, or has "/../" in it.
Skipped(k) == job.entries[k].kind \in {"relative", "dots"}

Skip ==
    /\ AtEntry("extract")
    /\ Skipped(i)
    /\ NextEntry
    /\ UNCHANGED <<job, reader, chm, fileVars, listing, ok>>

PathTooLong ==
    /\ AtEntry("extract")
    /\ e.kind = "long"
    /\ LoopEnds(FALSE)
    /\ UNCHANGED <<job, reader, chm, i, fileVars, listing>>

ExtractDir ==
    /\ AtEntry("extract")
    /\ e.kind = "dir"
    /\ fs' \in rmkdirSlash(fs, Target(i))
    /\ \/ IsDir(fs', Target(i)) /\ NextEntry /\ UNCHANGED ok
       \/ ~IsDir(fs', Target(i)) /\ LoopEnds(FALSE) /\ UNCHANGED i
    /\ UNCHANGED <<job, reader, chm, offset, incomplete, lost, listing>>

\* The file is opened, with the directories above it made if it cannot be
\* opened without, and what it held is gone.
OpenFile ==
    /\ AtEntry("extract")
    /\ e.kind = "file"
    /\ \E f \in IF CanOpen(fs, Target(i)) THEN {fs} ELSE rmkdir(fs, Front(Target(i))) :
         \/ /\ CanOpen(f, Target(i))
            /\ fs' = Opened(f, Target(i))
            /\ step' = "copy" /\ offset' = 0
            /\ UNCHANGED ok
         \/ /\ ~CanOpen(f, Target(i)) \/ "open" \in ToolFaults
            /\ fs' = f
            /\ LoopEnds(FALSE)
            /\ UNCHANGED offset
    /\ UNCHANGED <<job, reader, chm, i, incomplete, lost, listing>>

\* What chm_retrieve_entry gives for a buffer: as many bytes as there are.
Retrieved ==
    LET n == IF offset + BufLen < e.given THEN BufLen ELSE e.given - offset
    IN  [k \in 1 .. n |-> <<i, offset + k - 1>>]

\* The loop body: what was read is written, except that nothing looks at what
\* fwrite says.
Copy ==
    /\ step = "copy"
    /\ offset # e.length
    /\ Retrieved # <<>>
    /\ offset' = offset + Len(Retrieved)
    /\ \/ /\ fs' = [fs EXCEPT ![Target(i)].bytes = @ \o Retrieved]
          /\ UNCHANGED lost
       \/ /\ "fwrite" \in ToolFaults
          /\ lost' = lost \union {i}
          /\ UNCHANGED fs
    /\ UNCHANGED <<job, step, reader, chm, i, incomplete, listing, ok>>

\* Nothing could be read: the file stays as it is and counts as extracted.
Incomplete ==
    /\ step = "copy"
    /\ offset # e.length
    /\ Retrieved = <<>>
    /\ incomplete' = incomplete \union {i}
    /\ NextEntry
    /\ UNCHANGED <<job, reader, chm, offset, fs, lost, listing, ok>>

FileDone ==
    /\ step = "copy"
    /\ offset = e.length
    /\ NextEntry
    /\ UNCHANGED <<job, reader, chm, fileVars, listing, ok>>

-----------------------------------------------------------------------------

ToolNext ==
    \/ OpenReader
    \/ ParseArchive
    \/ ParseFails
    \/ EntriesDone
    \/ CloseAll
    \/ PrintEntry
    \/ ProcessEntry
    \/ Skip
    \/ PathTooLong
    \/ ExtractDir
    \/ OpenFile
    \/ Copy
    \/ Incomplete
    \/ FileDone

-----------------------------------------------------------------------------
(* Properties *)

ToolTypeOK ==
    /\ step \in {"init", "parse", "entry", "copy", "close", "returned"}
    /\ {reader, chm, ok} \subseteq BOOLEAN
    /\ i \in 1 .. n_entries + 1
    /\ offset \in Nat
    /\ IsFileSystem(fs)
    /\ incomplete \union lost \subseteq 1 .. n_entries

\* The content of an entry, as far as the archive can give it.
Given(k) == [n \in 1 .. job.entries[k].given |-> <<k, n - 1>>]

\* Entry k is where its path says: a directory, or a file that holds the whole
\* entry.  A file that does not is one extract has called incomplete, with
\* what could be read of it, or one that fwrite has failed on.
ExtractedEntry(k) ==
    IF job.entries[k].kind = "dir" THEN IsDir(fs, Target(k))
    ELSE /\ Target(k) \in DOMAIN fs
         /\ \/ fs[Target(k)] = File(Given(k)) /\ job.entries[k].given = job.entries[k].length
            \/ fs[Target(k)] = File(Given(k)) /\ k \in incomplete
            \/ k \in lost

\* The same file is written again by a later entry with its path.
Overwritten(k) == \E m \in k + 1 .. IF step = "copy" THEN i ELSE i - 1 :
    job.entries[m].kind = "file" /\ Target(m) = Target(k)

\* extract stops at the first entry it cannot write: what comes before it has
\* been extracted, whatever was there before, and it reports success only
\* when that is every entry of a complete directory.
ExtractsInOrder ==
    job.tool = "extract" =>
        /\ \A k \in 1 .. i - 1 : Skipped(k) \/ Overwritten(k) \/ ExtractedEntry(k)
        /\ step = "returned" /\ ok => i > n_entries /\ ~job.parse_entries_failed

\* A tool that returns has closed the archive and the reader, except that enum
\* does not after a partial directory.
ToolClosesUp ==
    step = "returned" =>
        \/ ~chm /\ ~reader
        \/ job.tool = "enum" /\ job.parse_entries_failed
=============================================================================
