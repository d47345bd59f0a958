--------------------------- MODULE ChmClientsProofs ---------------------------
(***************************************************************************)
(* Theorems about the programs that use the library on one thread, for any *)
(* jobs and books and whatever fails: what extract has written when it     *)
(* stops, that the tools close what they open, and that the loops of the   *)
(* cover finder come to the cover its stages amount to.                    *)
(***************************************************************************)
EXTENDS ChmClients, NumberFacts

-----------------------------------------------------------------------------
(* The file system *)

\* What mkdir makes is added to what is there.
LEMMA WithDirsAdds ==
    ASSUME NEW f, NEW paths, IsFileSystem(f)
    PROVE  /\ IsFileSystem(WithDirs(f, paths))
           /\ \A p \in DOMAIN f : /\ p \in DOMAIN WithDirs(f, paths)
                                  /\ WithDirs(f, paths)[p] = f[p]
  <1> DEFINE g == WithDirs(f, paths)
  <1>1. \A p \in DOMAIN g : g[p] = IF p \in DOMAIN f THEN f[p] ELSE Dir
    BY DEF WithDirs
  <1>2. \A p \in DOMAIN f : p \in DOMAIN g
    BY DEF WithDirs
  <1>3. IsFileSystem(g)
    BY <1>1 DEF IsFileSystem
  <1>4. QED
    BY <1>1, <1>2, <1>3

\* A file system with at least what f has, and nothing of it changed.
Extends(g, f) ==
    /\ IsFileSystem(g)
    /\ \A p \in DOMAIN f : p \in DOMAIN g /\ g[p] = f[p]

LEMMA RmkdirAdds ==
    ASSUME NEW f, NEW path, IsFileSystem(f), NEW g \in rmkdir(f, path)
    PROVE  Extends(g, f)
  <1>1. g = f \/ \E paths : g = WithDirs(f, paths)
    BY DEF rmkdir
  <1>2. QED
    BY <1>1, WithDirsAdds DEF Extends

LEMMA RmkdirSlashAdds ==
    ASSUME NEW f, NEW path, IsFileSystem(f), NEW g \in rmkdirSlash(f, path)
    PROVE  Extends(g, f)
  <1>1. CASE Len(path) = 1 /\ path \notin DOMAIN f
    <2>1. g = f \/ g = WithDirs(f, {path})
      BY <1>1 DEF rmkdirSlash
    <2>2. QED
      BY <2>1, WithDirsAdds DEF Extends
  <1>2. CASE ~(Len(path) = 1 /\ path \notin DOMAIN f)
    <2>1. g \in rmkdir(f, path)
      BY <1>2 DEF rmkdirSlash
    <2>2. QED
      BY <2>1, RmkdirAdds
  <1>3. QED
    BY <1>1, <1>2

\* Opening a file to write it changes nothing else.
LEMMA OpenedChanges ==
    ASSUME NEW f, NEW path, IsFileSystem(f)
    PROVE  /\ IsFileSystem(Opened(f, path))
           /\ path \in DOMAIN Opened(f, path)
           /\ Opened(f, path)[path] = File(<<>>)
           /\ \A p \in DOMAIN f \ {path} : /\ p \in DOMAIN Opened(f, path)
                                           /\ Opened(f, path)[p] = f[p]
  <1> DEFINE g == Opened(f, path)
  <1>1. \A p \in DOMAIN g : g[p] = IF p = path THEN File(<<>>) ELSE f[p]
    BY DEF Opened
  <1>2. DOMAIN g = DOMAIN f \union {path}
    BY DEF Opened
  <1>3. File(<<>>).bytes = <<>>
    BY DEF File
  <1>4. IsFileSystem(g)
    BY <1>1, <1>2, <1>3 DEF IsFileSystem
  <1>5. QED
    BY <1>1, <1>2, <1>4

\* So does writing to a file.
LEMMA WrittenKeeps ==
    ASSUME NEW f, NEW g, NEW path, NEW bytes, IsFileSystem(f), DOMAIN g = DOMAIN f,
           \A p \in DOMAIN f \ {path} : g[p] = f[p], g[path] = File(bytes)
    PROVE  IsFileSystem(g)
  <1>1. File(bytes).bytes = bytes
    BY DEF File
  <1>2. QED
    BY <1>1 DEF IsFileSystem

\* A file is no directory.
LEMMA FileIsNoDir ==
    ASSUME NEW bytes
    PROVE  File(bytes) # Dir
  BY DEF File, Dir

-----------------------------------------------------------------------------
(* The invariant of the tools *)

\* extract_entry is at a file it has opened, with as much of it written as it
\* has read, as long as fwrite has not failed.
Copying ==
    step = "copy" =>
        /\ job.tool = "extract"
        /\ i <= n_entries
        /\ e.kind = "file"
        /\ offset \in 0 .. e.given
        /\ Target(i) \in DOMAIN fs
        /\ fs[Target(i)] # Dir
        /\ i \in lost \/ fs[Target(i)] = File([n \in 1 .. offset |-> <<i, n - 1>>])

\* What is open at each step.
Opens ==
    /\ step = "init" => ~reader /\ ~chm
    /\ step = "parse" => ~chm
    /\ ToolClosesUp

\* extract reports success when it has come to the end of the entries.
Reports ==
    job.tool = "extract" /\ ok =>
        step \in {"close", "returned"} /\ i > n_entries /\ ~job.parse_entries_failed

Done(k) == Skipped(k) \/ Overwritten(k) \/ ExtractedEntry(k)

Passed == job.tool = "extract" => \A k \in 1 .. i - 1 : Done(k)

ToolInv ==
    /\ job \in Jobs
    /\ ToolTypeOK
    /\ Copying
    /\ Opens
    /\ Reports
    /\ Passed

\* What the proofs use of a job.
LEMMA JobFacts ==
    ASSUME NEW j \in Jobs
    PROVE  /\ Len(j.entries) \in Nat
           /\ DOMAIN j.entries = 1 .. Len(j.entries)
           /\ j.parse_entries_failed \in BOOLEAN
           /\ IsFileSystem(j.files)
           /\ \A k \in 1 .. Len(j.entries) :
                /\ j.entries[k].length \in Int
                /\ j.entries[k].given \in Nat
                /\ j.entries[k].given = 0 \/ j.entries[k].given <= j.entries[k].length
  <1>1. j.entries \in Seq(Range(j.entries))
    BY JobsAssumption
  <1>2. Len(j.entries) \in Nat /\ DOMAIN j.entries = 1 .. Len(j.entries)
    BY <1>1
  <1>3. QED
    BY <1>2, JobsAssumption

LEMMA ToolInitInv ==
    ASSUME NEW j \in Jobs, ToolInit(j)
    PROVE  ToolInv
  <1>1. job \in Jobs /\ n_entries \in Nat /\ IsFileSystem(fs)
    BY JobFacts DEF ToolInit, n_entries
  <1>2. ToolTypeOK
    <2>1. i \in 1 .. n_entries + 1
      BY <1>1 DEF ToolInit
    <2>2. {reader, chm, ok} \subseteq BOOLEAN
      BY DEF ToolInit
    <2>3. QED
      BY <1>1, <2>1, <2>2 DEF ToolInit, ToolTypeOK
  <1>3. Copying /\ Opens /\ Reports /\ Passed
    BY <1>1 DEF ToolInit, Copying, Opens, ToolClosesUp, Reports, Passed
  <1>4. QED
    BY <1>1, <1>2, <1>3 DEF ToolInv

\* Up to where extract has come: entries it may have overwritten others with.
Reached == IF step = "copy" THEN i ELSE i - 1

\* What has been extracted stays, or is written again: when files and
\* directories are added, and when the file the tool is at changes.
LEMMA PassedStays ==
    ASSUME ToolInv, job' = job, job.tool = "extract",
           i' \in Int, Reached' \in Int, Reached <= Reached',
           incomplete \subseteq incomplete', lost \subseteq lost',
           DOMAIN fs \subseteq DOMAIN fs',
           \A p \in DOMAIN fs :
               \/ fs'[p] = fs[p]
               \/ p = Target(i) /\ e.kind = "file" /\ fs[p] # Dir /\ i = Reached'
    PROVE  \A k \in 1 .. i - 1 : Done(k)'
  <1> SUFFICES ASSUME NEW k \in 1 .. i - 1
               PROVE  Done(k)'
    OBVIOUS
  <1>0. i \in 1 .. n_entries + 1 /\ n_entries \in Nat
    BY JobFacts DEF ToolInv, ToolTypeOK, n_entries
  <1>6. Reached \in Int
    BY <1>0 DEF Reached
  <1>1. Done(k)
    BY DEF ToolInv, Passed
  <1>2. CASE Skipped(k)
    BY <1>2 DEF Skipped, Done
  <1>3. CASE Overwritten(k)
    <2>1. PICK m \in k + 1 .. Reached :
            job.entries[m].kind = "file" /\ Target(m) = Target(k)
      BY <1>3 DEF Overwritten, Reached
    <2>2. m \in k + 1 .. Reached'
      BY <1>0, <1>6, <2>1
    <2>3. (job.entries[m].kind = "file" /\ Target(m) = Target(k))'
      BY <2>1 DEF Target
    <2>4. Overwritten(k)'
      BY <2>2, <2>3 DEF Overwritten, Reached
    <2>5. QED
      BY <2>4 DEF Done
  <1>4. CASE ExtractedEntry(k) /\ ~Overwritten(k)'
    <2>1. Target(k)' = Target(k) /\ Given(k)' = Given(k)
      BY DEF Target, Given
    <2>2. Target(k) \in DOMAIN fs => fs'[Target(k)] = fs[Target(k)] \/ fs[Target(k)] # Dir
      OBVIOUS
    <2>3. CASE job.entries[k].kind = "dir"
      BY <1>4, <2>1, <2>2, <2>3 DEF ExtractedEntry, IsDir, Done
    <2>4. CASE job.entries[k].kind # "dir"
      <3>1. Target(k) \in DOMAIN fs
        BY <1>4, <2>4 DEF ExtractedEntry
      <3>2. fs'[Target(k)] = fs[Target(k)]
        <4> SUFFICES ASSUME fs'[Target(k)] # fs[Target(k)]
                     PROVE  FALSE
          OBVIOUS
        <4>1. Target(k) = Target(i) /\ job.entries[i].kind = "file" /\ i = Reached'
          BY <3>1 DEF e
        <4>7. i \in k + 1 .. i
          BY <1>0
        <4>2. i \in k + 1 .. Reached'
          BY <4>1, <4>7
        <4>3. (job.entries[i].kind = "file" /\ Target(i) = Target(k))
          BY <4>1
        <4>5. \E m \in k + 1 .. Reached' :
                 job'.entries[m].kind = "file" /\ job'.base \o job'.entries[m].path
                                                   = job'.base \o job'.entries[k].path
          BY <4>2, <4>3 DEF Target
        <4>4. Overwritten(k)'
          BY <4>5 DEF Overwritten, Reached, Target
        <4>6. QED
          BY <1>4, <4>4
      <3>3. Target(k) \in DOMAIN fs'
        BY <3>1
      <3>4. \/ fs[Target(k)] = File(Given(k)) /\ job.entries[k].given = job.entries[k].length
            \/ fs[Target(k)] = File(Given(k)) /\ k \in incomplete
            \/ k \in lost
        BY <1>4, <2>4 DEF ExtractedEntry
      <3>5. ExtractedEntry(k)'
        BY <2>1, <2>4, <3>2, <3>3, <3>4 DEF ExtractedEntry
      <3>6. QED
        BY <3>5 DEF Done
    <2>5. QED
      BY <2>3, <2>4
  <1>5. QED
    BY <1>1, <1>2, <1>3, <1>4 DEF Done

\* The steps that write nothing and do not come past an entry.
LEMMA QuietStep ==
    ASSUME ToolInv, UNCHANGED <<job, i, fileVars>>, step # "copy", step' # "copy"
    PROVE  Copying' /\ Passed'
  <1>1. i \in Int
    BY DEF ToolInv, ToolTypeOK
  <1>2. Reached' \in Int /\ Reached = Reached'
    BY <1>1 DEF Reached
  <1>3. ASSUME job.tool = "extract"
        PROVE  \A k \in 1 .. i - 1 : Done(k)'
    BY <1>1, <1>2, <1>3, PassedStays DEF fileVars
  <1>4. Passed'
    BY <1>3 DEF Passed
  <1>5. Copying'
    BY DEF Copying
  <1>6. QED
    BY <1>4, <1>5

\* The steps that come past an entry, which is done with then.
LEMMA EntryStep ==
    ASSUME ToolInv, NextEntry, UNCHANGED <<job, reader, chm, ok>>, ToolTypeOK',
           step \in {"entry", "copy"}, i <= n_entries,
           job.tool = "extract" =>
             /\ incomplete \subseteq incomplete' /\ lost \subseteq lost'
             /\ DOMAIN fs \subseteq DOMAIN fs'
             /\ \A p \in DOMAIN fs : fs'[p] = fs[p]
             /\ \A k \in {i} : Done(k)'
    PROVE  ToolInv'
  <1>1. /\ i \in 1 .. n_entries /\ n_entries \in Nat
        /\ i' = i + 1 /\ step' = "entry"
    BY JobFacts DEF ToolInv, ToolTypeOK, NextEntry, n_entries
  <1>2. Reached' \in Int /\ Reached <= Reached' /\ i' \in Int
    BY <1>1 DEF Reached
  <1>3. Passed'
    <2>1. CASE job.tool = "extract"
      <3>1. \A k \in 1 .. i - 1 : Done(k)'
        BY <1>2, <2>1, PassedStays
      <3>2. \A k \in {i} : Done(k)'
        BY <2>1
      <3>3. ASSUME NEW k \in 1 .. i' - 1
            PROVE  Done(k)'
        <4>1. k \in 1 .. i - 1 \/ k = i
          BY <1>1
        <4>2. QED
          BY <3>1, <3>2, <4>1
      <3>4. QED
        BY <3>3 DEF Passed
    <2>2. CASE job.tool # "extract"
      BY <2>2 DEF Passed
    <2>3. QED
      BY <2>1, <2>2
  <1>4. Copying' /\ Opens'
    BY <1>1 DEF Copying, Opens, ToolClosesUp
  <1>5. Reports'
    BY <1>1 DEF ToolInv, Reports, n_entries
  <1>6. QED
    BY <1>3, <1>4, <1>5 DEF ToolInv

\* The steps at which the loop over the entries fails.
LEMMA LoopFails ==
    ASSUME ToolInv, LoopEnds(FALSE), UNCHANGED <<job, reader, chm, i, offset, incomplete, lost>>,
           step = "entry", Extends(fs', fs)
    PROVE  ToolInv'
  <1>1. i \in Int /\ step' = "close" /\ ok' = FALSE
    BY DEF ToolInv, ToolTypeOK, LoopEnds
  <1>2. Reached' \in Int /\ Reached <= Reached'
    BY <1>1 DEF Reached
  <1>3. Passed'
    <2>1. ASSUME job.tool = "extract"
          PROVE  \A k \in 1 .. i - 1 : Done(k)'
      BY <1>1, <1>2, <2>1, PassedStays DEF Extends
    <2>2. QED
      BY <2>1 DEF Passed
  <1>4. ToolTypeOK'
    <2>1. {reader, chm, ok}' \subseteq BOOLEAN
      BY <1>1 DEF ToolInv, ToolTypeOK
    <2>2. QED
      BY <1>1, <2>1 DEF ToolInv, ToolTypeOK, Extends, n_entries
  <1>5. Copying' /\ Opens' /\ Reports'
    BY <1>1 DEF Copying, Opens, ToolClosesUp, Reports
  <1>6. QED
    BY <1>3, <1>4, <1>5 DEF ToolInv

-----------------------------------------------------------------------------
(* The steps of the tools *)

LEMMA OpenReaderKeeps ==
    ASSUME ToolInv, OpenReader
    PROVE  ToolInv'
  <1>1. Copying' /\ Passed'
    BY QuietStep DEF OpenReader, Return
  <1>2. ToolTypeOK'
    <2>1. {reader, chm, ok}' \subseteq BOOLEAN
      BY DEF ToolInv, ToolTypeOK, OpenReader, Return
    <2>2. QED
      BY <2>1 DEF ToolInv, ToolTypeOK, OpenReader, Return, fileVars, n_entries
  <1>3. Opens' /\ Reports'
    BY DEF ToolInv, Opens, ToolClosesUp, Reports, OpenReader, Return
  <1>4. QED
    BY <1>1, <1>2, <1>3 DEF ToolInv, OpenReader

LEMMA ParseArchiveKeeps ==
    ASSUME ToolInv, ParseArchive
    PROVE  ToolInv'
  <1>1. Copying' /\ Passed'
    BY QuietStep DEF ParseArchive
  <1>2. ToolTypeOK'
    <2>1. {reader, chm, ok}' \subseteq BOOLEAN
      BY DEF ToolInv, ToolTypeOK, ParseArchive
    <2>2. QED
      BY <2>1 DEF ToolInv, ToolTypeOK, ParseArchive, fileVars, n_entries
  <1>3. Opens' /\ Reports'
    BY DEF ToolInv, Opens, ToolClosesUp, Reports, ParseArchive
  <1>4. QED
    BY <1>1, <1>2, <1>3 DEF ToolInv, ParseArchive

LEMMA ParseFailsKeeps ==
    ASSUME ToolInv, ParseFails
    PROVE  ToolInv'
  <1>1. Copying' /\ Passed'
    BY QuietStep DEF ParseFails, Return
  <1>2. ToolTypeOK'
    <2>1. {reader, chm, ok}' \subseteq BOOLEAN
      BY DEF ToolInv, ToolTypeOK, ParseFails, Return
    <2>2. QED
      BY <2>1 DEF ToolInv, ToolTypeOK, ParseFails, Return, fileVars, n_entries
  <1>3. Opens' /\ Reports'
    BY DEF ToolInv, Opens, ToolClosesUp, Reports, ParseFails, Return
  <1>4. QED
    BY <1>1, <1>2, <1>3 DEF ToolInv, ParseFails

LEMMA EntriesDoneKeeps ==
    ASSUME ToolInv, EntriesDone
    PROVE  ToolInv'
  <1>1. Copying' /\ Passed'
    BY QuietStep DEF EntriesDone, Return, LoopEnds
  <1>2. ToolTypeOK'
    <2>1. {reader, chm, ok}' \subseteq BOOLEAN
      BY JobFacts DEF ToolInv, ToolTypeOK, EntriesDone, Return, LoopEnds
    <2>2. QED
      BY <2>1 DEF ToolInv, ToolTypeOK, EntriesDone, Return, LoopEnds, fileVars, n_entries
  <1>3. Opens'
    BY DEF ToolInv, Opens, ToolClosesUp, EntriesDone, Return, LoopEnds
  <1>5. Reports'
    BY DEF ToolInv, Reports, EntriesDone, Return, LoopEnds, n_entries
  <1>4. QED
    BY <1>1, <1>2, <1>3, <1>5 DEF ToolInv, EntriesDone

LEMMA CloseAllKeeps ==
    ASSUME ToolInv, CloseAll
    PROVE  ToolInv'
  <1>1. Copying' /\ Passed'
    BY QuietStep DEF CloseAll, Return
  <1>2. ToolTypeOK'
    <2>1. {reader, chm, ok}' \subseteq BOOLEAN
      BY DEF ToolInv, ToolTypeOK, CloseAll, Return
    <2>2. QED
      BY <2>1 DEF ToolInv, ToolTypeOK, CloseAll, Return, fileVars, n_entries
  <1>3. Opens' /\ Reports'
    BY DEF ToolInv, Opens, ToolClosesUp, Reports, CloseAll, Return, n_entries
  <1>4. QED
    BY <1>1, <1>2, <1>3 DEF ToolInv, CloseAll

LEMMA NextEntryType ==
    ASSUME ToolInv, NextEntry, UNCHANGED <<job, reader, chm, ok, offset>>, i <= n_entries,
           IsFileSystem(fs'), incomplete' \union lost' \subseteq 1 .. n_entries
    PROVE  ToolTypeOK'
  <1>1. n_entries' = n_entries /\ n_entries \in Nat /\ i \in 1 .. n_entries + 1
    BY JobFacts DEF ToolInv, ToolTypeOK, n_entries
  <1>2. i' \in 1 .. n_entries' + 1
    BY <1>1 DEF NextEntry
  <1>3. {reader, chm, ok}' \subseteq BOOLEAN
    BY DEF ToolInv, ToolTypeOK
  <1>4. QED
    BY <1>1, <1>2, <1>3 DEF ToolInv, ToolTypeOK, NextEntry

LEMMA ListingKeeps ==
    ASSUME ToolInv, PrintEntry \/ ProcessEntry
    PROVE  ToolInv'
  <1>1. /\ job.tool # "extract" /\ step = "entry" /\ i <= n_entries
        /\ UNCHANGED <<job, reader, chm, fileVars>>
        /\ \/ NextEntry /\ UNCHANGED ok
           \/ LoopEnds(FALSE) /\ UNCHANGED i
    BY DEF PrintEntry, ProcessEntry, AtEntry
  <1>2. CASE NextEntry /\ UNCHANGED ok
    <2>1. ToolTypeOK'
      BY <1>1, <1>2, NextEntryType DEF ToolInv, ToolTypeOK, fileVars
    <2>2. QED
      BY <1>1, <1>2, <2>1, EntryStep
  <1>3. CASE LoopEnds(FALSE) /\ UNCHANGED i
    <2>1. Extends(fs', fs)
      BY <1>1 DEF fileVars, ToolInv, ToolTypeOK, Extends
    <2>2. QED
      BY <1>1, <1>3, <2>1, LoopFails DEF fileVars
  <1>4. QED
    BY <1>1, <1>2, <1>3

LEMMA SkipKeeps ==
    ASSUME ToolInv, Skip
    PROVE  ToolInv'
  <1>1. /\ step = "entry" /\ i <= n_entries
        /\ NextEntry /\ UNCHANGED <<job, reader, chm, ok, fileVars>>
    BY DEF Skip, AtEntry
  <1>2. ToolTypeOK'
    BY <1>1, NextEntryType DEF ToolInv, ToolTypeOK, fileVars
  <1>3. \A k \in {i} : Done(k)'
    BY <1>1 DEF Skip, Skipped, Done
  <1>4. QED
    BY <1>1, <1>2, <1>3, EntryStep DEF fileVars

LEMMA PathTooLongKeeps ==
    ASSUME ToolInv, PathTooLong
    PROVE  ToolInv'
  <1>1. Extends(fs', fs)
    BY DEF PathTooLong, fileVars, ToolInv, ToolTypeOK, Extends
  <1>2. QED
    BY <1>1, LoopFails DEF PathTooLong, AtEntry, fileVars

LEMMA ExtractDirKeeps ==
    ASSUME ToolInv, ExtractDir
    PROVE  ToolInv'
  <1>1. /\ step = "entry" /\ i <= n_entries /\ e.kind = "dir" /\ IsFileSystem(fs)
        /\ UNCHANGED <<job, reader, chm, offset, incomplete, lost>>
    BY DEF ExtractDir, AtEntry, ToolInv, ToolTypeOK
  <1>2. Extends(fs', fs)
    BY <1>1, RmkdirSlashAdds DEF ExtractDir
  <1>3. CASE IsDir(fs', Target(i)) /\ NextEntry /\ UNCHANGED ok
    <2>1. ToolTypeOK'
      BY <1>1, <1>2, <1>3, NextEntryType DEF ToolInv, ToolTypeOK, Extends
    <2>2. \A k \in {i} : Done(k)'
      BY <1>1, <1>3 DEF Done, ExtractedEntry, e, Target
    <2>3. QED
      BY <1>1, <1>2, <1>3, <2>1, <2>2, EntryStep DEF Extends
  <1>4. CASE LoopEnds(FALSE) /\ UNCHANGED i
    BY <1>1, <1>2, <1>4, LoopFails
  <1>5. QED
    BY <1>3, <1>4 DEF ExtractDir

\* Where a file is opened, what else there is stays, and there is no
\* directory.
LEMMA OpenFileKeeps ==
    ASSUME ToolInv, OpenFile
    PROVE  ToolInv'
  <1>1. /\ step = "entry" /\ i <= n_entries /\ e.kind = "file" /\ IsFileSystem(fs)
        /\ job.tool = "extract" /\ i \in 1 .. n_entries /\ n_entries \in Nat
        /\ UNCHANGED <<job, reader, chm, i, incomplete, lost>>
    BY JobFacts DEF OpenFile, AtEntry, ToolInv, ToolTypeOK, n_entries
  <1>2. PICK f \in IF CanOpen(fs, Target(i)) THEN {fs} ELSE rmkdir(fs, Front(Target(i))) :
         \/ /\ CanOpen(f, Target(i))
            /\ fs' = Opened(f, Target(i))
            /\ step' = "copy" /\ offset' = 0
            /\ UNCHANGED ok
         \/ /\ fs' = f
            /\ LoopEnds(FALSE)
            /\ UNCHANGED offset
    BY DEF OpenFile
  <1>3. Extends(f, fs)
    BY <1>1, RmkdirAdds DEF Extends
  <1>4. CASE fs' = f /\ LoopEnds(FALSE) /\ UNCHANGED offset
    BY <1>1, <1>3, <1>4, LoopFails
  <1>5. CASE /\ CanOpen(f, Target(i))
             /\ fs' = Opened(f, Target(i))
             /\ step' = "copy" /\ offset' = 0
             /\ UNCHANGED ok
    <2>1. /\ IsFileSystem(fs') /\ Target(i) \in DOMAIN fs' /\ fs'[Target(i)] = File(<<>>)
          /\ \A p \in DOMAIN f \ {Target(i)} : p \in DOMAIN fs' /\ fs'[p] = f[p]
      BY <1>3, <1>5, OpenedChanges DEF Extends
    <2>2. Target(i) \in DOMAIN fs => fs[Target(i)] # Dir
      BY <1>3, <1>5 DEF CanOpen, IsDir, Extends
    <2>3. ToolTypeOK'
      <3>1. {reader, chm, ok}' \subseteq BOOLEAN
        BY <1>1, <1>5 DEF ToolInv, ToolTypeOK
      <3>2. QED
        BY <1>1, <1>5, <2>1, <3>1 DEF ToolInv, ToolTypeOK, n_entries
    <2>4. Copying'
      <3>1. Target(i)' = Target(i) /\ e' = e /\ n_entries' = n_entries
        BY <1>1 DEF Target, e, n_entries
      <3>2. e.given \in Nat
        BY <1>1, JobFacts DEF ToolInv, e, n_entries
      <3>3. [n \in 1 .. 0 |-> <<i, n - 1>>] = <<>>
        OBVIOUS
      <3>4. fs'[Target(i)] = File([n \in 1 .. offset' |-> <<i', n - 1>>])
        BY <1>1, <1>5, <2>1, <3>3
      <3>5. offset' \in 0 .. e.given /\ fs'[Target(i)] # Dir
        BY <1>5, <2>1, <3>2, FileIsNoDir
      <3>6. QED
        BY <1>1, <2>1, <3>1, <3>4, <3>5 DEF Copying
    <2>5. Passed'
      <3>1. Reached = i - 1 /\ Reached' = i
        BY <1>1, <1>5 DEF Reached
      <3>2. /\ DOMAIN fs \subseteq DOMAIN fs'
            /\ \A p \in DOMAIN fs :
                 \/ fs'[p] = fs[p]
                 \/ p = Target(i) /\ e.kind = "file" /\ fs[p] # Dir /\ i = Reached'
        BY <1>1, <1>3, <2>1, <2>2, <3>1 DEF Extends
      <3>3. Reached' \in Int /\ Reached <= Reached' /\ i' \in Int
        BY <1>1, <3>1
      <3>4. \A k \in 1 .. i - 1 : Done(k)'
        BY <1>1, <3>2, <3>3, PassedStays
      <3>5. QED
        BY <1>1, <3>4 DEF Passed
    <2>6. Opens' /\ Reports'
      BY <1>1, <1>5 DEF ToolInv, Opens, ToolClosesUp, Reports
    <2>7. QED
      BY <1>1, <2>3, <2>4, <2>5, <2>6 DEF ToolInv
  <1>6. QED
    BY <1>2, <1>4, <1>5

\* What the tool asks for next, of what is left of the entry.
LEMMA RetrievedIs ==
    ASSUME ToolInv, step = "copy"
    PROVE  /\ Len(Retrieved) \in Nat /\ offset + Len(Retrieved) <= e.given
           /\ Retrieved = [k \in 1 .. Len(Retrieved) |-> <<i, offset + k - 1>>]
           /\ Retrieved = <<>> => offset = e.given
  <1> DEFINE n == IF offset + BufLen < e.given THEN BufLen ELSE e.given - offset
  <1>1. i <= n_entries /\ offset \in 0 .. e.given /\ e.given \in Nat
    <2>1. i \in 1 .. n_entries /\ n_entries \in Nat
      BY JobFacts DEF ToolInv, ToolTypeOK, Copying, n_entries
    <2>2. QED
      BY <2>1, JobFacts DEF ToolInv, Copying, e, n_entries
  <1>2. n \in Nat /\ offset + n <= e.given /\ (n = 0 => offset = e.given)
    BY <1>1, ToolAssumption
  <1>3. Retrieved = [k \in 1 .. n |-> <<i, offset + k - 1>>]
    BY DEF Retrieved
  <1> HIDE DEF n
  <1>4. Len(Retrieved) = n
    BY <1>2, <1>3
  <1>5. Retrieved = <<>> => n = 0
    BY <1>4
  <1>6. QED
    BY <1>2, <1>3, <1>4, <1>5

\* Pieces of an entry that follow each other are one piece.
LEMMA PiecesJoin ==
    ASSUME NEW x, NEW a \in Nat, NEW b \in Nat
    PROVE  [n \in 1 .. a |-> <<x, n - 1>>] \o [k \in 1 .. b |-> <<x, a + k - 1>>]
             = [n \in 1 .. a + b |-> <<x, n - 1>>]
  <1> DEFINE s == [n \in 1 .. a |-> <<x, n - 1>>]
             t == [k \in 1 .. b |-> <<x, a + k - 1>>]
             u == [n \in 1 .. a + b |-> <<x, n - 1>>]
             P == {<<x, n>> : n \in Int}
  <1>1. s \in Seq(P) /\ t \in Seq(P) /\ u \in Seq(P)
    OBVIOUS
  <1>2. Len(s) = a /\ Len(t) = b /\ Len(u) = a + b
    OBVIOUS
  <1>3. \A n \in 1 .. a + b : (s \o t)[n] = u[n]
    <2> SUFFICES ASSUME NEW n \in 1 .. a + b
                 PROVE  (s \o t)[n] = u[n]
      OBVIOUS
    <2>1. CASE n <= a
      BY <2>1, <1>1, <1>2
    <2>2. CASE n > a
      <3>1. n - a \in 1 .. b /\ t[n - a] = <<x, n - 1>>
        BY <2>2
      <3>2. (s \o t)[n] = t[n - a]
        <4> HIDE DEF s, t
        <4>1. QED
          BY <2>2, <1>1, <1>2
      <3>3. QED
        BY <3>1, <3>2
    <2>3. QED
      BY <2>1, <2>2
  <1>4. s \o t \in Seq(P) /\ Len(s \o t) = a + b
    <2> HIDE DEF s, t, P
    <2>1. QED
      BY <1>1, <1>2
  <1> HIDE DEF s, t, u
  <1>5. QED
    BY <1>1, <1>2, <1>3, <1>4

LEMMA CopyKeeps ==
    ASSUME ToolInv, Copy
    PROVE  ToolInv'
  <1>1. /\ step = "copy" /\ step' = "copy" /\ offset' = offset + Len(Retrieved)
        /\ UNCHANGED <<job, reader, chm, i, incomplete, ok>>
    BY DEF Copy
  <1>2. /\ job.tool = "extract" /\ i <= n_entries /\ e.kind = "file"
        /\ offset \in 0 .. e.given /\ Target(i) \in DOMAIN fs /\ fs[Target(i)] # Dir
        /\ i \in lost \/ fs[Target(i)] = File([n \in 1 .. offset |-> <<i, n - 1>>])
    BY <1>1 DEF ToolInv, Copying
  <1>3. /\ i \in 1 .. n_entries /\ n_entries \in Nat /\ IsFileSystem(fs)
        /\ lost \subseteq 1 .. n_entries
    BY <1>1, <1>2, JobFacts DEF ToolInv, ToolTypeOK, n_entries
  <1>4. /\ Len(Retrieved) \in Nat /\ offset + Len(Retrieved) <= e.given
        /\ Retrieved = [k \in 1 .. Len(Retrieved) |-> <<i, offset + k - 1>>]
    BY <1>1, RetrievedIs
  <1>5. e.given \in Nat
    BY <1>3, JobFacts DEF ToolInv, e, n_entries
  <1>6. lost \subseteq lost' /\ lost' \subseteq 1 .. n_entries
    BY <1>3 DEF Copy
  <1>7. /\ IsFileSystem(fs')
        /\ DOMAIN fs' = DOMAIN fs /\ fs'[Target(i)] # Dir
        /\ \A p \in DOMAIN fs \ {Target(i)} : fs'[p] = fs[p]
        /\ i \in lost' \/ fs'[Target(i)] = File([n \in 1 .. offset' |-> <<i, n - 1>>])
    <2>1. CASE fs' = [fs EXCEPT ![Target(i)].bytes = @ \o Retrieved] /\ UNCHANGED lost
      <3> DEFINE old == fs[Target(i)].bytes
      <3>1. fs[Target(i)] = File(old)
        BY <1>2, <1>3 DEF IsFileSystem
      <3>2. fs' = [fs EXCEPT ![Target(i)].bytes = old \o Retrieved]
        BY <2>1
      <3> HIDE DEF old
      <3>3. /\ IsFileSystem(fs') /\ DOMAIN fs' = DOMAIN fs
            /\ fs'[Target(i)] = File(old \o Retrieved)
            /\ \A p \in DOMAIN fs \ {Target(i)} : fs'[p] = fs[p]
        <4>1. /\ DOMAIN fs' = DOMAIN fs
              /\ \A p \in DOMAIN fs \ {Target(i)} : fs'[p] = fs[p]
              /\ fs'[Target(i)] = [File(old) EXCEPT !.bytes = old \o Retrieved]
          BY <1>2, <3>1, <3>2
        <4>2. fs'[Target(i)] = File(old \o Retrieved)
          BY <4>1 DEF File
        <4>3. IsFileSystem(fs')
          BY <1>3, <4>1, <4>2, WrittenKeeps
        <4>4. QED
          BY <4>1, <4>2, <4>3
      <3>4. fs[Target(i)] = File([n \in 1 .. offset |-> <<i, n - 1>>])
              => old = [n \in 1 .. offset |-> <<i, n - 1>>]
        BY <3>1 DEF File
      <3>5. [n \in 1 .. offset |-> <<i, n - 1>>] \o Retrieved
              = [n \in 1 .. offset' |-> <<i, n - 1>>]
        <4> DEFINE m == Len(Retrieved)
        <4>1. m \in Nat /\ offset \in Nat /\ offset' = offset + m
              /\ Retrieved = [k \in 1 .. m |-> <<i, offset + k - 1>>]
          BY <1>1, <1>2, <1>4, <1>5
        <4> HIDE DEF m
        <4>2. QED
          BY <4>1, PiecesJoin
      <3>6. QED
        BY <1>2, <2>1, <3>3, <3>4, <3>5, FileIsNoDir
    <2>2. CASE lost' = lost \union {i} /\ UNCHANGED fs
      BY <1>2, <1>3, <2>2
    <2>3. QED
      BY <2>1, <2>2 DEF Copy
  <1>8. ToolTypeOK'
    <2>1. {reader, chm, ok}' \subseteq BOOLEAN
      BY <1>1 DEF ToolInv, ToolTypeOK
    <2>2. offset' \in Nat
      BY <1>1, <1>2, <1>4, <1>5
    <2>3. QED
      BY <1>1, <1>6, <1>7, <2>1, <2>2 DEF ToolInv, ToolTypeOK, n_entries
  <1>9. Copying'
    <2>1. Target(i)' = Target(i) /\ e' = e /\ n_entries' = n_entries
      BY <1>1 DEF Target, e, n_entries
    <2>2. offset' \in 0 .. e.given
      BY <1>1, <1>2, <1>4, <1>5
    <2>3. fs'[Target(i)] = File([n \in 1 .. offset' |-> <<i, n - 1>>])
            => fs'[Target(i)] = File([n \in 1 .. offset' |-> <<i', n - 1>>])
      BY <1>1
    <2>4. QED
      BY <1>1, <1>2, <1>7, <2>1, <2>2, <2>3 DEF Copying
  <1>10. Passed'
    <2>1. Reached' \in Int /\ Reached <= Reached' /\ i' \in Int /\ i = Reached'
      BY <1>1, <1>3 DEF Reached
    <2>2. \A k \in 1 .. i - 1 : Done(k)'
      BY <1>1, <1>2, <1>6, <1>7, <2>1, PassedStays
    <2>3. QED
      BY <1>1, <2>2 DEF Passed
  <1>11. Opens' /\ Reports'
    BY <1>1 DEF ToolInv, Opens, ToolClosesUp, Reports
  <1>12. QED
    BY <1>1, <1>8, <1>9, <1>10, <1>11 DEF ToolInv

\* An entry is left behind with all that the archive has of it.
LEMMA FileLeft ==
    ASSUME ToolInv, step = "copy", NextEntry,
           UNCHANGED <<job, reader, chm, offset, fs, lost, ok>>,
           \/ Retrieved = <<>> /\ incomplete' = incomplete \union {i}
           \/ offset = e.length /\ incomplete' = incomplete
    PROVE  ToolInv'
  <1>1. /\ job.tool = "extract" /\ i <= n_entries /\ e.kind = "file"
        /\ offset \in 0 .. e.given /\ Target(i) \in DOMAIN fs
        /\ i \in lost \/ fs[Target(i)] = File([n \in 1 .. offset |-> <<i, n - 1>>])
    BY DEF ToolInv, Copying
  <1>2. /\ i \in 1 .. n_entries /\ n_entries \in Nat /\ IsFileSystem(fs)
        /\ incomplete \union lost \subseteq 1 .. n_entries
    BY <1>1, JobFacts DEF ToolInv, ToolTypeOK, n_entries
  <1>3. /\ e.given \in Nat /\ e.length \in Int
        /\ e.given = 0 \/ e.given <= e.length
    BY <1>2, JobFacts DEF ToolInv, e, n_entries
  <1>4. offset = e.given
    BY <1>1, <1>3, RetrievedIs
  <1>5. \A k \in {i} : Done(k)'
    <2>1. /\ i \in lost \/ fs[Target(i)] = File(Given(i))
          /\ e.given = e.length \/ i \in incomplete'
      BY <1>1, <1>4 DEF Given, e
    <2>2. job.entries[i].kind = "file"
      BY <1>1 DEF e
    <2>3. QED
      BY <1>1, <2>1, <2>2 DEF Done, ExtractedEntry, Given, Target, e
  <1>6. ToolTypeOK'
    BY <1>1, <1>2, NextEntryType
  <1>7. incomplete \subseteq incomplete'
    OBVIOUS
  <1>8. QED
    BY <1>1, <1>5, <1>6, <1>7, EntryStep

LEMMA ToolStepKeeps ==
    ASSUME ToolInv, ToolNext
    PROVE  ToolInv'
  <1>1. CASE OpenReader
    BY <1>1, OpenReaderKeeps
  <1>2. CASE ParseArchive
    BY <1>2, ParseArchiveKeeps
  <1>3. CASE ParseFails
    BY <1>3, ParseFailsKeeps
  <1>4. CASE EntriesDone
    BY <1>4, EntriesDoneKeeps
  <1>5. CASE CloseAll
    BY <1>5, CloseAllKeeps
  <1>6. CASE PrintEntry \/ ProcessEntry
    BY <1>6, ListingKeeps
  <1>7. CASE Skip
    BY <1>7, SkipKeeps
  <1>8. CASE PathTooLong
    BY <1>8, PathTooLongKeeps
  <1>9. CASE ExtractDir
    BY <1>9, ExtractDirKeeps
  <1>10. CASE OpenFile
    BY <1>10, OpenFileKeeps
  <1>11. CASE Copy
    BY <1>11, CopyKeeps
  <1>12. CASE Incomplete
    BY <1>12, FileLeft DEF Incomplete
  <1>13. CASE FileDone
    BY <1>13, FileLeft DEF FileDone, fileVars
  <1>14. QED
    BY <1>1, <1>2, <1>3, <1>4, <1>5, <1>6, <1>7, <1>8, <1>9, <1>10, <1>11, <1>12,
       <1>13 DEF ToolNext

-----------------------------------------------------------------------------
(* The first of several results *)

OrElse(x, y) == IF x # None THEN x ELSE y

\* The first result there is, of a function from positions to results.
First(g) ==
    LET good == {k \in DOMAIN g : g[k] # None}
    IN  IF good = {} THEN None ELSE g[Min(good)]

LEMMA MinFacts ==
    ASSUME NEW T \in SUBSET Nat, T # {}
    PROVE  Min(T) \in T /\ \A y \in T : Min(T) <= y
  BY LeastNat DEF Min

LEMMA MinIs ==
    ASSUME NEW T \in SUBSET Nat, NEW x \in T, \A y \in T : x <= y
    PROVE  Min(T) = x
  <1>1. Min(T) \in T /\ Min(T) <= x /\ x <= Min(T)
    BY MinFacts
  <1>2. Min(T) \in Nat /\ x \in Nat
    BY <1>1
  <1>3. QED
    BY <1>1, <1>2

LEMMA FirstNone ==
    ASSUME NEW g, \A k \in DOMAIN g : g[k] = None
    PROVE  First(g) = None
  BY DEF First

LEMMA FirstIs ==
    ASSUME NEW g, DOMAIN g \in SUBSET Nat, NEW k \in DOMAIN g, g[k] # None,
           \A j \in DOMAIN g : j < k => g[j] = None
    PROVE  First(g) = g[k]
  <1> DEFINE good == {j \in DOMAIN g : g[j] # None}
  <1>1. good \in SUBSET Nat /\ k \in good /\ \A y \in good : k <= y
    OBVIOUS
  <1> HIDE DEF good
  <1>2. Min(good) = k /\ good # {}
    BY <1>1, MinIs
  <1>3. QED
    BY <1>2 DEF First, good

\* The first position, and then what is left of the others, which may have
\* moved up.
LEMMA FirstSplits ==
    ASSUME NEW g, NEW h, NEW d \in Nat, NEW k \in DOMAIN g,
           DOMAIN g \in SUBSET Nat, DOMAIN h \in SUBSET Nat,
           \A j \in DOMAIN g : j # k => j > k /\ j - d \in DOMAIN h /\ h[j - d] = g[j],
           \A j \in DOMAIN h : j + d \in DOMAIN g /\ j + d # k
    PROVE  First(g) = OrElse(g[k], First(h))
  <1>1. CASE g[k] # None
    <2>1. \A j \in DOMAIN g : j < k => g[j] = None
      OBVIOUS
    <2>2. QED
      BY <1>1, <2>1, FirstIs DEF OrElse
  <1>2. CASE g[k] = None /\ \A j \in DOMAIN h : h[j] = None
    <2>1. \A j \in DOMAIN g : g[j] = None
      BY <1>2
    <2>2. QED
      BY <1>2, <2>1, FirstNone DEF OrElse
  <1>3. CASE g[k] = None /\ ~ \A j \in DOMAIN h : h[j] = None
    <2> DEFINE good == {j \in DOMAIN h : h[j] # None}
    <2>1. good \in SUBSET Nat /\ good # {}
      BY <1>3
    <2>2. PICK m \in good : \A y \in good : m <= y
      BY <2>1, LeastNat
    <2>3. m \in DOMAIN h /\ h[m] # None /\ \A j \in DOMAIN h : j < m => h[j] = None
      BY <2>2
    <2>4. m + d \in DOMAIN g /\ g[m + d] = h[m]
      <3>1. m + d \in DOMAIN g /\ m + d # k /\ (m + d) - d = m
        BY <2>3
      <3>2. QED
        BY <3>1
    <2>5. \A j \in DOMAIN g : j < m + d => g[j] = None
      <3> SUFFICES ASSUME NEW j \in DOMAIN g, j < m + d, j # k
                   PROVE  g[j] = None
        BY <1>3
      <3>1. j - d \in DOMAIN h /\ h[j - d] = g[j]
        OBVIOUS
      <3>2. j - d < m
        BY <2>3
      <3>3. QED
        BY <2>3, <3>1, <3>2
    <2>6. First(h) = h[m]
      BY <2>3, FirstIs
    <2>7. g[m + d] # None
      BY <2>3, <2>4
    <2>8. First(g) = g[m + d]
      BY <2>4, <2>5, <2>7, FirstIs
    <2>9. QED
      BY <1>3, <2>4, <2>6, <2>8 DEF OrElse
  <1>4. QED
    BY <1>1, <1>2, <1>3

\* Two functions with the same results.
LEMMA FirstSame ==
    ASSUME NEW g, NEW h, DOMAIN g = DOMAIN h, \A k \in DOMAIN g : g[k] = h[k],
           DOMAIN g \in SUBSET Nat
    PROVE  First(g) = First(h)
  <1> DEFINE good == {k \in DOMAIN g : g[k] # None}
  <1>1. good = {k \in DOMAIN h : h[k] # None} /\ good \in SUBSET Nat
    OBVIOUS
  <1>2. good # {} => Min(good) \in DOMAIN g
    <2>1. good \subseteq DOMAIN g
      OBVIOUS
    <2> HIDE DEF good
    <2>2. QED
      BY <1>1, <2>1, MinFacts
  <1>3. QED
    BY <1>1, <1>2 DEF First


-----------------------------------------------------------------------------
(* The loops over entries *)

IsSeq(s) == \E S : s \in Seq(S)

Named(objs) == \A o \in DOMAIN objs : objs[o].named \in {"none", "Cover", "other"}

\* What the proofs use of a book.
IsBook ==
    /\ Len(book) \in Nat
    /\ DOMAIN book = 1 .. Len(book)
    /\ \A k \in 1 .. Len(book) :
         /\ book[k].depth \in Nat
         /\ IsSeq(book[k].tags)
         /\ IsSeq(book[k].objects) /\ Named(book[k].objects)

LEMMA BookFacts ==
    ASSUME book \in Books
    PROVE  IsBook
  <1>1. book \in Seq(Range(book))
    BY BooksAssumption
  <1>2. Len(book) \in Nat /\ DOMAIN book = 1 .. Len(book)
    BY <1>1
  <1>3. ASSUME NEW k \in 1 .. Len(book)
        PROVE  /\ book[k].depth \in Nat
               /\ IsSeq(book[k].tags)
               /\ IsSeq(book[k].objects) /\ Named(book[k].objects)
    BY <1>2, BooksAssumption DEF IsSeq, Named, Range
  <1>4. QED
    BY <1>2, <1>3 DEF IsBook

\* The entries a loop that is at "from" has before it.
Tries(pattern, from) == {k \in Tried(pattern) : k >= from}

LEMMA TriesNat ==
    ASSUME IsBook, NEW pattern, NEW from \in Nat
    PROVE  Tries(pattern, from) \in SUBSET Nat /\ Tries(pattern, from) \subseteq 1 .. Len(book)
  BY DEF IsBook, Tries, Tried, Matching

LEMMA TriesAll ==
    ASSUME IsBook, NEW pattern
    PROVE  Tries(pattern, 1) = Tried(pattern)
  BY DEF IsBook, Tries, Tried, Matching

\* The first of the shallowest entries from a position on is the next that has
\* none with fewer slashes behind it.
LEMMA ShallowestIs ==
    ASSUME IsBook, NEW pattern, NEW from \in Nat \ {0}
    PROVE  LET T == Tries(pattern, from)
           IN  Shallowest(pattern, from) = IF T = {} THEN None ELSE Min(T)
  <1> DEFINE m == Matching(pattern, from)
             s == {k \in m : \A j \in m : book[k].depth <= book[j].depth}
             T == Tries(pattern, from)
             D == {book[k].depth : k \in m}
  <1>1. m \in SUBSET Nat /\ m \subseteq 1 .. Len(book) /\ s \subseteq m
    BY DEF IsBook, Matching
  <1>2. Shallowest(pattern, from) = IF s = {} THEN None ELSE Min(s)
    BY DEF Shallowest
  <1>3. s \subseteq T
    <2> SUFFICES ASSUME NEW k \in s
                 PROVE  k \in T
      OBVIOUS
    <2>1. k \in Matching(pattern, 1) /\ k >= from
      BY DEF IsBook, Matching
    <2>2. \A j \in Matching(pattern, 1) : j > k => j \in m
      BY <2>1 DEF IsBook, Matching
    <2>3. \A j \in Matching(pattern, 1) : j > k => book[k].depth <= book[j].depth
      BY <2>2
    <2>4. QED
      BY <2>1, <2>3 DEF Tries, Tried
  <1>4. T \subseteq m
    BY DEF IsBook, Tries, Tried, Matching
  <1>5. m # {} => s # {}
    <2> SUFFICES ASSUME m # {}
                 PROVE  s # {}
      OBVIOUS
    <2>1. D \in SUBSET Nat /\ D # {}
      BY <1>1 DEF IsBook
    <2> HIDE DEF m
    <2>2. PICK x \in D : \A y \in D : x <= y
      BY <2>1, LeastNat
    <2>3. PICK k \in m : x = book[k].depth
      BY <2>2
    <2>4. k \in s
      BY <2>2, <2>3
    <2>5. QED
      BY <2>4
  <1>6. CASE m = {}
    BY <1>2, <1>4, <1>6
  <1>7. CASE m # {}
    <2>1. s # {} /\ s \in SUBSET Nat /\ T \in SUBSET Nat
      BY <1>1, <1>4, <1>5, <1>7
    <2> DEFINE k == Min(s)
    <2> HIDE DEF s, T
    <2>2. k \in s /\ \A y \in s : k <= y
      BY <2>1, MinFacts
    <2> HIDE DEF k
    <2>6. k \in Nat /\ \A y \in T : y \in Nat
      BY <2>1, <2>2
    <2>3. \A y \in T : k <= y
      <3> SUFFICES ASSUME NEW y \in T, y < k
                   PROVE  FALSE
        BY <2>6
      <3>1. y \in m /\ k \in m /\ k \in Matching(pattern, 1)
        BY <1>4, <2>2 DEF s, IsBook, Matching
      <3>2. book[y].depth <= book[k].depth
        <4>1. y \in Tried(pattern)
          BY DEF T, Tries
        <4>2. QED
          BY <3>1, <4>1 DEF Tried
      <3>3. \A j \in m : book[k].depth <= book[j].depth
        BY <2>2 DEF s
      <3>4. \A j \in m : book[j].depth \in Nat
        BY <1>1 DEF IsBook
      <3>5. \A j \in m : book[y].depth <= book[j].depth
        <4> HIDE DEF m
        <4>1. QED
          BY <3>1, <3>2, <3>3, <3>4
      <3>6. y \in s
        BY <3>1, <3>5 DEF s
      <3>7. QED
        BY <2>2, <2>6, <3>6
    <2>4. Min(T) = k /\ T # {}
      BY <1>3, <2>1, <2>2, <2>3, MinIs
    <2>5. Shallowest(pattern, from) = k
      BY <1>2, <2>1 DEF k
    <2>7. QED
      BY <2>4, <2>5 DEF T
  <1>8. QED
    BY <1>6, <1>7

\* Where a search leads, and what is left behind it.
LEMMA NextTry ==
    ASSUME IsBook, NEW pattern, NEW from \in Nat \ {0},
           Shallowest(pattern, from) # None
    PROVE  LET k == Shallowest(pattern, from)
           IN  /\ k \in Tries(pattern, from) /\ k \in from .. Len(book)
               /\ \A j \in Tries(pattern, from) : k <= j
               /\ Tries(pattern, k + 1) = Tries(pattern, from) \ {k}
  <1> DEFINE T == Tries(pattern, from)
             k == Shallowest(pattern, from)
  <1>1. T \in SUBSET Nat /\ T # {} /\ k = Min(T)
    BY ShallowestIs, TriesNat
  <1>2. k \in T /\ \A j \in T : k <= j
    <2> HIDE DEF T, k
    <2>1. QED
      BY <1>1, MinFacts
  <1>3. k \in from .. Len(book)
    BY <1>2, TriesNat DEF Tries, IsBook
  <1> HIDE DEF k
  <1>4. Tries(pattern, k + 1) = T \ {k}
    <2>1. \A j \in T : j \in Nat /\ (j >= k + 1 <=> j # k)
      BY <1>1, <1>2, <1>3
    <2>2. \A j \in Tried(pattern) : j >= k + 1 => j >= from
      <3>1. \A j \in Tried(pattern) : j \in Nat
        BY DEF Tried, Matching, IsBook
      <3>2. QED
        BY <1>3, <3>1
    <2>3. QED
      BY <2>1, <2>2 DEF Tries
  <1>5. QED
    BY <1>2, <1>3, <1>4 DEF k

LEMMA NothingLeft ==
    ASSUME IsBook, NEW pattern, NEW from \in Nat \ {0},
           Shallowest(pattern, from) = None
    PROVE  Tries(pattern, from) = {}
  <1> DEFINE T == Tries(pattern, from)
  <1> SUFFICES ASSUME T # {}
               PROVE  FALSE
    OBVIOUS
  <1>1. T \in SUBSET Nat /\ T \subseteq 1 .. Len(book)
    BY TriesNat
  <1>2. Shallowest(pattern, from) = Min(T)
    BY ShallowestIs
  <1> HIDE DEF T
  <1>3. Min(T) \in 1 .. Len(book)
    BY <1>1, MinFacts
  <1>4. QED
    BY <1>2, <1>3 DEF None, IsBook


\* What a loop that an unreadable entry ends comes to, and what one comes to
\* that passes it over; "give" is what each entry gives.
UpToUnreadable(pattern, from, give) ==
    First([k \in Readable(Tries(pattern, from)) |-> give[k]])

PastUnreadable(pattern, from, give) ==
    First([k \in {j \in Tries(pattern, from) : book[j].readable} |-> give[k]])

LEMMA UpToStep ==
    ASSUME IsBook, NEW pattern, NEW from \in Nat \ {0}, NEW give,
           NEW k, k = Shallowest(pattern, from)
    PROVE  /\ ~CanRead(k) => UpToUnreadable(pattern, from, give) = None
           /\ CanRead(k) =>
                UpToUnreadable(pattern, from, give)
                  = OrElse(give[k], UpToUnreadable(pattern, k + 1, give))
  <1> DEFINE T == Tries(pattern, from)
             U == Tries(pattern, k + 1)
             g == [j \in Readable(T) |-> give[j]]
             h == [j \in Readable(U) |-> give[j]]
  <1>1. T \in SUBSET Nat
    BY TriesNat
  <1>2. CASE k = None
    <2>1. T = {}
      BY <1>2, NothingLeft
    <2> HIDE DEF T
    <2>2. \A j \in DOMAIN g : g[j] = None
      BY <2>1 DEF Readable
    <2> HIDE DEF g
    <2>3. First(g) = None
      BY <2>2, FirstNone
    <2>4. QED
      BY <1>2, <2>3 DEF CanRead, UpToUnreadable, g, T
  <1>3. CASE k # None
    <2>1. k \in T /\ (\A j \in T : k <= j) /\ U = T \ {k} /\ k \in Nat
      BY <1>1, <1>3, NextTry
    <2> HIDE DEF T, U
    <2>2. CASE ~book[k].readable
      <3>1. \A j \in DOMAIN g : g[j] = None
        BY <2>1, <2>2 DEF Readable
      <3> HIDE DEF g
      <3>2. First(g) = None
        BY <3>1, FirstNone
      <3>3. QED
        BY <2>2, <3>2 DEF CanRead, UpToUnreadable, g, T
    <2>3. CASE book[k].readable
      <3>1. k \in Readable(T)
        <4>1. \A j \in T : j <= k => j = k
          BY <1>1, <2>1
        <4>2. QED
          BY <2>1, <2>3, <4>1 DEF Readable
      <3>2. Readable(U) = Readable(T) \ {k}
        BY <2>1, <2>3 DEF Readable
      <3>3. Readable(T) \subseteq T
        BY DEF Readable
      <3>4. DOMAIN g \in SUBSET Nat /\ DOMAIN h \in SUBSET Nat /\ k \in DOMAIN g
        BY <1>1, <3>1, <3>2, <3>3
      <3>5. \A j \in DOMAIN g : j # k => j > k /\ j - 0 \in DOMAIN h /\ h[j - 0] = g[j]
        <4> SUFFICES ASSUME NEW j \in Readable(T), j # k
                     PROVE  j > k /\ j - 0 \in DOMAIN h /\ h[j - 0] = g[j]
          OBVIOUS
        <4>0. j \in T
          BY <3>3
        <4>5. j \in Nat /\ k <= j
          BY <1>1, <2>1, <4>0
        <4>1. j - 0 = j
          BY <4>5
        <4>2. j > k
          BY <2>1, <4>5
        <4>3. j \in Readable(U)
          BY <3>2
        <4>4. QED
          BY <4>1, <4>2, <4>3
      <3>6. \A j \in DOMAIN h : j + 0 \in DOMAIN g /\ j + 0 # k
        <4> SUFFICES ASSUME NEW j \in Readable(U)
                     PROVE  j + 0 \in Readable(T) /\ j + 0 # k
          OBVIOUS
        <4>1. j \in Readable(T) /\ j # k /\ j \in Nat
          BY <1>1, <3>2, <3>3
        <4>2. QED
          BY <4>1
      <3>7. g[k] = give[k]
        BY <3>1
      <3> HIDE DEF g, h
      <3>8. First(g) = OrElse(g[k], First(h))
        BY <3>4, <3>5, <3>6, FirstSplits
      <3>9. QED
        BY <1>3, <2>3, <3>7, <3>8 DEF CanRead, UpToUnreadable, g, h, T, U
    <2>4. QED
      BY <2>2, <2>3
  <1>4. QED
    BY <1>2, <1>3

LEMMA PastStep ==
    ASSUME IsBook, NEW pattern, NEW from \in Nat \ {0}, NEW give,
           NEW k, k = Shallowest(pattern, from)
    PROVE  /\ k = None => PastUnreadable(pattern, from, give) = None
           /\ k # None /\ ~CanRead(k) =>
                PastUnreadable(pattern, from, give) = PastUnreadable(pattern, k + 1, give)
           /\ CanRead(k) =>
                PastUnreadable(pattern, from, give)
                  = OrElse(give[k], PastUnreadable(pattern, k + 1, give))
  <1> DEFINE T == Tries(pattern, from)
             U == Tries(pattern, k + 1)
             R(S) == {j \in S : book[j].readable}
             g == [j \in R(T) |-> give[j]]
             h == [j \in R(U) |-> give[j]]
  <1>1. T \in SUBSET Nat
    BY TriesNat
  <1>2. CASE k = None
    <2>1. T = {}
      BY <1>2, NothingLeft
    <2> HIDE DEF T
    <2>2. \A j \in DOMAIN g : g[j] = None
      BY <2>1
    <2> HIDE DEF g
    <2>3. First(g) = None
      BY <2>2, FirstNone
    <2>4. QED
      BY <1>2, <2>3 DEF CanRead, PastUnreadable, g, T
  <1>3. CASE k # None
    <2>1. k \in T /\ (\A j \in T : k <= j) /\ U = T \ {k} /\ k \in Nat
      BY <1>1, <1>3, NextTry
    <2> HIDE DEF T, U
    <2>2. CASE ~book[k].readable
      <3>1. R(U) = R(T)
        BY <2>1, <2>2
      <3>2. QED
        BY <1>3, <2>2, <3>1 DEF CanRead, PastUnreadable, T, U
    <2>3. CASE book[k].readable
      <3>1. k \in R(T)
        BY <2>1, <2>3
      <3>2. R(U) = R(T) \ {k}
        BY <2>1, <2>3
      <3>3. R(T) \subseteq T
        OBVIOUS
      <3> HIDE DEF R
      <3>4. DOMAIN g \in SUBSET Nat /\ DOMAIN h \in SUBSET Nat /\ k \in DOMAIN g
        BY <1>1, <3>1, <3>2, <3>3
      <3>5. \A j \in DOMAIN g : j # k => j > k /\ j - 0 \in DOMAIN h /\ h[j - 0] = g[j]
        <4> SUFFICES ASSUME NEW j \in R(T), j # k
                     PROVE  j > k /\ j - 0 \in DOMAIN h /\ h[j - 0] = g[j]
          OBVIOUS
        <4>0. j \in T
          BY <3>3
        <4>5. j \in Nat /\ k <= j
          BY <1>1, <2>1, <4>0
        <4>1. j - 0 = j
          BY <4>5
        <4>2. j > k
          BY <2>1, <4>5
        <4>3. j \in R(U)
          BY <3>2
        <4>4. QED
          BY <4>1, <4>2, <4>3
      <3>6. \A j \in DOMAIN h : j + 0 \in DOMAIN g /\ j + 0 # k
        <4> SUFFICES ASSUME NEW j \in R(U)
                     PROVE  j + 0 \in R(T) /\ j + 0 # k
          OBVIOUS
        <4>1. j \in R(T) /\ j # k /\ j \in Nat
          BY <1>1, <3>2, <3>3
        <4>2. QED
          BY <4>1
      <3>7. g[k] = give[k]
        BY <3>1
      <3> HIDE DEF g, h
      <3>8. First(g) = OrElse(g[k], First(h))
        BY <3>4, <3>5, <3>6, FirstSplits
      <3>9. QED
        BY <1>3, <2>3, <3>7, <3>8 DEF CanRead, PastUnreadable, g, h, T, U, R
    <2>4. QED
      BY <2>2, <2>3
  <1>4. QED
    BY <1>2, <1>3

\* The same for what is left of a sequence, with a result for each element.
LEMMA SeqFacts ==
    ASSUME NEW s, IsSeq(s), s # <<>>
    PROVE  /\ Len(s) \in Nat \ {0} /\ DOMAIN s = 1 .. Len(s)
           /\ DOMAIN Tail(s) = 1 .. Len(s) - 1
           /\ \A k \in 1 .. Len(s) - 1 : Tail(s)[k] = s[k + 1]
           /\ Head(s) = s[1] /\ IsSeq(Tail(s))
  <1>1. PICK S : s \in Seq(S)
    BY DEF IsSeq
  <1>2. QED
    BY <1>1 DEF IsSeq

LEMMA TailOfOne ==
    ASSUME NEW X, NEW s \in Seq(X), Len(s) = 1
    PROVE  Tail(s) = <<>>
  <1> DEFINE t == Tail(s)
  <1>0. s # <<>>
    <2>1. Len(<<>>) = 0
      OBVIOUS
    <2>2. QED
      BY <2>1, 0 # 1, Zenon
  <1>1. t \in Seq(X) /\ Len(t) = 0
    BY <1>0
  <1> HIDE DEF t
  <1>2. t = <<>>
    BY <1>1
  <1>3. QED
    BY <1>2 DEF t

LEMMA FirstOfTail ==
    ASSUME NEW s, IsSeq(s), s # <<>>, NEW g, NEW h,
           DOMAIN g = DOMAIN s, DOMAIN h = DOMAIN Tail(s),
           \A k \in DOMAIN h : h[k] = g[k + 1]
    PROVE  First(g) = OrElse(g[1], First(h))
  <1> DEFINE n == Len(s)
  <1>1. n \in Nat \ {0} /\ DOMAIN g = 1 .. n /\ DOMAIN h = 1 .. n - 1
    BY SeqFacts
  <1> HIDE DEF n
  <1>2. DOMAIN g \in SUBSET Nat /\ DOMAIN h \in SUBSET Nat /\ 1 \in DOMAIN g
    BY <1>1
  <1>3. \A j \in DOMAIN g : j # 1 => j > 1 /\ j - 1 \in DOMAIN h /\ h[j - 1] = g[j]
    <2> SUFFICES ASSUME NEW j \in DOMAIN g, j # 1
                 PROVE  j > 1 /\ j - 1 \in DOMAIN h /\ h[j - 1] = g[j]
      OBVIOUS
    <2>1. j > 1 /\ j - 1 \in DOMAIN h /\ (j - 1) + 1 = j
      BY <1>1
    <2>2. QED
      BY <2>1
  <1>4. \A j \in DOMAIN h : j + 1 \in DOMAIN g /\ j + 1 # 1
    BY <1>1
  <1>5. QED
    BY <1>2, <1>3, <1>4, FirstSplits, ZenonT(60)

-----------------------------------------------------------------------------
(* What the stages amount to, as first results *)

ImageGives == [k \in DOMAIN book |-> IF book[k].loads THEN k ELSE None]
PageGives  == [k \in DOMAIN book |-> ImageOnPage(k)]
HhcGives   == [k \in DOMAIN book |-> ImageOfHhc(k)]

\* What an object gives that is the o-th of its file.
ObjectGives(object, o) ==
    LET first == Tried(object.path)
    IN  IF \/ object.leads_to \notin {"page", "image"}
           \/ object.named = "none"
           \/ o > 2 /\ object.named # "Cover"
        THEN None
        ELSE IF object.leads_to = "image" THEN ImageFor(object.path)
        ELSE IF first # {} /\ book[Min(first)].readable THEN ImageOnPage(Min(first))
        ELSE None

LEMMA ImageForIs ==
    ASSUME IsBook, NEW pattern
    PROVE  ImageFor(pattern) = UpToUnreadable(pattern, 1, ImageGives)
  <1> DEFINE S == Readable(Tried(pattern))
             g == [k \in S |-> ImageGives[k]]
             good == {k \in S : g[k] # None}
  <1>1. S \in SUBSET Nat /\ S \subseteq DOMAIN book
    BY DEF IsBook, Readable, Tried, Matching
  <1>2. \A k \in S : g[k] = IF book[k].loads THEN k ELSE None
    BY <1>1 DEF ImageGives
  <1>3. good \in SUBSET Nat /\ good \subseteq S
    BY <1>1
  <1>4. ImageFor(pattern) = IF good = {} THEN None ELSE
                              IF book[Min(good)].loads THEN Min(good) ELSE None
    <2>1. good = {k \in S : (IF book[k].loads THEN k ELSE None) # None}
      BY <1>2
    <2> HIDE DEF good
    <2>2. QED
      BY <2>1 DEF ImageFor, FirstThat, S
  <1>5. First(g) = IF good = {} THEN None ELSE g[Min(good)]
    BY DEF First
  <1>6. UpToUnreadable(pattern, 1, ImageGives) = First(g)
    BY TriesAll DEF UpToUnreadable
  <1> HIDE DEF S, g, good
  <1>7. good # {} => Min(good) \in S
    BY <1>3, MinFacts
  <1>8. QED
    BY <1>2, <1>4, <1>5, <1>6, <1>7

LEMMA ImageOnPageIs ==
    ASSUME IsBook, NEW k \in DOMAIN book
    PROVE  ImageOnPage(k)
             = First([t \in DOMAIN book[k].tags |-> ImageFor(book[k].tags[t])])
  <1> DEFINE S == DOMAIN book[k].tags
             g == [t \in S |-> ImageFor(book[k].tags[t])]
             good == {t \in S : g[t] # None}
  <1>1. S \in SUBSET Nat
    BY DEF IsBook, IsSeq
  <1>2. good \in SUBSET Nat /\ good \subseteq S
    BY <1>1
  <1>3. ImageOnPage(k) = IF good = {} THEN None ELSE ImageFor(book[k].tags[Min(good)])
    <2>1. good = {t \in S : ImageFor(book[k].tags[t]) # None}
      OBVIOUS
    <2> HIDE DEF good
    <2>2. QED
      BY <2>1 DEF ImageOnPage, FirstThat, S
  <1>4. First(g) = IF good = {} THEN None ELSE g[Min(good)]
    BY DEF First
  <1>5. \A t \in S : g[t] = ImageFor(book[k].tags[t])
    OBVIOUS
  <1> HIDE DEF S, good
  <1>6. good # {} => Min(good) \in S
    BY <1>2, MinFacts
  <1> HIDE DEF g
  <1>7. ImageOnPage(k) = First(g)
    BY <1>3, <1>4, <1>5, <1>6
  <1>8. QED
    BY <1>7 DEF g, S

LEMMA ImageOnPagesIs ==
    ASSUME IsBook, NEW pattern
    PROVE  ImageOnPages(pattern) = PastUnreadable(pattern, 1, PageGives)
  <1> DEFINE S == {k \in Tried(pattern) : book[k].readable}
             g == [k \in S |-> PageGives[k]]
             good == {k \in S : g[k] # None}
  <1>1. S \in SUBSET Nat /\ S \subseteq DOMAIN book
    BY DEF IsBook, Tried, Matching
  <1>2. \A k \in S : g[k] = ImageOnPage(k)
    BY <1>1 DEF PageGives
  <1>3. good \in SUBSET Nat /\ good \subseteq S
    BY <1>1
  <1>4. ImageOnPages(pattern) = IF good = {} THEN None ELSE ImageOnPage(Min(good))
    <2>1. good = {k \in S : ImageOnPage(k) # None}
      BY <1>2
    <2> HIDE DEF good
    <2>2. QED
      BY <2>1 DEF ImageOnPages, FirstThat, S
  <1>5. First(g) = IF good = {} THEN None ELSE g[Min(good)]
    BY DEF First
  <1>6. PastUnreadable(pattern, 1, PageGives) = First(g)
    BY TriesAll DEF PastUnreadable
  <1> HIDE DEF S, g, good
  <1>7. good # {} => Min(good) \in S
    BY <1>3, MinFacts
  <1>8. QED
    BY <1>2, <1>4, <1>5, <1>6, <1>7

LEMMA ImageOfObjectIs ==
    ASSUME NEW k, NEW o
    PROVE  ImageOfObject(k, o) = ObjectGives(book[k].objects[o], o)
  BY DEF ImageOfObject, ObjectGives

LEMMA ImageOfHhcIs ==
    ASSUME IsBook, NEW k \in DOMAIN book
    PROVE  ImageOfHhc(k)
             = First([o \in DOMAIN book[k].objects |-> ObjectGives(book[k].objects[o], o)])
  <1> DEFINE S == DOMAIN book[k].objects
             g == [o \in S |-> ObjectGives(book[k].objects[o], o)]
             good == {o \in S : g[o] # None}
  <1>1. S \in SUBSET Nat
    BY DEF IsBook, IsSeq
  <1>2. good \in SUBSET Nat /\ good \subseteq S
    BY <1>1
  <1>5. \A o \in S : g[o] = ImageOfObject(k, o)
    BY ImageOfObjectIs
  <1>3. ImageOfHhc(k) = IF good = {} THEN None ELSE ImageOfObject(k, Min(good))
    <2>1. good = {o \in S : ImageOfObject(k, o) # None}
      BY <1>5
    <2> HIDE DEF good
    <2>2. QED
      BY <2>1 DEF ImageOfHhc, FirstThat, S
  <1>4. First(g) = IF good = {} THEN None ELSE g[Min(good)]
    BY DEF First
  <1> HIDE DEF S, good
  <1>6. good # {} => Min(good) \in S
    BY <1>2, MinFacts
  <1> HIDE DEF g
  <1>7. ImageOfHhc(k) = First(g)
    BY <1>3, <1>4, <1>5, <1>6
  <1>8. QED
    BY <1>7 DEF g, S

LEMMA HhcStageIs ==
    ASSUME IsBook
    PROVE  ImageOfStage(HHC) = UpToUnreadable(Head(HhcExtension), 1, HhcGives)
  <1> DEFINE pattern == Head(HhcExtension)
             S == Readable(Tried(pattern))
             g == [k \in S |-> HhcGives[k]]
             good == {k \in S : g[k] # None}
  <1>1. S \in SUBSET Nat /\ S \subseteq DOMAIN book
    BY DEF IsBook, Readable, Tried, Matching
  <1>2. \A k \in S : g[k] = ImageOfHhc(k)
    BY <1>1 DEF HhcGives
  <1>3. good \in SUBSET Nat /\ good \subseteq S
    BY <1>1
  <1>4. ImageOfStage(HHC) = IF good = {} THEN None ELSE ImageOfHhc(Min(good))
    <2>1. good = {k \in S : ImageOfHhc(k) # None}
      BY <1>2
    <2> HIDE DEF good
    <2>2. QED
      BY <2>1 DEF ImageOfStage, FirstThat, S
  <1>5. First(g) = IF good = {} THEN None ELSE g[Min(good)]
    BY DEF First
  <1>6. UpToUnreadable(pattern, 1, HhcGives) = First(g)
    BY TriesAll DEF UpToUnreadable
  <1> HIDE DEF S, g, good, pattern
  <1>7. good # {} => Min(good) \in S
    BY <1>3, MinFacts
  <1>8. UpToUnreadable(pattern, 1, HhcGives) = ImageOfStage(HHC)
    BY <1>2, <1>4, <1>5, <1>6, <1>7
  <1>9. QED
    BY <1>8 DEF pattern


LEMMA StageFacts ==
    /\ Len(Stages) = 6 /\ DOMAIN Stages = 1 .. 6
    /\ Stages[1] = ByName(XsFile) /\ Stages[2] = OnPages(TocFileNames)
    /\ Stages[3] = OnPages(OtherTocFileNames) /\ Stages[4] = OnPages(HhcExtension)
    /\ Stages[5] = ByName(CoverName) /\ Stages[6] = OnPages(HtmlExtensions)
  BY DEF Stages

\* What a stage is, by its number.
LEMMA StageKinds ==
    ASSUME NEW s \in 1 .. 6
    PROVE  \/ Stages[s].by = "name" /\ s # HHC
           \/ /\ Stages[s].by = "pages" /\ IsSeq(Stages[s].endings)
              /\ s = HHC => Stages[s].endings = HhcExtension
  <1>1. CASE s \in {1, 5}
    BY <1>1, StageFacts DEF ByName, HHC
  <1>2. CASE s \in {2, 3, 4, 6}
    <2>1. Stages[s] = OnPages(Stages[s].endings) /\ (s = HHC => Stages[s].endings = HhcExtension)
      BY <1>2, StageFacts DEF OnPages, HHC
    <2>2. Stages[s].endings \in {TocFileNames, OtherTocFileNames, HtmlExtensions, HhcExtension}
      BY <1>2, StageFacts DEF OnPages
    <2>4. IsSeq(Stages[s].endings)
      BY <2>2, EndingsAssumption DEF IsSeq
    <2>5. QED
      BY <2>1, <2>4 DEF OnPages
  <1>3. QED
    BY <1>1, <1>2

\* What is left to each loop, given where it is.
ImagesLeft(pattern, from) == UpToUnreadable(pattern, from, ImageGives)
TagsLeft(ts)              == First([t \in DOMAIN ts |-> ImageFor(ts[t])])
ObjectsLeft(objs, n)      == First([o \in DOMAIN objs |-> ObjectGives(objs[o], n + o)])
EndingsLeft(ends)         == First([n \in DOMAIN ends |-> ImageOnPages(ends[n])])
PagesLeft(s, ends, p) ==
    IF ends = <<>> THEN None
    ELSE IF s = HHC THEN UpToUnreadable(Head(ends), p, HhcGives)
    ELSE OrElse(PastUnreadable(Head(ends), p, PageGives), EndingsLeft(Tail(ends)))
StagesLeft(s)             == First([n \in s + 1 .. 6 |-> ImageOfStage(n)])

\* One tag, object or ending less.
LEMMA TagsLeftStep ==
    ASSUME NEW ts, IsSeq(ts)
    PROVE  /\ ts = <<>> => TagsLeft(ts) = None
           /\ ts # <<>> => TagsLeft(ts) = OrElse(ImageFor(Head(ts)), TagsLeft(Tail(ts)))
  <1> DEFINE g == [t \in DOMAIN ts |-> ImageFor(ts[t])]
             h == [t \in DOMAIN Tail(ts) |-> ImageFor(Tail(ts)[t])]
  <1>1. CASE ts = <<>>
    <2>1. \A t \in DOMAIN g : g[t] = None
      BY <1>1
    <2> HIDE DEF g
    <2>2. QED
      BY <1>1, <2>1, FirstNone DEF TagsLeft, g
  <1>2. CASE ts # <<>>
    <2>1. \A t \in DOMAIN h : h[t] = g[t + 1]
      BY <1>2, SeqFacts
    <2>2. g[1] = ImageFor(Head(ts)) /\ DOMAIN g = DOMAIN ts /\ DOMAIN h = DOMAIN Tail(ts)
      BY <1>2, SeqFacts
    <2> HIDE DEF g, h
    <2>3. First(g) = OrElse(g[1], First(h))
      BY <1>2, <2>1, <2>2, FirstOfTail
    <2>4. QED
      BY <1>2, <2>2, <2>3 DEF TagsLeft, g, h
  <1>3. QED
    BY <1>1, <1>2

LEMMA ObjectsLeftStep ==
    ASSUME NEW objs, IsSeq(objs), NEW n \in Nat
    PROVE  /\ objs = <<>> => ObjectsLeft(objs, n) = None
           /\ objs # <<>> =>
                ObjectsLeft(objs, n)
                  = OrElse(ObjectGives(Head(objs), n + 1), ObjectsLeft(Tail(objs), n + 1))
  <1> DEFINE g == [o \in DOMAIN objs |-> ObjectGives(objs[o], n + o)]
             h == [o \in DOMAIN Tail(objs) |-> ObjectGives(Tail(objs)[o], (n + 1) + o)]
  <1>1. CASE objs = <<>>
    <2>1. \A o \in DOMAIN g : g[o] = None
      BY <1>1
    <2> HIDE DEF g
    <2>2. QED
      BY <1>1, <2>1, FirstNone DEF ObjectsLeft, g
  <1>2. CASE objs # <<>>
    <2>1. ASSUME NEW o \in DOMAIN h
          PROVE  h[o] = g[o + 1]
      <3>1. o + 1 \in DOMAIN objs /\ Tail(objs)[o] = objs[o + 1] /\ o \in Nat
        BY <1>2, SeqFacts
      <3>2. (n + 1) + o = n + (o + 1)
        BY <3>1
      <3>3. QED
        BY <3>1, <3>2
    <2>2. /\ g[1] = ObjectGives(Head(objs), n + 1)
          /\ DOMAIN g = DOMAIN objs /\ DOMAIN h = DOMAIN Tail(objs)
      BY <1>2, SeqFacts
    <2> HIDE DEF g, h
    <2>3. First(g) = OrElse(g[1], First(h))
      BY <1>2, <2>1, <2>2, FirstOfTail
    <2>4. QED
      BY <1>2, <2>2, <2>3 DEF ObjectsLeft, g, h
  <1>3. QED
    BY <1>1, <1>2

LEMMA EndingsLeftStep ==
    ASSUME NEW ends, IsSeq(ends)
    PROVE  /\ ends = <<>> => EndingsLeft(ends) = None
           /\ ends # <<>> =>
                EndingsLeft(ends) = OrElse(ImageOnPages(Head(ends)), EndingsLeft(Tail(ends)))
  <1> DEFINE g == [n \in DOMAIN ends |-> ImageOnPages(ends[n])]
             h == [n \in DOMAIN Tail(ends) |-> ImageOnPages(Tail(ends)[n])]
  <1>1. CASE ends = <<>>
    <2>1. \A n \in DOMAIN g : g[n] = None
      BY <1>1
    <2> HIDE DEF g
    <2>2. QED
      BY <1>1, <2>1, FirstNone DEF EndingsLeft, g
  <1>2. CASE ends # <<>>
    <2>1. \A n \in DOMAIN h : h[n] = g[n + 1]
      BY <1>2, SeqFacts
    <2>2. g[1] = ImageOnPages(Head(ends)) /\ DOMAIN g = DOMAIN ends /\ DOMAIN h = DOMAIN Tail(ends)
      BY <1>2, SeqFacts
    <2> HIDE DEF g, h
    <2>3. First(g) = OrElse(g[1], First(h))
      BY <1>2, <2>1, <2>2, FirstOfTail
    <2>4. QED
      BY <1>2, <2>2, <2>3 DEF EndingsLeft, g, h
  <1>3. QED
    BY <1>1, <1>2
\* The image the finder is to come back with.
Cover == FirstThat(DOMAIN Stages, ImageOfStage)

LEMMA CoverIs ==
    Cover = StagesLeft(0)
  <1> DEFINE S == 1 .. 6
             g == [n \in S |-> ImageOfStage(n)]
             good == {n \in S : g[n] # None}
  <1>1. good \in SUBSET Nat /\ good \subseteq S
    OBVIOUS
  <1>2. \A n \in S : g[n] = ImageOfStage(n)
    OBVIOUS
  <1>3. Cover = IF good = {} THEN None ELSE ImageOfStage(Min(good))
    <2>1. good = {n \in S : ImageOfStage(n) # None}
      OBVIOUS
    <2>2. DOMAIN Stages = S
      BY StageFacts
    <2> HIDE DEF good, S
    <2>3. QED
      BY <2>1, <2>2 DEF Cover, FirstThat
  <1>4. First(g) = IF good = {} THEN None ELSE g[Min(good)]
    BY DEF First
  <1>5. StagesLeft(0) = First(g)
    <2>1. 0 + 1 .. 6 = S
      OBVIOUS
    <2>2. QED
      BY <2>1 DEF StagesLeft
  <1> HIDE DEF S, g, good
  <1>6. good # {} => Min(good) \in S
    BY <1>1, MinFacts
  <1>7. QED
    BY <1>2, <1>3, <1>4, <1>5, <1>6

LEMMA StagesLeftStep ==
    /\ \A s \in 0 .. 5 : StagesLeft(s) = OrElse(ImageOfStage(s + 1), StagesLeft(s + 1))
    /\ StagesLeft(6) = None
  <1>1. ASSUME NEW s \in 0 .. 5
        PROVE  StagesLeft(s) = OrElse(ImageOfStage(s + 1), StagesLeft(s + 1))
    <2> DEFINE g == [n \in s + 1 .. 6 |-> ImageOfStage(n)]
               h == [n \in (s + 1) + 1 .. 6 |-> ImageOfStage(n)]
    <2>1. DOMAIN g \in SUBSET Nat /\ DOMAIN h \in SUBSET Nat /\ s + 1 \in DOMAIN g
      OBVIOUS
    <2>2. \A j \in DOMAIN g : j # s + 1 => j > s + 1 /\ j - 0 \in DOMAIN h /\ h[j - 0] = g[j]
      OBVIOUS
    <2>3. \A j \in DOMAIN h : j + 0 \in DOMAIN g /\ j + 0 # s + 1
      OBVIOUS
    <2>4. g[s + 1] = ImageOfStage(s + 1)
      OBVIOUS
    <2> HIDE DEF g, h
    <2>5. First(g) = OrElse(g[s + 1], First(h))
      BY <2>1, <2>2, <2>3, FirstSplits
    <2>6. QED
      BY <2>4, <2>5 DEF StagesLeft, g, h
  <1>2. StagesLeft(6) = None
    <2> DEFINE g == [n \in 6 + 1 .. 6 |-> ImageOfStage(n)]
    <2>1. \A n \in DOMAIN g : g[n] = None
      OBVIOUS
    <2> HIDE DEF g
    <2>2. QED
      BY <2>1, FirstNone DEF StagesLeft, g
  <1>3. QED
    BY <1>1, <1>2

\* A stage begins with all of it left.
LEMMA StageBegins ==
    ASSUME IsBook, NEW s \in 1 .. 6
    PROVE  /\ Stages[s].by = "name" => ImageOfStage(s) = ImagesLeft(Stages[s].image, 1)
           /\ Stages[s].by = "pages" => ImageOfStage(s) = PagesLeft(s, Stages[s].endings, 1)
  <1>1. CASE Stages[s].by = "name"
    <2>1. s # HHC /\ Stages[s].by # "pages"
      BY <1>1, StageKinds, StageFacts DEF HHC, OnPages
    <2>2. ImageOfStage(s) = ImageFor(Stages[s].image)
      BY <1>1, <2>1 DEF ImageOfStage
    <2>3. QED
      BY <2>1, <2>2, ImageForIs DEF ImagesLeft
  <1>2. CASE Stages[s].by = "pages" /\ s = HHC
    <2>1. Stages[s].endings = HhcExtension
      BY <1>2, StageKinds DEF OnPages
    <2>3. HhcExtension # <<>>
      <3>1. Len(<<>>) = 0
        OBVIOUS
      <3>2. Len(HhcExtension) = 1
        BY EndingsAssumption
      <3>3. QED
        BY <3>1, <3>2, 0 # 1, Zenon
    <2>2. QED
      BY <1>2, <2>1, <2>3, HhcStageIs DEF PagesLeft
  <1>3. CASE Stages[s].by = "pages" /\ s # HHC
    <2> DEFINE ends == Stages[s].endings
               S == DOMAIN ends
               g == [n \in S |-> ImageOnPages(ends[n])]
               good == {n \in S : g[n] # None}
    <2>1. IsSeq(ends)
      BY <1>3, StageKinds
    <2>2. S \in SUBSET Nat
      BY <2>1 DEF IsSeq
    <2>3. good \in SUBSET Nat /\ good \subseteq S
      BY <2>2
    <2>4. \A n \in S : g[n] = ImageOnPages(ends[n])
      OBVIOUS
    <2>5. ImageOfStage(s) = IF good = {} THEN None ELSE ImageOnPages(ends[Min(good)])
      <3>1. good = {n \in S : ImageOnPages(ends[n]) # None}
        OBVIOUS
      <3> HIDE DEF good
      <3>2. QED
        BY <1>3, <3>1 DEF ImageOfStage, FirstThat, S
    <2>6. First(g) = IF good = {} THEN None ELSE g[Min(good)]
      BY DEF First
    <2>7. EndingsLeft(ends) = First(g)
      BY DEF EndingsLeft
    <2>8. good # {} => Min(good) \in S
      <3> HIDE DEF good, S
      <3>1. QED
        BY <2>3, MinFacts
    <2>9. ImageOfStage(s) = First(g)
      <3> HIDE DEF good, S, g
      <3>1. QED
        BY <2>4, <2>5, <2>6, <2>8
    <2>10. EndingsLeft(ends) = PagesLeft(s, ends, 1)
      <3> HIDE DEF ends
      <3>1. QED
        BY <1>3, <2>1, EndingsLeftStep, ImageOnPagesIs DEF PagesLeft
    <2>11. QED
      BY <1>3, <2>7, <2>9, <2>10
  <1>4. QED
    BY <1>1, <1>2, <1>3, StageKinds

-----------------------------------------------------------------------------
(* The invariant of the cover finder *)

AfterPages   == OrElse(PagesLeft(stage, endings, page), StagesLeft(stage))
AfterObjects == IF stage = HHC THEN OrElse(ObjectsLeft(objects, count), AfterPages)
                ELSE AfterPages
AfterTags    == OrElse(TagsLeft(tags), AfterObjects)
AfterImages  == OrElse(ImagesLeft(image, fileIndex), AfterTags)

\* What is left to the loops the search is in, from the innermost out, and to
\* the stages behind this one, gives the image all of it gives.
LeftGivesCover ==
    /\ at = "image"   => AfterImages = Cover
    /\ at = "tags"    => AfterTags = Cover
    /\ at = "objects" => AfterObjects = Cover
    /\ at = "pages"   => AfterPages = Cover
    /\ at = "done"    => bitmap = Cover

\* What the loops are over.
LoopsOK ==
    /\ IsSeq(tags) /\ IsSeq(endings)
    /\ IsSeq(objects) /\ Named(objects) /\ count \in Nat
    /\ at # "done" => bitmap = None
    /\ at \in {"objects", "pages"} => tags = <<>>
    /\ at = "objects" => stage = HHC
    /\ stage = HHC /\ endings # <<>> => Tail(endings) = <<>>

CoverInv ==
    /\ book \in Books
    /\ CoverTypeOK
    /\ LoopsOK
    /\ LeftGivesCover

\* The book stays the same, and with it what everything in it gives.
LEMMA SameBook ==
    ASSUME book' = book
    PROVE  /\ \A p, f : ImagesLeft(p, f)' = ImagesLeft(p, f)
           /\ \A ts : TagsLeft(ts)' = TagsLeft(ts)
           /\ \A objs, n : ObjectsLeft(objs, n)' = ObjectsLeft(objs, n)
           /\ \A s, ends, p : PagesLeft(s, ends, p)' = PagesLeft(s, ends, p)
           /\ \A s : StagesLeft(s)' = StagesLeft(s)
           /\ Cover' = Cover
  <1>1. \A p : Tried(p)' = Tried(p)
    BY DEF Tried, Matching
  <1>2. \A p, f : Tries(p, f)' = Tries(p, f)
    BY <1>1 DEF Tries
  <1>3. \A S : Readable(S)' = Readable(S)
    BY DEF Readable
  <1>4. ImageGives' = ImageGives
    BY DEF ImageGives
  <1>5. \A p : ImageFor(p)' = ImageFor(p)
    BY <1>1, <1>3 DEF ImageFor, FirstThat
  <1>6. \A k : ImageOnPage(k)' = ImageOnPage(k)
    BY <1>5 DEF ImageOnPage, FirstThat
  <1>7. \A k, o : ImageOfObject(k, o)' = ImageOfObject(k, o)
    BY <1>1, <1>5, <1>6 DEF ImageOfObject
  <1>8. \A k : ImageOfHhc(k)' = ImageOfHhc(k)
    BY <1>7 DEF ImageOfHhc, FirstThat
  <1>9. \A p : ImageOnPages(p)' = ImageOnPages(p)
    BY <1>1, <1>6 DEF ImageOnPages, FirstThat
  <1>10. \A s : ImageOfStage(s)' = ImageOfStage(s)
    BY <1>1, <1>3, <1>5, <1>8, <1>9 DEF ImageOfStage, FirstThat
  <1>11. PageGives' = PageGives /\ HhcGives' = HhcGives
    BY <1>6, <1>8 DEF PageGives, HhcGives
  <1>12. \A p, f, g : /\ UpToUnreadable(p, f, g)' = UpToUnreadable(p, f, g)
                       /\ PastUnreadable(p, f, g)' = PastUnreadable(p, f, g)
    BY <1>2, <1>3 DEF UpToUnreadable, PastUnreadable
  <1>13. \A p, f : ImagesLeft(p, f)' = ImagesLeft(p, f)
    BY <1>4, <1>12 DEF ImagesLeft
  <1>14. \A ts : TagsLeft(ts)' = TagsLeft(ts)
    BY <1>5 DEF TagsLeft
  <1>15. \A o, n : ObjectGives(o, n)' = ObjectGives(o, n)
    BY <1>1, <1>5, <1>6 DEF ObjectGives
  <1>16. \A objs, n : ObjectsLeft(objs, n)' = ObjectsLeft(objs, n)
    BY <1>15 DEF ObjectsLeft
  <1>17. \A ends : EndingsLeft(ends)' = EndingsLeft(ends)
    BY <1>9 DEF EndingsLeft
  <1>18. \A s, ends, p : PagesLeft(s, ends, p)' = PagesLeft(s, ends, p)
    BY <1>11, <1>12, <1>17 DEF PagesLeft
  <1>19. \A s : StagesLeft(s)' = StagesLeft(s)
    BY <1>10 DEF StagesLeft
  <1>20. Cover' = Cover
    BY <1>10 DEF Cover, FirstThat
  <1>21. QED
    BY <1>13, <1>14, <1>16, <1>18, <1>19, <1>20

\* The same at the next state.
LEMMA NextLeft ==
    ASSUME book' = book
    PROVE  /\ AfterPages' = OrElse(PagesLeft(stage', endings', page'), StagesLeft(stage'))
           /\ AfterObjects' = IF stage' = HHC
                              THEN OrElse(ObjectsLeft(objects', count'), AfterPages')
                              ELSE AfterPages'
           /\ AfterTags' = OrElse(TagsLeft(tags'), AfterObjects')
           /\ AfterImages' = OrElse(ImagesLeft(image', fileIndex'), AfterTags')
           /\ Cover' = Cover
  <1>1. AfterPages' = OrElse(PagesLeft(stage', endings', page'), StagesLeft(stage'))
    BY SameBook DEF AfterPages
  <1>2. AfterObjects' = IF stage' = HHC
                        THEN OrElse(ObjectsLeft(objects', count'), AfterPages')
                        ELSE AfterPages'
    BY SameBook DEF AfterObjects
  <1>3. AfterTags' = OrElse(TagsLeft(tags'), AfterObjects')
    BY SameBook DEF AfterTags
  <1>4. AfterImages' = OrElse(ImagesLeft(image', fileIndex'), AfterTags')
    BY SameBook DEF AfterImages
  <1>5. Cover' = Cover
    BY SameBook
  <1>6. QED
    BY <1>1, <1>2, <1>3, <1>4, <1>5

LEMMA CoverInitInv ==
    ASSUME NEW b \in Books, CoverInit(b)
    PROVE  CoverInv
  <1>1. book \in Books /\ IsBook
    BY BookFacts DEF CoverInit
  <1>2. CoverTypeOK
    <2>1. stage \in 1 .. Len(Stages)
      BY StageFacts DEF CoverInit
    <2>2. QED
      BY <1>1, <2>1 DEF CoverInit, CoverTypeOK, IsBook, None
  <1>3. LoopsOK
    BY DEF CoverInit, LoopsOK, IsSeq, Named, None, HHC
  <1>4. LeftGivesCover
    <2>1. ImageOfStage(1) = ImagesLeft(XsFile, 1)
      BY <1>1, StageBegins, StageFacts DEF ByName
    <2>2. Cover = OrElse(ImageOfStage(1), StagesLeft(1))
      BY CoverIs, StagesLeftStep
    <2>3. TagsLeft(tags) = None
      BY <1>3, TagsLeftStep DEF LoopsOK, CoverInit
    <2>4. AfterTags = StagesLeft(1)
      BY <2>3 DEF AfterTags, AfterObjects, AfterPages, PagesLeft, OrElse, CoverInit, HHC
    <2>5. AfterImages = Cover
      BY <2>1, <2>2, <2>4 DEF AfterImages, CoverInit
    <2>6. QED
      BY <2>5 DEF LeftGivesCover, CoverInit
  <1>5. QED
    BY <1>1, <1>2, <1>3, <1>4 DEF CoverInv

LEMMA OrElseFacts ==
    /\ \A x : OrElse(None, x) = x /\ OrElse(x, None) = x
    /\ \A x, y, z : OrElse(OrElse(x, y), z) = OrElse(x, OrElse(y, z))
    /\ \A x, y : x # None => OrElse(x, y) = x
  BY DEF OrElse

\* Where a search finds something, and what type that has.
LEMMA FoundRange ==
    ASSUME IsBook, NEW pattern, NEW from \in Nat \ {0}
    PROVE  \/ Shallowest(pattern, from) = None
           \/ /\ Shallowest(pattern, from) \in from .. Len(book)
              /\ Shallowest(pattern, from) \in DOMAIN book
              /\ Shallowest(pattern, from) # None
  <1>1. CASE Shallowest(pattern, from) # None
    <2>1. Shallowest(pattern, from) \in from .. Len(book)
      BY <1>1, NextTry
    <2> DEFINE k == Shallowest(pattern, from)
    <2>2. k \in DOMAIN book
      <3> HIDE DEF k
      <3>1. k \in from .. Len(book)
        BY <2>1 DEF k
      <3>2. QED
        BY <3>1 DEF IsBook
    <2>3. QED
      BY <1>1, <2>1, <2>2
  <1>2. QED
    BY <1>1

-----------------------------------------------------------------------------
(* The steps of the cover finder *)

LEMMA ImageFoundKeeps ==
    ASSUME CoverInv, ImageFound
    PROVE  CoverInv'
  <1> DEFINE k == Shallowest(image, fileIndex)
  <1>1. /\ IsBook /\ fileIndex \in Nat \ {0} /\ at = "image" /\ at' = "done"
        /\ CanRead(k) /\ book[k].loads /\ bitmap' = k
        /\ UNCHANGED <<book, stage, endings, page, objects, count, tags, image, fileIndex>>
    BY BookFacts DEF CoverInv, CoverTypeOK, IsBook, ImageFound
  <1>2. k \in DOMAIN book /\ k # None /\ k \in 0 .. Len(book)
    BY <1>1, FoundRange DEF CanRead, IsBook
  <1>3. Cover = k
    <2> HIDE DEF k
    <2>1. ImageGives[k] = k
      BY <1>1, <1>2 DEF ImageGives
    <2>2. ImagesLeft(image, fileIndex) = k
      BY <1>1, <1>2, <2>1, UpToStep, OrElseFacts DEF ImagesLeft, k
    <2>3. AfterImages = Cover
      BY <1>1 DEF CoverInv, LeftGivesCover
    <2>4. QED
      BY <1>2, <2>2, <2>3, OrElseFacts DEF AfterImages
  <1> HIDE DEF k
  <1>4. LeftGivesCover'
    BY <1>1, <1>3, NextLeft DEF LeftGivesCover
  <1>5. CoverTypeOK' /\ LoopsOK'
    BY <1>1, <1>2 DEF CoverInv, CoverTypeOK, LoopsOK
  <1>6. QED
    BY <1>1, <1>4, <1>5 DEF CoverInv

LEMMA ImageWillNotDoKeeps ==
    ASSUME CoverInv, ImageWillNotDo
    PROVE  CoverInv'
  <1> DEFINE k == Shallowest(image, fileIndex)
  <1>1. /\ IsBook /\ fileIndex \in Nat \ {0} /\ at = "image"
        /\ CanRead(k) /\ ~book[k].loads /\ fileIndex' = k + 1
        /\ UNCHANGED <<book, stage, at, endings, page, objects, count, tags, image, bitmap>>
    BY BookFacts DEF CoverInv, CoverTypeOK, IsBook, ImageWillNotDo, Behind
  <1>2. k \in DOMAIN book /\ k # None /\ k + 1 \in 1 .. Len(book) + 1
    BY <1>1, FoundRange DEF CanRead, IsBook
  <1>3. ImagesLeft(image, fileIndex) = ImagesLeft(image, k + 1)
    <2> HIDE DEF k
    <2>1. ImageGives[k] = None
      BY <1>1, <1>2 DEF ImageGives
    <2>2. QED
      BY <1>1, <1>2, <2>1, UpToStep, OrElseFacts DEF ImagesLeft, k
  <1> HIDE DEF k
  <1>4. LeftGivesCover'
    <2>1. AfterImages' = AfterImages
      BY <1>1, <1>3, NextLeft DEF AfterImages, AfterTags, AfterObjects, AfterPages
    <2>2. QED
      BY <1>1, <2>1, NextLeft DEF CoverInv, LeftGivesCover
  <1>5. CoverTypeOK' /\ LoopsOK'
    BY <1>1, <1>2 DEF CoverInv, CoverTypeOK, LoopsOK
  <1>6. QED
    BY <1>1, <1>4, <1>5 DEF CoverInv

LEMMA NoImageKeeps ==
    ASSUME CoverInv, NoImage
    PROVE  CoverInv'
  <1> DEFINE k == Shallowest(image, fileIndex)
  <1>1. /\ IsBook /\ fileIndex \in Nat \ {0} /\ at = "image" /\ at' = "tags"
        /\ ~CanRead(k)
        /\ UNCHANGED <<book, stage, endings, page, objects, count, tags, image, fileIndex,
                       bitmap>>
    BY BookFacts DEF CoverInv, CoverTypeOK, IsBook, NoImage
  <1>2. ImagesLeft(image, fileIndex) = None
    BY <1>1, UpToStep DEF ImagesLeft
  <1> HIDE DEF k
  <1>3. LeftGivesCover'
    <2>1. AfterTags = Cover
      BY <1>1, <1>2, OrElseFacts DEF CoverInv, LeftGivesCover, AfterImages
    <2>2. AfterTags' = AfterTags
      BY <1>1, NextLeft DEF AfterTags, AfterObjects, AfterPages
    <2>3. QED
      BY <1>1, <2>1, <2>2, NextLeft DEF LeftGivesCover
  <1>4. CoverTypeOK' /\ LoopsOK'
    BY <1>1 DEF CoverInv, CoverTypeOK, LoopsOK
  <1>5. QED
    BY <1>1, <1>3, <1>4 DEF CoverInv

LEMMA NextTagKeeps ==
    ASSUME CoverInv, NextTag
    PROVE  CoverInv'
  <1>1. /\ IsBook /\ at = "tags" /\ tags # <<>> /\ IsSeq(tags) /\ at' = "image"
        /\ image' = Head(tags) /\ fileIndex' = 1 /\ tags' = Tail(tags)
        /\ UNCHANGED <<book, stage, endings, page, objects, count, bitmap>>
    BY BookFacts DEF CoverInv, LoopsOK, NextTag, LookFor
  <1>2. IsSeq(tags')
    BY <1>1, SeqFacts
  <1>3. LeftGivesCover'
    <2>1. TagsLeft(tags) = OrElse(ImagesLeft(Head(tags), 1), TagsLeft(tags'))
      BY <1>1, TagsLeftStep, ImageForIs DEF ImagesLeft
    <2>2. AfterObjects' = AfterObjects
      BY <1>1, NextLeft DEF AfterObjects, AfterPages
    <2>3. AfterImages' = OrElse(ImagesLeft(Head(tags), 1), OrElse(TagsLeft(tags'), AfterObjects))
      BY <1>1, <2>2, NextLeft
    <2>4. AfterImages' = AfterTags
      BY <2>1, <2>3, OrElseFacts DEF AfterTags
    <2>5. QED
      BY <1>1, <2>4, NextLeft DEF CoverInv, LeftGivesCover
  <1>4. CoverTypeOK' /\ LoopsOK'
    <2>1. fileIndex' \in 1 .. Len(book') + 1
      BY <1>1 DEF IsBook
    <2>2. QED
      BY <1>1, <1>2, <2>1 DEF CoverInv, CoverTypeOK, LoopsOK
  <1>5. QED
    BY <1>1, <1>3, <1>4 DEF CoverInv

LEMMA NoMoreTagsKeeps ==
    ASSUME CoverInv, NoMoreTags
    PROVE  CoverInv'
  <1>1. /\ at = "tags" /\ tags = <<>> /\ IsSeq(tags)
        /\ at' = IF stage = HHC THEN "objects" ELSE "pages"
        /\ UNCHANGED <<book, stage, endings, page, objects, count, tags, image, fileIndex,
                       bitmap>>
    BY DEF CoverInv, LoopsOK, NoMoreTags
  <1>2. LeftGivesCover'
    <2>1. AfterTags = AfterObjects
      BY <1>1, TagsLeftStep, OrElseFacts DEF AfterTags
    <2>2. AfterObjects' = AfterObjects /\ AfterPages' = AfterPages
      BY <1>1, NextLeft DEF AfterObjects, AfterPages
    <2>3. stage # HHC => AfterObjects = AfterPages
      BY DEF AfterObjects
    <2>4. QED
      BY <1>1, <2>1, <2>2, <2>3, NextLeft DEF CoverInv, LeftGivesCover
  <1>3. CoverTypeOK' /\ LoopsOK'
    BY <1>1 DEF CoverInv, CoverTypeOK, LoopsOK
  <1>4. QED
    BY <1>1, <1>2, <1>3 DEF CoverInv

\* What an object gives is what the finder does with it.
LEMMA ObjectGivesWhat ==
    ASSUME IsBook, count \in Nat, NEW object, object.named \in {"none", "Cover", "other"},
           NEW k, k = Shallowest(object.path, 1)
    PROVE  ObjectGives(object, count + 1) =
             IF ~Accepted(object) THEN None
             ELSE IF object.leads_to = "image" THEN ImageFor(object.path)
             ELSE IF CanRead(k) THEN ImageOnPage(k) ELSE None
  <1>1. Accepted(object) <=> /\ object.leads_to \in {"page", "image"}
                             /\ object.named # "none"
                             /\ ~(count + 1 > 2 /\ object.named # "Cover")
    <2>1. count < 2 <=> ~(count + 1 > 2)
      OBVIOUS
    <2>2. QED
      BY <2>1 DEF Accepted
  <1>2. k = IF Tried(object.path) = {} THEN None ELSE Min(Tried(object.path))
    BY ShallowestIs, TriesAll
  <1>3. Tried(object.path) # {} => k # None
    <2> SUFFICES ASSUME Tried(object.path) # {}
                 PROVE  k # None
      OBVIOUS
    <2>1. Tried(object.path) \in SUBSET Nat /\ Tried(object.path) \subseteq 1 .. Len(book)
      BY TriesNat, TriesAll
    <2>2. k \in Tried(object.path)
      BY <1>2, <2>1, MinFacts
    <2>3. k \in 1 .. Len(book)
      BY <2>1, <2>2
    <2>4. QED
      BY <2>3 DEF None, IsBook
  <1>4. QED
    BY <1>1, <1>2, <1>3 DEF ObjectGives, CanRead

LEMMA NextObjectKeeps ==
    ASSUME CoverInv, NextObject
    PROVE  CoverInv'
  <1> DEFINE object == Head(objects)
             k == Shallowest(object.path, 1)
             given == ObjectGives(object, count + 1)
             rest == OrElse(ObjectsLeft(Tail(objects), count + 1), AfterPages)
  <1>1. /\ IsBook /\ at = "objects" /\ objects # <<>> /\ IsSeq(objects) /\ Named(objects)
        /\ stage = HHC /\ tags = <<>> /\ count \in Nat
        /\ objects' = Tail(objects) /\ count' = count + 1
        /\ UNCHANGED <<book, stage, endings, page, bitmap>>
    BY BookFacts DEF CoverInv, LoopsOK, NextObject
  <1>2. /\ \/ /\ Accepted(object) /\ object.leads_to = "image"
              /\ LookFor(object.path)
              /\ UNCHANGED tags
           \/ /\ Accepted(object) /\ object.leads_to = "page" /\ CanRead(k)
              /\ tags' = book[k].tags
              /\ at' = "tags"
              /\ UNCHANGED <<image, fileIndex>>
           \/ /\ ~Accepted(object) \/ (object.leads_to = "page" /\ ~CanRead(k))
              /\ UNCHANGED <<at, tags, image, fileIndex>>
    BY DEF NextObject
  <1>3. IsSeq(objects') /\ Named(objects') /\ count' \in Nat
    <2>1. IsSeq(objects') /\ \A o \in DOMAIN objects' : o + 1 \in DOMAIN objects
                                                       /\ objects'[o] = objects[o + 1]
      BY <1>1, SeqFacts
    <2>2. QED
      BY <1>1, <2>1 DEF Named
  <1>4. object.named \in {"none", "Cover", "other"}
    BY <1>1, SeqFacts DEF Named
  <1>5. given = IF ~Accepted(object) THEN None
                ELSE IF object.leads_to = "image" THEN ImageFor(object.path)
                ELSE IF CanRead(k) THEN ImageOnPage(k) ELSE None
    <2> HIDE DEF object
    <2>1. QED
      BY <1>1, <1>4, ObjectGivesWhat
  <1>6. Cover = OrElse(given, rest)
    <2>1. AfterObjects = Cover
      BY <1>1 DEF CoverInv, LeftGivesCover
    <2>2. ObjectsLeft(objects, count) = OrElse(given, ObjectsLeft(Tail(objects), count + 1))
      BY <1>1, ObjectsLeftStep
    <2> HIDE DEF given
    <2>3. QED
      BY <1>1, <2>1, <2>2, OrElseFacts DEF AfterObjects
  <1>7. AfterObjects' = rest
    BY <1>1, NextLeft DEF AfterPages
  <1>8. k = None \/ k \in DOMAIN book
    BY <1>1, FoundRange
  <1> HIDE DEF object, k, given, rest
  <1>9. CASE Accepted(object) /\ object.leads_to = "image" /\ LookFor(object.path) /\ UNCHANGED tags
    <2>1. given = ImagesLeft(object.path, 1)
      BY <1>1, <1>5, <1>9, ImageForIs DEF ImagesLeft
    <2>2. TagsLeft(tags') = None
      BY <1>1, <1>9, TagsLeftStep DEF CoverInv, LoopsOK
    <2>3. AfterImages' = OrElse(given, rest)
      BY <1>1, <1>7, <1>9, <2>1, <2>2, NextLeft, OrElseFacts DEF LookFor
    <2>4. LeftGivesCover'
      BY <1>1, <1>6, <1>9, <2>3, NextLeft DEF LeftGivesCover, LookFor
    <2>5. fileIndex' \in 1 .. Len(book') + 1
      BY <1>1, <1>9 DEF IsBook, LookFor
    <2>6. CoverTypeOK' /\ LoopsOK'
      BY <1>1, <1>3, <1>9, <2>5 DEF CoverInv, CoverTypeOK, LoopsOK, LookFor
    <2>7. QED
      BY <1>1, <2>4, <2>6 DEF CoverInv
  <1>10. CASE /\ Accepted(object) /\ object.leads_to = "page" /\ CanRead(k)
              /\ tags' = book[k].tags
              /\ at' = "tags"
              /\ UNCHANGED <<image, fileIndex>>
    <2>1. k \in DOMAIN book
      BY <1>8, <1>10 DEF CanRead
    <2>2. given = TagsLeft(tags') /\ IsSeq(tags')
      BY <1>1, <1>5, <1>10, <2>1, ImageOnPageIs DEF TagsLeft, IsBook
    <2>3. AfterTags' = OrElse(given, rest)
      BY <1>1, <1>7, <2>2, NextLeft
    <2>4. LeftGivesCover'
      BY <1>1, <1>6, <1>10, <2>3, NextLeft DEF LeftGivesCover
    <2>5. CoverTypeOK' /\ LoopsOK'
      BY <1>1, <1>3, <1>10, <2>2 DEF CoverInv, CoverTypeOK, LoopsOK
    <2>6. QED
      BY <1>1, <2>4, <2>5 DEF CoverInv
  <1>11. CASE /\ ~Accepted(object) \/ (object.leads_to = "page" /\ ~CanRead(k))
              /\ UNCHANGED <<at, tags, image, fileIndex>>
    <2>1. given = None
      BY <1>5, <1>11
    <2>2. LeftGivesCover'
      BY <1>1, <1>6, <1>7, <1>11, <2>1, NextLeft, OrElseFacts DEF LeftGivesCover
    <2>3. CoverTypeOK' /\ LoopsOK'
      BY <1>1, <1>3, <1>11 DEF CoverInv, CoverTypeOK, LoopsOK
    <2>4. QED
      BY <1>1, <2>2, <2>3 DEF CoverInv
  <1>12. QED
    BY <1>2, <1>9, <1>10, <1>11 DEF object, k

LEMMA NoMoreObjectsKeeps ==
    ASSUME CoverInv, NoMoreObjects
    PROVE  CoverInv'
  <1>1. /\ at = "objects" /\ objects = <<>> /\ at' = "pages" /\ stage = HHC
        /\ IsSeq(objects) /\ count \in Nat
        /\ UNCHANGED <<book, stage, endings, page, objects, count, tags, image, fileIndex,
                       bitmap>>
    BY DEF CoverInv, LoopsOK, NoMoreObjects
  <1>2. LeftGivesCover'
    <2>1. AfterObjects = AfterPages
      BY <1>1, ObjectsLeftStep, OrElseFacts DEF AfterObjects
    <2>2. AfterPages' = AfterPages
      BY <1>1, NextLeft DEF AfterPages
    <2>3. QED
      BY <1>1, <2>1, <2>2, NextLeft DEF CoverInv, LeftGivesCover
  <1>3. CoverTypeOK' /\ LoopsOK'
    BY <1>1 DEF CoverInv, CoverTypeOK, LoopsOK
  <1>4. QED
    BY <1>1, <1>2, <1>3 DEF CoverInv

\* What a page or an hhc file has before it is looked through.
LEMMA BeginsWhole ==
    ASSUME IsBook, NEW k \in DOMAIN book
    PROVE  /\ PageGives[k] = TagsLeft(book[k].tags)
           /\ HhcGives[k] = ObjectsLeft(book[k].objects, 0)
  <1>1. PageGives[k] = TagsLeft(book[k].tags)
    BY ImageOnPageIs DEF PageGives, TagsLeft
  <1>2. HhcGives[k] = ObjectsLeft(book[k].objects, 0)
    <2> DEFINE objs == book[k].objects
    <2>1. \A o \in DOMAIN objs : 0 + o = o
      BY DEF IsBook, IsSeq
    <2>2. [o \in DOMAIN objs |-> ObjectGives(objs[o], o)]
            = [o \in DOMAIN objs |-> ObjectGives(objs[o], 0 + o)]
      BY <2>1
    <2>3. QED
      BY <2>2, ImageOfHhcIs DEF HhcGives, ObjectsLeft
  <1>3. QED
    BY <1>1, <1>2

LEMMA ReadPageKeeps ==
    ASSUME CoverInv, ReadPage
    PROVE  CoverInv'
  <1> DEFINE k == Found
             rest == OrElse(PagesLeft(stage, endings, k + 1), StagesLeft(stage))
  <1>1. /\ IsBook /\ at = "pages" /\ endings # <<>> /\ page \in Nat \ {0} /\ CanRead(k)
        /\ page' = k + 1 /\ tags = <<>> /\ IsSeq(tags)
        /\ UNCHANGED <<book, stage, endings, image, fileIndex, bitmap>>
    BY BookFacts DEF CoverInv, CoverTypeOK, LoopsOK, IsBook, ReadPage
  <1>2. k = Shallowest(Head(endings), page)
    BY DEF Found
  <1> HIDE DEF k
  <1>3. k \in DOMAIN book /\ k # None /\ k + 1 \in 1 .. Len(book) + 1
    BY <1>1, <1>2, FoundRange DEF CanRead, IsBook
  <1>4. CoverTypeOK'
    <2>1. at' \in {"tags", "objects"}
      BY DEF ReadPage
    <2>2. QED
      BY <1>1, <1>3, <2>1 DEF CoverInv, CoverTypeOK
  <1>5. AfterPages = Cover
    BY <1>1 DEF CoverInv, LeftGivesCover
  <1>6. AfterPages' = rest
    BY <1>1, NextLeft
  <1>7. CASE stage = HHC
    <2>1. at' = "objects" /\ objects' = book[k].objects /\ count' = 0 /\ tags' = tags
      BY <1>7 DEF ReadPage, k
    <2>2. PagesLeft(stage, endings, page) = OrElse(HhcGives[k], PagesLeft(stage, endings, k + 1))
      BY <1>1, <1>2, <1>7, UpToStep DEF PagesLeft
    <2>3. Cover = OrElse(ObjectsLeft(objects', count'), rest)
      <3> HIDE DEF rest
      <3>1. rest = OrElse(PagesLeft(stage, endings, k + 1), StagesLeft(stage))
        BY DEF rest
      <3>2. QED
        BY <1>1, <1>3, <1>5, <2>1, <2>2, <3>1, BeginsWhole, OrElseFacts DEF AfterPages
    <2>4. LeftGivesCover'
      BY <1>1, <1>6, <1>7, <2>1, <2>3, NextLeft DEF LeftGivesCover
    <2>5. LoopsOK'
      BY <1>1, <1>3, <1>7, <2>1 DEF CoverInv, LoopsOK, IsBook
    <2>6. QED
      BY <1>1, <1>4, <2>4, <2>5 DEF CoverInv
  <1>8. CASE stage # HHC
    <2>1. at' = "tags" /\ tags' = book[k].tags /\ UNCHANGED <<objects, count>>
      BY <1>8 DEF ReadPage, k
    <2>2. PagesLeft(stage, endings, page) = OrElse(PageGives[k], PagesLeft(stage, endings, k + 1))
      BY <1>1, <1>2, <1>8, PastStep, OrElseFacts DEF PagesLeft
    <2>3. Cover = OrElse(TagsLeft(tags'), rest)
      <3> HIDE DEF rest
      <3>1. rest = OrElse(PagesLeft(stage, endings, k + 1), StagesLeft(stage))
        BY DEF rest
      <3>2. QED
        BY <1>1, <1>3, <1>5, <2>1, <2>2, <3>1, BeginsWhole, OrElseFacts DEF AfterPages
    <2>4. LeftGivesCover'
      BY <1>1, <1>6, <1>8, <2>1, <2>3, NextLeft DEF LeftGivesCover
    <2>5. LoopsOK'
      BY <1>1, <1>3, <1>8, <2>1 DEF CoverInv, LoopsOK, IsBook
    <2>6. QED
      BY <1>1, <1>4, <2>4, <2>5 DEF CoverInv
  <1>9. QED
    BY <1>7, <1>8

LEMMA NoPageKeeps ==
    ASSUME CoverInv, NoPage
    PROVE  CoverInv'
  <1> DEFINE k == Found
  <1>1. /\ IsBook /\ at = "pages" /\ endings # <<>> /\ IsSeq(endings)
        /\ page \in Nat \ {0} /\ ~CanRead(k)
        /\ UNCHANGED <<book, stage, at, objects, count, tags, image, fileIndex, bitmap>>
    BY BookFacts DEF CoverInv, CoverTypeOK, LoopsOK, IsBook, NoPage
  <1>2. k = Shallowest(Head(endings), page)
    BY DEF Found
  <1>3. IF k # None /\ stage # HHC
        THEN page' = k + 1 /\ UNCHANGED endings
        ELSE page' = 1 /\ endings' = Tail(endings)
    BY DEF NoPage
  <1> HIDE DEF k
  <1>4. AfterPages = Cover
    BY <1>1 DEF CoverInv, LeftGivesCover
  <1>5. AfterPages' = OrElse(PagesLeft(stage, endings', page'), StagesLeft(stage))
    BY <1>1, NextLeft
  <1>6. CASE k # None /\ stage # HHC
    <2>1. k + 1 \in 1 .. Len(book) + 1
      BY <1>1, <1>2, <1>6, FoundRange DEF IsBook
    <2>2. PagesLeft(stage, endings, page) = PagesLeft(stage, endings, k + 1)
      BY <1>1, <1>2, <1>6, PastStep DEF PagesLeft
    <2>3. LeftGivesCover'
      BY <1>1, <1>3, <1>4, <1>5, <1>6, <2>2, NextLeft DEF LeftGivesCover, AfterPages
    <2>4. CoverTypeOK' /\ LoopsOK'
      BY <1>1, <1>3, <1>6, <2>1 DEF CoverInv, CoverTypeOK, LoopsOK
    <2>5. QED
      BY <1>1, <2>3, <2>4 DEF CoverInv
  <1>7. CASE ~(k # None /\ stage # HHC)
    <2>1. endings' = Tail(endings) /\ page' = 1 /\ IsSeq(Tail(endings))
      BY <1>1, <1>3, <1>7, SeqFacts
    <2>2. PagesLeft(stage, endings, page) = PagesLeft(stage, Tail(endings), 1)
      <3>1. CASE stage = HHC
        <4>1. Tail(endings) = <<>>
          BY <1>1, <3>1 DEF CoverInv, LoopsOK
        <4>2. PagesLeft(stage, endings, page) = None
          BY <1>1, <1>2, <3>1, UpToStep DEF PagesLeft
        <4>3. QED
          BY <4>1, <4>2 DEF PagesLeft
      <3>2. CASE stage # HHC
        <4>1. PastUnreadable(Head(endings), page, PageGives) = None
          BY <1>1, <1>2, <1>7, <3>2, PastStep
        <4>2. PagesLeft(stage, endings, page) = EndingsLeft(Tail(endings))
          BY <1>1, <3>2, <4>1, OrElseFacts DEF PagesLeft
        <4>3. EndingsLeft(Tail(endings)) = PagesLeft(stage, Tail(endings), 1)
          BY <1>1, <2>1, <3>2, EndingsLeftStep, ImageOnPagesIs DEF PagesLeft
        <4>4. QED
          BY <4>2, <4>3
      <3>3. QED
        BY <3>1, <3>2
    <2>3. LeftGivesCover'
      BY <1>1, <1>4, <1>5, <2>1, <2>2, NextLeft DEF LeftGivesCover, AfterPages
    <2>4. page' \in 1 .. Len(book') + 1
      BY <1>1, <2>1 DEF IsBook
    <2>5. stage' = HHC => endings' = <<>>
      BY <1>1, <2>1 DEF CoverInv, LoopsOK
    <2>6. CoverTypeOK' /\ LoopsOK'
      BY <1>1, <2>1, <2>4, <2>5 DEF CoverInv, CoverTypeOK, LoopsOK
    <2>7. QED
      BY <1>1, <2>3, <2>6 DEF CoverInv
  <1>8. QED
    BY <1>6, <1>7

LEMMA NextStageKeeps ==
    ASSUME CoverInv, NextStage
    PROVE  CoverInv'
  <1> DEFINE s == stage + 1
  <1>1. /\ IsBook /\ at = "pages" /\ endings = <<>> /\ tags = <<>> /\ IsSeq(tags)
        /\ stage \in 0 .. 5 /\ s \in 1 .. 6 /\ stage' = s
        /\ UNCHANGED <<book, objects, count, tags, bitmap>>
    BY BookFacts, StageFacts DEF CoverInv, CoverTypeOK, LoopsOK, NextStage, BeginStage
  <1>2. \/ /\ Stages[s].by = "name" /\ image' = Stages[s].image /\ fileIndex' = 1
           /\ at' = "image" /\ UNCHANGED <<endings, page>>
        \/ /\ Stages[s].by = "pages" /\ endings' = Stages[s].endings /\ page' = 1
           /\ at' = "pages" /\ UNCHANGED <<image, fileIndex>>
    BY DEF NextStage, BeginStage, LookFor
  <1>3. Cover = OrElse(ImageOfStage(s), StagesLeft(s))
    <2>1. AfterPages = Cover
      BY <1>1 DEF CoverInv, LeftGivesCover
    <2>2. AfterPages = StagesLeft(stage)
      BY <1>1, OrElseFacts DEF AfterPages, PagesLeft
    <2>3. QED
      BY <1>1, <2>1, <2>2, StagesLeftStep
  <1>4. s \in 1 .. Len(Stages) /\ 1 \in 1 .. Len(book) + 1
    BY <1>1, StageFacts DEF IsBook
  <1> HIDE DEF s
  <1>5. CASE /\ Stages[s].by = "name" /\ image' = Stages[s].image /\ fileIndex' = 1
             /\ at' = "image" /\ UNCHANGED <<endings, page>>
    <2>1. s # HHC
      BY <1>1, <1>5, StageFacts DEF OnPages, HHC
    <2>2. ImageOfStage(s) = ImagesLeft(image', fileIndex')
      BY <1>1, <1>5, StageBegins
    <2>3. AfterPages' = StagesLeft(s)
      BY <1>1, <1>5, NextLeft, OrElseFacts DEF PagesLeft
    <2>4. AfterTags' = StagesLeft(s)
      <3>1. TagsLeft(tags') = None
        BY <1>1, TagsLeftStep
      <3>2. QED
        BY <1>1, <2>1, <2>3, <3>1, NextLeft, OrElseFacts
    <2>5. LeftGivesCover'
      BY <1>1, <1>3, <1>5, <2>2, <2>4, NextLeft DEF LeftGivesCover
    <2>6. CoverTypeOK' /\ LoopsOK'
      BY <1>1, <1>4, <1>5, <2>1 DEF CoverInv, CoverTypeOK, LoopsOK
    <2>7. QED
      BY <1>1, <2>5, <2>6 DEF CoverInv
  <1>6. CASE /\ Stages[s].by = "pages" /\ endings' = Stages[s].endings /\ page' = 1
             /\ at' = "pages" /\ UNCHANGED <<image, fileIndex>>
    <2>1. /\ IsSeq(Stages[s].endings)
          /\ s = HHC => Stages[s].endings = HhcExtension
      BY <1>1, <1>6, StageKinds, StageFacts DEF ByName
    <2>2. s = HHC => Tail(endings') = <<>>
      <3>1. ASSUME s = HHC
            PROVE  Tail(HhcExtension) = <<>>
        <4>1. HhcExtension \in Seq(Range(HhcExtension)) /\ Len(HhcExtension) = 1
          BY EndingsAssumption
        <4>2. QED
          BY <4>1, TailOfOne
      <3>2. QED
        BY <1>6, <2>1, <3>1
    <2>3. ImageOfStage(s) = PagesLeft(s, endings', page')
      BY <1>1, <1>6, StageBegins
    <2>4. LeftGivesCover'
      BY <1>1, <1>3, <1>6, <2>3, NextLeft DEF LeftGivesCover
    <2>5. CoverTypeOK' /\ LoopsOK'
      BY <1>1, <1>4, <1>6, <2>1, <2>2 DEF CoverInv, CoverTypeOK, LoopsOK
    <2>6. QED
      BY <1>1, <2>4, <2>5 DEF CoverInv
  <1>7. QED
    BY <1>2, <1>5, <1>6

LEMMA NoCoverKeeps ==
    ASSUME CoverInv, NoCover
    PROVE  CoverInv'
  <1>1. /\ at = "pages" /\ endings = <<>> /\ stage = 6 /\ at' = "done" /\ bitmap = None
        /\ UNCHANGED <<book, stage, endings, page, objects, count, tags, image, fileIndex,
                       bitmap>>
    BY StageFacts DEF CoverInv, LoopsOK, NoCover
  <1>2. Cover = None
    BY <1>1, StagesLeftStep, OrElseFacts DEF CoverInv, LeftGivesCover, AfterPages, PagesLeft
  <1>3. LeftGivesCover'
    BY <1>1, <1>2, NextLeft DEF LeftGivesCover
  <1>4. CoverTypeOK' /\ LoopsOK'
    BY <1>1 DEF CoverInv, CoverTypeOK, LoopsOK
  <1>5. QED
    BY <1>1, <1>3, <1>4 DEF CoverInv

LEMMA CoverStepKeeps ==
    ASSUME CoverInv, CoverNext
    PROVE  CoverInv'
  BY ImageFoundKeeps, ImageWillNotDoKeeps, NoImageKeeps, NextTagKeeps, NoMoreTagsKeeps,
     NextObjectKeeps, NoMoreObjectsKeeps, ReadPageKeeps, NoPageKeeps, NextStageKeeps,
     NoCoverKeeps DEF CoverNext

-----------------------------------------------------------------------------
(* The programs *)

LEMMA ToolStutters ==
    ASSUME ToolInv, UNCHANGED toolVars
    PROVE  ToolInv'
  <1>1. /\ UNCHANGED <<job, step, reader, chm, i, offset, fs, incomplete, lost, ok>>
        /\ n_entries' = n_entries /\ e' = e /\ \A k : Target(k)' = Target(k)
    BY DEF toolVars, n_entries, e, Target
  <1>2. \A k : Done(k)' = Done(k)
    <2>1. \A k : Skipped(k)' = Skipped(k)
      BY <1>1 DEF Skipped
    <2>2. \A k : Overwritten(k)' = Overwritten(k)
      BY <1>1 DEF Overwritten
    <2>3. \A k : Given(k)' = Given(k)
      BY <1>1 DEF Given
    <2>4. \A k : ExtractedEntry(k)' = ExtractedEntry(k)
      BY <1>1, <2>3 DEF ExtractedEntry, IsDir
    <2>5. QED
      BY <2>1, <2>2, <2>4 DEF Done
  <1>3. Passed' /\ Opens' /\ Reports'
    BY <1>1, <1>2 DEF ToolInv, Passed, Opens, ToolClosesUp, Reports
  <1>4. Copying' /\ ToolTypeOK'
    BY <1>1 DEF ToolInv, Copying, ToolTypeOK
  <1>5. QED
    BY <1>1, <1>3, <1>4 DEF ToolInv

LEMMA CoverStutters ==
    ASSUME CoverInv, UNCHANGED coverVars
    PROVE  CoverInv'
  <1>1. UNCHANGED <<book, stage, at, endings, page, objects, count, tags, image, fileIndex,
                    bitmap>>
    BY DEF coverVars
  <1>2. LeftGivesCover'
    BY <1>1, NextLeft DEF CoverInv, LeftGivesCover, AfterImages, AfterTags, AfterObjects,
       AfterPages
  <1>3. CoverTypeOK' /\ LoopsOK'
    BY <1>1 DEF CoverInv, CoverTypeOK, LoopsOK
  <1>4. QED
    BY <1>1, <1>2, <1>3 DEF CoverInv

ClientsInv == ToolInv /\ CoverInv

LEMMA ClientsInvariant ==
    Spec => []ClientsInv
  <1>1. Init => ClientsInv
    <2>1. NoJob \in Jobs /\ NoBook \in Books
      BY JobsAssumption, BooksAssumption DEF NoJob, NoBook
    <2>2. QED
      BY <2>1, ToolInitInv, CoverInitInv DEF Init, ClientsInv
  <1>2. ClientsInv /\ [Next]_vars => ClientsInv'
    <2> SUFFICES ASSUME ClientsInv, [Next]_vars
                 PROVE  ClientsInv'
      OBVIOUS
    <2>1. CASE RunTool
      BY <2>1, ToolStepKeeps, CoverStutters DEF RunTool, ClientsInv
    <2>2. CASE FindCover
      BY <2>2, ToolStutters, CoverStepKeeps DEF FindCover, ClientsInv
    <2>3. CASE UNCHANGED vars
      BY <2>3, ToolStutters, CoverStutters DEF vars, ClientsInv
    <2>4. QED
      BY <2>1, <2>2, <2>3 DEF Next
  <1>3. QED
    BY <1>1, <1>2, PTL DEF Spec

\* Type correctness: the places of all loops stay in the archive they go over,
\* whatever the entries, the file system and the book are.
THEOREM ClientsTypeCorrect ==
    Spec => []TypeOK
  <1>1. ClientsInv => TypeOK
    BY DEF ClientsInv, ToolInv, CoverInv, TypeOK
  <1>2. QED
    BY <1>1, ClientsInvariant, PTL

\* extract has extracted what comes before the entry it is at, as a directory
\* or as a file that holds the entry, and reports success only at the end of a
\* directory that could be read: whatever was below the target directory
\* before, however the paths lie above and below each other, and whatever
\* open, mkdir and fwrite do.
THEOREM ExtractsInOrderHolds ==
    Spec => []ExtractsInOrder
  <1>1. ClientsInv => ExtractsInOrder
    BY DEF ClientsInv, ToolInv, Passed, Reports, Done, ExtractsInOrder
  <1>2. QED
    BY <1>1, ClientsInvariant, PTL

\* The tools close the archive and the reader on every path but the one on
\* which enum returns from a partial directory.
THEOREM ToolClosesUpHolds ==
    Spec => []ToolClosesUp
  <1>1. ClientsInv => ToolClosesUp
    BY DEF ClientsInv, ToolInv, Opens
  <1>2. QED
    BY <1>1, ClientsInvariant, PTL

\* The nested loops of the cover finder, whose positions are shared between
\* stages and go back and forth, come to the image the stages amount to, in
\* every archive.
THEOREM CoverOfFirstStageHolds ==
    Spec => []CoverOfFirstStage
  <1>1. ClientsInv => CoverOfFirstStage
    BY DEF ClientsInv, CoverInv, LeftGivesCover, Cover, CoverOfFirstStage
  <1>2. QED
    BY <1>1, ClientsInvariant, PTL

=============================================================================
