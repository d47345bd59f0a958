------------------------------- MODULE FdReader -------------------------------
(***************************************************************************)
(* fd_reader: the chm_reader on a file descriptor.  It asks for the file   *)
(* position, moves it, reads and moves it back, in four system calls; the  *)
(* position belongs to the open file, so threads that use the same         *)
(* fd_reader_ctx share it.  A byte of the file is known by its offset.     *)
(***************************************************************************)
EXTENDS Integers, SequencesExt

CONSTANTS
    Thread,
    FileLen     \* bytes in the file

ASSUME FileAssumption == FileLen \in Nat

VARIABLES
    file_pos,   \* the position of the open file
    reader      \* thread -> where it is in fd_reader, arguments and locals

readerVars == <<file_pos, reader>>

NotReading == [at |-> "out", off |-> 0, len |-> 0, oldOff |-> 0, data |-> <<>>]

ReaderInit ==
    /\ file_pos = 0
    /\ reader = [t \in Thread |-> NotReading]

ReaderTypeOK ==
    /\ file_pos \in Nat
    /\ reader \in [Thread -> [at : {"out", "tell", "seek", "read", "restore"},
                              off : Int, len : Nat, oldOff : Nat,
                              data : Seq(0 .. FileLen - 1)]]

\* t calls fd_reader with the offset and the length it wants.
CallReader(t, off, len) ==
    /\ reader' = [reader EXCEPT ![t] = [NotReading EXCEPT !.at = "tell",
                                          !.off = off, !.len = len]]
    /\ UNCHANGED file_pos

\* oldOff = lseek(fd, 0, SEEK_CUR)
Tell(t) ==
    /\ reader[t].at = "tell"
    /\ reader' = [reader EXCEPT ![t].at = "seek", ![t].oldOff = file_pos]
    /\ UNCHANGED file_pos

\* Mutant: the position is left where it is.
SeekNowhere(t) ==
    /\ reader[t].at = "seek"
    /\ reader' = [reader EXCEPT ![t].at = "read"]
    /\ UNCHANGED file_pos

\* lseek(fd, off, SEEK_SET): it fails, unnoticed, in front of the file.
Seek(t) ==
    /\ reader[t].at = "seek"
    /\ file_pos' = IF reader[t].off < 0 THEN file_pos ELSE reader[t].off
    /\ reader' = [reader EXCEPT ![t].at = "read"]

\* The bytes read(2) finds from the position on: fewer than asked for at the
\* end of the file, none past it.
BytesAt(pos, len) ==
    LET n == IF pos >= FileLen THEN 0
             ELSE IF pos + len > FileLen THEN FileLen - pos ELSE len
    IN  [k \in 1 .. n |-> pos + k - 1]

\* Mutant: a short read is taken for a whole one.
ReadWhole(t) ==
    /\ reader[t].at = "read"
    /\ LET bytes == [k \in 1 .. reader[t].len |-> file_pos + k - 1]
       IN  /\ reader' = [reader EXCEPT ![t].at = "restore", ![t].data = bytes]
           /\ file_pos' = file_pos + Len(bytes)

\* read(fd, buf, len) moves the position by what it read.
Read(t) ==
    /\ reader[t].at = "read"
    /\ LET bytes == BytesAt(file_pos, reader[t].len)
       IN  /\ reader' = [reader EXCEPT ![t].at = "restore", ![t].data = bytes]
           /\ file_pos' = file_pos + Len(bytes)

\* lseek(fd, oldOff, SEEK_SET), and back to the caller with the bytes read.
Restore(t) ==
    /\ reader[t].at = "restore"
    /\ file_pos' = reader[t].oldOff
    /\ reader' = [reader EXCEPT ![t].at = "out"]

\* A thread inside fd_reader.
ReaderStep(t) == Tell(t) \/ Seek(t) \/ Read(t) \/ Restore(t)

\* "Reads len bytes from offset off": the bytes t got are those at the offset
\* it asked for.
ReadsAtOffset ==
    \A t \in Thread : reader[t].at = "restore" =>
        IsPrefix(reader[t].data, BytesAt(reader[t].off, reader[t].len))

=============================================================================
