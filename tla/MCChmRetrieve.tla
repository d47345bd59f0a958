---------------------------- MODULE MCChmRetrieve ----------------------------
(* Small instances of ChmRetrieve for TLC. *)
EXTENDS ChmRetrieve, TLC

\* Blocks of two bytes, intervals of three blocks.  The compressed entry starts
\* and ends inside a block and spans two reset intervals; the others lie in the
\* uncompressed section and in a section the library ignores.
MCEntry == {[space |-> CHM_COMPRESSED,   start |-> 1, length |-> 8],
            [space |-> CHM_UNCOMPRESSED, start |-> 4, length |-> 2],
            [space |-> 2,                start |-> 0, length |-> 1]}

\* Intervals of two blocks, for the runs with more nondeterminism.
MCShortEntry == {[space |-> CHM_COMPRESSED, start |-> 1, length |-> 6]}

BufSymmetry == Permutations(Buf)
=============================================================================
