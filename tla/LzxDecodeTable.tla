---------------------------- MODULE LzxDecodeTable ----------------------------
(***************************************************************************)
(* make_decode_table: from the code lengths of a canonical Huffman code to *)
(* the table READ_HUFFSYM looks symbols up in.  Codes of NBits or less are *)
(* found in one lookup; a longer one follows a chain of pairs behind the   *)
(* direct part.  A step of the model places one symbol or goes on to the   *)
(* next code length.                                                       *)
(***************************************************************************)
EXTENDS Integers, FiniteSetsExt

CONSTANTS
    NSyms,    \* MAXSYMBOLS(tbl)
    NBits,    \* TABLEBITS(tbl)
    Lengths,  \* the code lengths a run is given, symbol -> length
    PeekBits  \* bits of the stream that tell the codes of a run apart

MaxCodeBits == 16

Symbols == 0 .. NSyms - 1

\* An entry of NSyms or more is the number of a pair, never a symbol: pairs
\* are numbered from half the direct part on.
ASSUME SizeAssumption ==
    /\ NSyms \in Nat \ {0}
    /\ NBits \in 1 .. MaxCodeBits
    /\ NSyms <= 2 ^ (NBits - 1)
    /\ PeekBits \in NBits .. MaxCodeBits
ASSUME LengthAssumption ==
    Lengths \subseteq [Symbols -> 0 .. PeekBits] /\ Lengths # {}

VARIABLES
    length,       \* symbol -> length of its code, 0 for none
    table,        \* entry -> symbol or pair
    pos,          \* where the next code goes
    table_mask,   \* the end of the code space pos moves in
    bit_num,      \* the code length being placed
    bit_mask,     \* how much of the code space such a code takes
    sym,          \* symbols from here on are still to be looked at
    next_symbol,  \* the next pair
    pc, ret

tableVars == <<length, table, pos, table_mask, bit_num, bit_mask, sym, next_symbol, pc, ret>>

Direct    == 2 ^ NBits
TableSize == Direct + 2 * NSyms

Old == -1    \* what an entry holds before anything is written to it

\* Mutant: pairs are numbered by their entry, not by half of it.
FirstEntry == Direct

\* The first pair lies right behind the direct part.
FirstPair == Direct \div 2

TableInit(lengths) ==
    /\ length \in lengths
    /\ table = [k \in 0 .. TableSize - 1 |-> Old]
    /\ pos = 0
    /\ table_mask = Direct
    /\ bit_num = 1
    /\ bit_mask = Direct \div 2
    /\ sym = 0
    /\ next_symbol = FirstPair
    /\ pc = "direct"
    /\ ret = 0

-----------------------------------------------------------------------------

\* The symbols with a code of this length that are still to be placed.
Unplaced == {s \in Symbols : s >= sym /\ length[s] = bit_num}

Return(r) ==
    /\ ret' = r
    /\ pc' = "done"

\* Mutant: the end of the table is not looked at.
TakenUnchecked ==
    /\ pos' = pos + bit_mask
    /\ UNCHANGED <<pc, ret>>

\* The code takes its part of the code space; there may be none left.
Taken ==
    /\ pos' = pos + bit_mask
    /\ IF pos' > table_mask THEN Return(1) ELSE UNCHANGED <<pc, ret>>

DirectSymbol ==
    /\ pc = "direct"
    /\ bit_num <= NBits
    /\ Unplaced # {}
    /\ Taken
    /\ table' = IF pos' > table_mask THEN table
                ELSE [k \in DOMAIN table |->
                        IF k \in pos .. pos' - 1 THEN Min(Unplaced) ELSE table[k]]
    /\ sym' = Min(Unplaced) + 1
    /\ UNCHANGED <<length, table_mask, bit_num, bit_mask, next_symbol>>

\* Mutant: the code length stays.
NextLengthSame ==
    /\ sym' = 0
    /\ bit_mask' = bit_mask \div 2
    /\ UNCHANGED bit_num

NextLength ==
    /\ bit_num' = bit_num + 1
    /\ bit_mask' = bit_mask \div 2
    /\ sym' = 0

DirectLengthDone ==
    /\ pc = "direct"
    /\ bit_num <= NBits
    /\ Unplaced = {}
    /\ NextLength
    /\ UNCHANGED <<length, table, pos, table_mask, next_symbol, pc, ret>>

\* The short codes fill the direct part: longer ones are not looked at.
DirectFull ==
    /\ pc = "direct"
    /\ bit_num > NBits
    /\ pos = table_mask
    /\ Return(0)
    /\ UNCHANGED <<length, table, pos, table_mask, bit_num, bit_mask, sym, next_symbol>>

\* The rest of the direct part is cleared, and codes may grow by 16 bits.
EnterLong ==
    /\ pc = "direct"
    /\ bit_num > NBits
    /\ pos # table_mask
    /\ table' = [k \in DOMAIN table |->
                   IF k \in pos .. table_mask - 1 THEN 0 ELSE table[k]]
    /\ pos' = pos * 2 ^ 16
    /\ table_mask' = table_mask * 2 ^ 16
    /\ bit_mask' = 2 ^ 15
    /\ sym' = 0
    /\ pc' = "long"
    /\ UNCHANGED <<length, bit_num, next_symbol, ret>>

\* Mutant: the bits of a code are followed from its end.
PathBitReversed(fill) == (pos \div 2 ^ (16 + NBits - bit_num + fill)) % 2

\* The bit of the code that chooses between the entries of a pair.
PathBit(fill) == (pos \div 2 ^ (15 - fill)) % 2

\* One bit further along the path of the code being placed: an entry that is
\* 0 has not been taken and gets a pair of empty entries.
Follow(p, fill) ==
    LET q == IF p.table[p.leaf] # 0 THEN p
             ELSE [table |-> [p.table EXCEPT ![2 * p.pair] = 0, ![2 * p.pair + 1] = 0,
                                             ![p.leaf] = p.pair],
                   pair  |-> p.pair + 1,
                   leaf  |-> p.leaf]
    IN  [q EXCEPT !.leaf = 2 * q.table[q.leaf] + PathBit(fill)]

\* The path of the code at pos, to its end.
Path ==
    LET upTo[n \in 0 .. bit_num - NBits] ==
            IF n = 0
            THEN [table |-> table, pair |-> next_symbol, leaf |-> pos \div 2 ^ 16]
            ELSE Follow(upTo[n - 1], n - 1)
    IN  upTo[bit_num - NBits]

LongSymbol ==
    /\ pc = "long"
    /\ bit_num <= MaxCodeBits
    /\ Unplaced # {}
    /\ table' = [Path.table EXCEPT ![Path.leaf] = Min(Unplaced)]
    /\ next_symbol' = Path.pair
    /\ Taken
    /\ sym' = Min(Unplaced) + 1
    /\ UNCHANGED <<length, table_mask, bit_num, bit_mask>>

LongLengthDone ==
    /\ pc = "long"
    /\ bit_num <= MaxCodeBits
    /\ Unplaced = {}
    /\ NextLength
    /\ UNCHANGED <<length, table, pos, table_mask, next_symbol, pc, ret>>

Empty == \A s \in Symbols : length[s] = 0

\* Mutant: a code without symbols is an error, too.
VerdictFullOnly == IF pos = table_mask THEN 0 ELSE 1

\* A code that leaves a gap is an error, unless it has no symbol at all.
Verdict == IF pos = table_mask \/ Empty THEN 0 ELSE 1

LongDone ==
    /\ pc = "long"
    /\ bit_num > MaxCodeBits
    /\ Return(Verdict)
    /\ UNCHANGED <<length, table, pos, table_mask, bit_num, bit_mask, sym, next_symbol>>

TableNext ==
    \/ DirectSymbol
    \/ DirectLengthDone
    \/ DirectFull
    \/ EnterLong
    \/ LongSymbol
    \/ LongLengthDone
    \/ LongDone

TableDone == pc = "done"

-----------------------------------------------------------------------------
(* READ_HUFFSYM *)

Bit(bits, n) == (bits \div 2 ^ (MaxCodeBits - n)) % 2

\* The symbol READ_HUFFSYM finds for the next 16 bits of the stream: the
\* direct entry, and from a pair on one bit after the other.  A number that
\* is still a pair after PeekBits bits is one that no code ends at.
Lookup(bits) ==
    LET along[n \in NBits .. MaxCodeBits] ==
            IF n = NBits THEN table[bits \div 2 ^ (MaxCodeBits - NBits)]
            ELSE IF along[n - 1] < NSyms THEN along[n - 1]
            ELSE table[2 * along[n - 1] + Bit(bits, n)]
    IN  along[PeekBits]

-----------------------------------------------------------------------------
(* The canonical code, by its definition: codes are handed out in the order *)
(* of their lengths, and of the symbols where the lengths are equal.        *)

Space(s) == 2 ^ (MaxCodeBits - length[s])

Coded == {s \in Symbols : length[s] # 0}

Precedes(s, t) ==
    \/ length[s] < length[t]
    \/ /\ length[s] = length[t]
       /\ s < t

\* Where the code of a symbol starts.
FirstCode(s) == MapThenSumSet(Space, {t \in Coded : Precedes(t, s)})

CodeSpace == MapThenSumSet(Space, Coded)

Complete == CodeSpace = 2 ^ MaxCodeBits

\* The next 16 bits of a stream, cut where the codes of the run end.
Peeks == {k * 2 ^ (MaxCodeBits - PeekBits) : k \in 0 .. 2 ^ PeekBits - 1}

-----------------------------------------------------------------------------
(* Properties *)

\* The pairs of a complete code fit behind the direct part, for which
\* LZX_DECLARE_TABLE sets aside two entries for each symbol; nothing is said
\* of the pairs of a code that turns out to be incomplete.
TableTypeOK ==
    /\ length \in [Symbols -> 0 .. MaxCodeBits]
    /\ pos \in 0 .. table_mask \/ ret = 1
    /\ table_mask \in {Direct, Direct * 2 ^ 16}
    /\ bit_num \in 1 .. MaxCodeBits + 1
    /\ bit_mask \in 0 .. 2 ^ 15
    /\ sym \in 0 .. NSyms
    /\ pc \in {"direct", "long", "done"}
    /\ ret \in {0, 1}
    /\ pc = "direct" \/ Complete =>
         /\ table \in [0 .. TableSize - 1 -> {Old} \union 0 .. TableSize]
         /\ next_symbol >= FirstPair /\ 2 * next_symbol <= TableSize

\* A table that is handed out decodes every stream: whatever the next bits
\* are, the symbol looked up is the one whose canonical code they start with.
DecodesCanonically ==
    pc = "done" /\ ret = 0 /\ ~Empty =>
        \A bits \in Peeks :
            /\ Lookup(bits) \in Coded
            /\ bits - FirstCode(Lookup(bits)) \in 0 .. Space(Lookup(bits)) - 1

\* Exactly the codes that leave no gap, and the code without symbols, are
\* accepted; one that has too many codes is refused unless its short codes
\* alone are complete, and then the rest of it is never looked at.
RefusesBadCodes ==
    pc = "done" =>
        /\ Complete \/ Empty => ret = 0
        /\ CodeSpace < 2 ^ MaxCodeBits /\ ~Empty => ret = 1
        /\ ret = 0 /\ ~Empty =>
             \E k \in 1 .. MaxCodeBits :
                 MapThenSumSet(Space, {s \in Coded : length[s] <= k}) = 2 ^ MaxCodeBits

=============================================================================
