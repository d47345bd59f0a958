------------------------------ MODULE LzxOffsets ------------------------------
(***************************************************************************)
(* Match offsets: the position slots of a window, and how the slot and the *)
(* bits behind it make an offset in VERBATIM and in ALIGNED blocks.        *)
(***************************************************************************)
EXTENDS Integers, Sequences, FiniteSetsExt

CONSTANT Offsets   \* window -> the offsets an encoder uses in it

Slot == 0 .. 50

extra_bits == [s \in Slot |-> IF s < 4 THEN 0 ELSE IF s < 36 THEN s \div 2 - 1 ELSE 17]

position_base == [s \in Slot |->
    << 0, 1, 2, 3, 4, 6, 8, 12, 16, 24, 32, 48, 64, 96, 128, 192, 256, 384, 512,
       768, 1024, 1536, 2048, 3072, 4096, 6144, 8192, 12288, 16384, 24576, 32768,
       49152, 65536, 98304, 131072, 196608, 262144, 393216, 524288, 655360, 786432,
       917504, 1048576, 1179648, 1310720, 1441792, 1572864, 1703936, 1835008,
       1966080, 2097152 >>[s + 1]]

Windows == 15 .. 21

\* A match begins in the window, and three formatted offsets are the repeated
\* ones.
ASSUME OffsetsAssumption ==
    /\ Offsets \in [Windows -> SUBSET Nat]
    /\ \A window \in Windows : Offsets[window] \subseteq 1 .. 2 ^ window - 3

\* Mutant: two slots for each bit of every window.
PosnSlotsDoubled(window) == 2 * window

posn_slots(window) ==
    CASE window = 20 -> 42
      [] window = 21 -> 50
      [] OTHER -> 2 * window

VARIABLE match   \* the offset the encoder means, and the one that is read

NoMatch == [window |-> 15, meant |-> 0, slot |-> 0, read |-> 0]

OffsetsInit == match = NoMatch

\* Slots 0 to 2 are the repeated offsets; READ_BITS is never asked for 0 bits.
VerbatimOffset(slot, footer) ==
    IF slot = 3 THEN 1 ELSE position_base[slot] - 2 + footer

AlignedOffset(slot, footer) ==
    LET extra == extra_bits[slot]
        base  == position_base[slot] - 2
    IN  CASE extra > 3 -> base + (footer \div 8) * 8 + (footer % 8)
          [] extra = 3 -> base + (footer % 8)
          [] extra \in {1, 2} -> base + footer
          [] extra = 0 -> 1

\* An encoder gives an offset the slot it lies in, and the rest as the footer.
SlotOf(offset) == Max({s \in Slot : position_base[s] <= offset + 2})

ReadOffset(aligned) ==
    /\ match = NoMatch
    /\ \E window \in Windows : \E offset \in Offsets[window] :
         LET slot   == SlotOf(offset)
             footer == offset + 2 - position_base[slot]
         IN  match' = [window |-> window, meant |-> offset, slot |-> slot,
                       read |-> IF aligned THEN AlignedOffset(slot, footer)
                                ELSE VerbatimOffset(slot, footer)]

OffsetsNext == \E aligned \in BOOLEAN : ReadOffset(aligned)

\* Every offset that stays in the window is read back as it was meant, by
\* both kinds of blocks, and its slot is one main_elements has room for: the
\* two tables fit each other and the slots of every window.
OffsetsReadBack ==
    match # NoMatch =>
        /\ match.read = match.meant
        /\ match.slot \in 3 .. posn_slots(match.window) - 1
        /\ match.meant + 2 - position_base[match.slot] < 2 ^ extra_bits[match.slot]

=============================================================================
