------------------------------ MODULE MCLzxPieces ------------------------------
(* Small codes, streams, windows and frames for LzxPieces. *)
EXTENDS LzxPieces, TLC

\* Three symbols with short codes or none, the rest with any code from three
\* bits on or none, and the same back to front.
MCShort == {s \in Symbols : s < 3}

MCSome ==
    {a @@ b : a \in [MCShort -> 0 .. 3], b \in [Symbols \ MCShort -> {0} \union 3 .. PeekBits]}

\* Of these, the codes that are complete, that lack one code of the longest
\* length or have one too many, and the code without symbols.
MCNear ==
    {l \in MCSome :
        MapThenSumSet(LAMBDA s : IF l[s] = 0 THEN 0 ELSE 2 ^ (PeekBits - l[s]), Symbols)
            \in {0, 2 ^ PeekBits - 1, 2 ^ PeekBits, 2 ^ PeekBits + 1}}

MCLengths == MCNear \union {[s \in Symbols |-> l[NSyms - 1 - s]] : l \in MCNear}
\* The ends of every slot that a window has, and an offset in the middle.
MCOffsets ==
    [w \in Windows |->
        {o \in UNION {{position_base[s] - 3, position_base[s] - 2, position_base[s] - 1,
                       position_base[s] + 11, position_base[s] + 2 ^ extra_bits[s] - 3} :
                          s \in Slot} :
            o \in 1 .. 2 ^ w - 3}]

\* Frames of seven bytes: two are the part that is looked at up to the tail,
\* and two calls, one behind the other or one inside the other, have room.
MCContents ==
    {f \in [0 .. 6 -> 0 .. 3] : f[6] = 0 /\ f[5] \in {0, 3} /\ f[0] \in {1, 3}}
=============================================================================
