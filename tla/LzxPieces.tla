------------------------------- MODULE LzxPieces -------------------------------
(***************************************************************************)
(* The pieces lzx_decompress is made of, each on inputs of its own: the    *)
(* tables of the Huffman codes, the bit stream, the offsets of matches and *)
(* the translation of calls.                                               *)
(***************************************************************************)
EXTENDS LzxDecodeTable, LzxBits, LzxOffsets, LzxCalls

VARIABLE piece    \* which of them a behaviour is about

vars == <<piece, tableVars, bitsVars, match, callsVars>>

One(S) == {CHOOSE x \in S : TRUE}

\* What a behaviour is not about stands at one of its beginnings.
For(p, S) == IF piece = p THEN S ELSE One(S)

Init ==
    /\ piece \in {"table", "bits", "offsets", "calls"}
    /\ TableInit(For("table", Lengths))
    /\ BitsInit(For("bits", Inlen))
    /\ OffsetsInit
    /\ CallsInit(For("calls", Contents))

BuildTable ==
    /\ piece = "table" /\ TableNext
    /\ UNCHANGED <<piece, bitsVars, match, callsVars>>

ReadStream ==
    /\ piece = "bits" /\ BitsNext
    /\ UNCHANGED <<piece, tableVars, match, callsVars>>

ReadMatch ==
    /\ piece = "offsets" /\ OffsetsNext
    /\ UNCHANGED <<piece, tableVars, bitsVars, callsVars>>

Translate ==
    /\ piece = "calls" /\ CallsNext
    /\ UNCHANGED <<piece, tableVars, bitsVars, match>>

Next == BuildTable \/ ReadStream \/ ReadMatch \/ Translate

Spec == Init /\ [][Next]_vars

\* Loops on their caller's thread that wait for nothing.
FairSpec == Spec /\ WF_vars(BuildTable) /\ WF_vars(Translate)

-----------------------------------------------------------------------------
(* Properties *)

TypeOK == TableTypeOK /\ BitsTypeOK

\* The loops over code lengths and symbols, and over the bytes of a frame,
\* come to their end.
LoopsEnd ==
    /\ piece = "table" ~> TableDone
    /\ piece = "calls" ~> CallsDone

=============================================================================
