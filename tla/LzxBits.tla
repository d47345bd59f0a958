-------------------------------- MODULE LzxBits --------------------------------
(***************************************************************************)
(* How lzx_decompress reads its input: the bit buffer that INIT_BITSTREAM, *)
(* ENSURE_BITS, PEEK_BITS and REMOVE_BITS keep, the way from it to the     *)
(* bytes of an uncompressed block and back, and the check that the input   *)
(* is not exhausted.                                                       *)
(*                                                                         *)
(* A bit of the input is its place, <<byte, bit>>, and the buffer a        *)
(* sequence of such bits, the first to be read in front; how the stream is *)
(* to be read is kept next to it, as the number of bits read so far.       *)
(***************************************************************************)
EXTENDS Integers, Sequences

CONSTANTS
    ByteBits,   \* 8
    Inlen,      \* how long the input of a frame may be
    Reads,      \* the sizes READ_BITS is used with
    CodeLens,   \* the code lengths READ_HUFFSYM meets
    RBytes,     \* 12: the repeated offsets in front of an uncompressed block
    RawLens,    \* how long an uncompressed block may be
    Past        \* bound: how many bits are read past the end of the input

WordBits == 2 * ByteBits
BufBits  == 2 * WordBits    \* uint32_t_BITS

\* The buffer can ensure up to 17 bits.
ASSUME BitsAssumption ==
    /\ ByteBits \in Nat \ {0}
    /\ Inlen \subseteq Nat /\ Inlen # {}
    /\ Reads \subseteq 1 .. WordBits + 1
    /\ CodeLens \subseteq 1 .. WordBits
    /\ RBytes \in Nat /\ RBytes % 2 = 0
    /\ RawLens \subseteq Nat \ {0}
    /\ Past \in Nat

VARIABLES
    inlen,      \* of this call
    inpos,
    bitbuf,
    bitsleft,
    block,      \* block_type, block_length, block_remaining
    reading,    \* "on", or "refused"
    nread,      \* bits of the input the encoder has been understood up to
    got         \* the last bits read, and what the stream has there

bitsVars == <<inlen, inpos, bitbuf, bitsleft, block, reading, nread, got>>

CodedBlock == [type |-> "coded", length |-> 0, remaining |-> 0]
Zero  == <<>>     \* a bit of the buffer nothing has been read to
Clash == <<-1>>   \* two bits on top of each other

NoBits == [k \in 1 .. BufBits |-> Zero]

BitsInit(inlens) ==
    /\ inlen \in inlens
    /\ inpos = 0
    /\ bitbuf = NoBits
    /\ bitsleft = 0
    /\ block = CodedBlock
    /\ reading = "on"
    /\ nread = 0
    /\ got = [is |-> <<>>, meant |-> <<>>]

-----------------------------------------------------------------------------
(* The macros, on a buffer [bb, bl, ip] *)

Buffer == [bb |-> bitbuf, bl |-> bitsleft, ip |-> inpos]

Byte(p) == [k \in 1 .. ByteBits |-> <<p, k>>]

\* (inpos[1] << 8) | inpos[0]
Word(p) == Byte(p + 1) \o Byte(p)

Or(a, b) == IF a = Zero THEN b ELSE IF b = Zero THEN a ELSE Clash

Filled(s) ==
    [bb |-> [k \in 1 .. BufBits |->
               IF k - s.bl \in 1 .. WordBits THEN Or(s.bb[k], Word(s.ip)[k - s.bl])
               ELSE s.bb[k]],
     bl |-> s.bl + WordBits,
     ip |-> s.ip + 2]

\* ENSURE_BITS: no more than two words are missing for any n it is used with.
Ensured(s, n) ==
    LET once == IF s.bl < n THEN Filled(s) ELSE s
    IN  IF once.bl < n THEN Filled(once) ELSE once

Peeked(s, n) == SubSeq(s.bb, 1, n)

Removed(s, n) ==
    [s EXCEPT !.bb = [k \in 1 .. BufBits |-> IF k + n <= BufBits THEN @[k + n] ELSE Zero],
              !.bl = @ - n]

Buffered(s) == bitbuf' = s.bb /\ bitsleft' = s.bl /\ inpos' = s.ip

INIT_BITSTREAM == bitbuf' = NoBits /\ bitsleft' = 0

-----------------------------------------------------------------------------

\* The n-th bit of a stream of 16-bit words, and the bits that are next.
StreamBit(n) ==
    LET w == n \div WordBits
        r == n % WordBits
    IN  IF r < ByteBits THEN <<2 * w + 1, r + 1>> ELSE <<2 * w, r - ByteBits + 1>>

Upcoming(n) == [k \in 1 .. n |-> StreamBit(nread + k - 1)]

Understood(bits, n) ==
    /\ got' = [is |-> bits, meant |-> Upcoming(n)]
    /\ nread' = nread + n

InBits == reading = "on" /\ block.type = "coded"

\* A stream cut short is read past its end until somebody looks.
MayRead(n) == nread + n <= ByteBits * inlen + Past

ReadBits ==
    /\ InBits
    /\ \E n \in Reads :
         /\ MayRead(n)
         /\ LET s == Ensured(Buffer, n)
            IN  Buffered(Removed(s, n)) /\ Understood(Peeked(s, n), n)
    /\ UNCHANGED <<inlen, block, reading>>

\* READ_HUFFSYM looks at 16 bits, and removes those of the code it found.
ReadHuffsym ==
    /\ InBits
    /\ \E n \in CodeLens :
         /\ MayRead(n)
         /\ LET s == Ensured(Buffer, WordBits)
            IN  Buffered(Removed(s, n)) /\ Understood(Peeked(s, n), n)
    /\ UNCHANGED <<inlen, block, reading>>

\* Mutant: the word in the buffer is lost.
AlignedNot(s) == s.ip

\* "get up to 16 pad bits into the buffer and align the bitstream!"
Aligned(s) == IF s.bl > WordBits THEN s.ip - 2 ELSE s.ip

\* An uncompressed block starts, behind its header: one bit at least and 16 at
\* most are padding, then come the repeated offsets.
UncompressedStarts ==
    /\ InBits
    /\ \E n \in RawLens :
         /\ block' = [type |-> "uncompressed", length |-> n, remaining |-> n]
         /\ nread' = (nread \div WordBits + 1) * WordBits + RBytes * ByteBits
         /\ nread' <= ByteBits * inlen
    /\ LET s == Ensured(Buffer, WordBits)
       IN  Buffered([s EXCEPT !.ip = Aligned(s) + RBytes])
    /\ UNCHANGED <<inlen, reading, got>>

\* memcpy, of the rest of the block or of the frame; what does not lie in the
\* input is refused.
CopyRun ==
    /\ reading = "on"
    /\ block.type = "uncompressed"
    /\ \E n \in 1 .. block.remaining :
         IF inpos + n > inlen
         THEN /\ reading' = "refused"
              /\ UNCHANGED <<inpos, block, nread>>
         ELSE /\ inpos' = inpos + n
              /\ nread' = nread + n * ByteBits
              /\ block' = [block EXCEPT !.remaining = @ - n]
              /\ UNCHANGED reading
    /\ UNCHANGED <<inlen, bitbuf, bitsleft, got>>

\* The next block: behind an odd number of bytes the bit stream is realigned,
\* and it starts afresh.
UncompressedEnds ==
    /\ reading = "on"
    /\ block.type = "uncompressed"
    /\ block.remaining = 0
    /\ inpos' = inpos + (block.length % 2)
    /\ nread' = nread + (block.length % 2) * ByteBits
    /\ INIT_BITSTREAM
    /\ block' = CodedBlock
    /\ UNCHANGED <<inlen, reading, got>>

\* More than the input has been read, but for a word that is still whole in
\* the buffer.
Exhausted == inpos > inlen /\ (inpos > inlen + 2 \/ bitsleft < WordBits)

Refuse ==
    /\ InBits
    /\ Exhausted
    /\ reading' = "refused"
    /\ UNCHANGED <<inlen, inpos, bitbuf, bitsleft, block, nread, got>>

\* The next call: an input and a bit buffer of its own, in the middle of
\* whatever block it is.  Bound: an uncompressed block is only cut behind an
\* even number of bytes; the realignment looks at the length of the whole
\* block, not at the bytes of it that the last input has.
NextFrame ==
    /\ reading = "on"
    /\ (block.length - block.remaining) % 2 = 0
    /\ inlen' \in Inlen
    /\ inpos' = 0
    /\ INIT_BITSTREAM
    /\ nread' = 0
    /\ UNCHANGED <<block, reading, got>>

BitsNext ==
    \/ ReadBits
    \/ ReadHuffsym
    \/ UncompressedStarts
    \/ CopyRun
    \/ UncompressedEnds
    \/ Refuse
    \/ NextFrame

-----------------------------------------------------------------------------
(* Properties *)

BitsTypeOK ==
    /\ inlen \in Inlen
    /\ inpos \in Nat
    /\ bitbuf \in [1 .. BufBits -> {Zero} \union (Nat \X (1 .. ByteBits))]
    /\ bitsleft \in 0 .. BufBits - 1
    /\ reading \in {"on", "refused"}

\* What is read is what the stream has next, however much of it had been
\* fetched already: bits come out in order, an uncompressed block is found
\* where it starts, and the input counts as exhausted exactly when bits have
\* been used behind its last whole word, although more is fetched than is used.
ReadsTheStream ==
    /\ got.is = got.meant
    /\ block.type = "uncompressed" /\ reading = "on" => inpos * ByteBits = nread
    /\ InBits => (Exhausted <=> nread > ByteBits * (inlen - (inlen % 2)))
    /\ reading = "refused" /\ block.type = "uncompressed" =>
            nread + block.remaining * ByteBits > ByteBits * inlen

=============================================================================
