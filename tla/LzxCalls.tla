------------------------------- MODULE LzxCalls -------------------------------
(***************************************************************************)
(* "intel E8 decoding": the addresses of x86 calls, which the encoder made *)
(* absolute, become relative again at the end of a frame.                  *)
(***************************************************************************)
EXTENDS Integers

CONSTANTS
    Values,     \* 256 values of a byte
    CallByte,   \* 0xE8
    AddrLen,    \* 4 bytes of an address
    NotLooked,  \* 10 bytes at the end are not looked at
    Outlen,     \* how long a frame is
    Contents,   \* what frames hold: position -> byte
    Positions,  \* where in the file a frame may be
    Filesizes   \* intel_filesize

\* What byte k of an address counts, and how many addresses there are: 2^32.
weight[k \in 0 .. AddrLen] == IF k = 0 THEN 1 ELSE Values * weight[k - 1]

AddrRange == weight[AddrLen]

ASSUME CallsAssumption ==
    /\ Values \in Nat \ {0} /\ Values % 2 = 0
    /\ CallByte \in 0 .. Values - 1
    /\ AddrLen \in Nat \ {0}
    /\ NotLooked \in Nat /\ NotLooked > AddrLen
    /\ Outlen \in Nat /\ Outlen > NotLooked
    /\ Contents \subseteq [0 .. Outlen - 1 -> 0 .. Values - 1] /\ Contents # {}
    /\ Positions \subseteq Nat
    /\ Filesizes \subseteq Nat \ {0}

\* intel_curpos and intel_filesize are signed numbers as wide as an address.
ASSUME WidthAssumption ==
    /\ \A size \in Filesizes : 2 * size < AddrRange
    /\ \A position \in Positions : \A k \in 0 .. Outlen - NotLooked - 1 :
          2 * (position + k) <= AddrRange

VARIABLES
    original,   \* what the encoder was given
    start,      \* intel_curpos when the frame begins
    filesize,
    frame,      \* what the decoder has: the output
    data,       \* the next byte to look at
    curpos

callsVars == <<original, start, filesize, frame, data, curpos>>

\* The address at position p, a signed number.
AddressAt(f, p) ==
    LET value[k \in 0 .. AddrLen] ==
            IF k = 0 THEN 0 ELSE value[k - 1] + f[p + k - 1] * weight[k - 1]
    IN  IF 2 * value[AddrLen] >= AddrRange THEN value[AddrLen] - AddrRange ELSE value[AddrLen]

\* The frame with an address put at p, as many bytes of it as there are.
WithAddress(f, p, address) ==
    [q \in DOMAIN f |->
        IF q - p \in 0 .. AddrLen - 1
        THEN ((address % AddrRange) \div weight[q - p]) % Values
        ELSE f[q]]

-----------------------------------------------------------------------------
(* The encoder: an address relative to the end of the file that is being   *)
(* translated stays within it by going around.                              *)

Absolute(relative, position) ==
    IF relative >= - position /\ relative < filesize
    THEN IF relative + position < filesize THEN relative + position ELSE relative - filesize
    ELSE relative

Encoded ==
    LET upTo[k \in 0 .. Outlen] ==
            IF k = 0 THEN [f |-> original, at |-> 0]
            ELSE LET s == upTo[k - 1]
                 IN  IF s.at >= Outlen - NotLooked THEN s
                     ELSE IF s.f[s.at] # CallByte THEN [s EXCEPT !.at = @ + 1]
                     ELSE [f |-> WithAddress(s.f, s.at + 1,
                                    Absolute(AddressAt(s.f, s.at + 1), start + s.at)),
                           at |-> s.at + 1 + AddrLen]
    IN  upTo[Outlen].f

-----------------------------------------------------------------------------
(* The decoder *)

CallsInit(contents) ==
    /\ original \in contents
    /\ start \in Positions
    /\ filesize \in Filesizes
    /\ frame = Encoded
    /\ data = 0
    /\ curpos = start

DataEnd == Outlen - NotLooked

NoCall ==
    /\ data < DataEnd
    /\ frame[data] # CallByte
    /\ data' = data + 1
    /\ curpos' = curpos + 1
    /\ UNCHANGED <<original, start, filesize, frame>>

\* Mutant: every address is one that has not gone around.
RelativeForward(abs_off) == abs_off - curpos

Relative(abs_off) == IF abs_off >= 0 THEN abs_off - curpos ELSE abs_off + filesize

TranslateCall ==
    /\ data < DataEnd
    /\ frame[data] = CallByte
    /\ LET abs_off == AddressAt(frame, data + 1)
       IN  frame' = IF abs_off >= - curpos /\ abs_off < filesize
                    THEN WithAddress(frame, data + 1, Relative(abs_off)) ELSE frame
    /\ data' = data + 1 + AddrLen
    /\ curpos' = curpos + 1 + AddrLen
    /\ UNCHANGED <<original, start, filesize>>

CallsNext == NoCall \/ TranslateCall

CallsDone == data >= DataEnd

-----------------------------------------------------------------------------
(* Properties *)

\* The decoder undoes what the encoder did to every call, with addresses that
\* hold the byte of a call, that are cut off by the end of the frame's part
\* that is looked at, and that wrap around: the frame is the original.
CallsRestored == CallsDone => frame = original
=============================================================================
