------------------------------- MODULE LzxFrames -------------------------------
(***************************************************************************)
(* lzx_decompress, a frame at a time, and the state that lzx_state carries *)
(* from one frame to the next: the window, the three repeated offsets, the *)
(* rest of the block, the code lengths the next ones are deltas of, and    *)
(* the position the translation of x86 calls works from.                   *)
(*                                                                         *)
(* The stream is what an encoder wrote.  The encoder's side is kept next   *)
(* to the decoder's: all bytes since the last reset, its own offsets and   *)
(* code lengths.  The bits in between are left out; VERBATIM and ALIGNED   *)
(* blocks, which differ only in how the bits of an offset are read, are    *)
(* CODED here, and the length tree is read as the main tree is.            *)
(***************************************************************************)
EXTENDS Integers, Sequences, FiniteSetsExt

CONSTANTS
    W,             \* window_size
    F,             \* outlen of every call
    NChars,        \* LZX_NUM_CHARS
    E8,            \* the character calls start with
    Safety,        \* LZX_LENTABLE_SAFETY
    Runs,          \* how many lengths codes 17, 18 and 19 can stand for
    Codes,         \* code lengths the encoder uses
    BlockLengths,  \* block lengths the encoder uses
    Matches,       \* match lengths the encoder uses
    Damaged,       \* bound: frames behind a reset that may be damaged
    MaxFrames      \* bound: frames between two resets

MaxLength == 16

\* One main element stands for all matches; main_elements of the code.
MatchElement == NChars
NMain == NChars + 1

Chars == 0 .. NChars - 1
Lens  == 0 .. NMain + Safety - 1

ASSUME WindowAssumption == F \in Nat \ {0} /\ \E n \in 1 .. W : W = n * F
ASSUME CharAssumption == NChars \in Nat \ {0} /\ E8 \in Chars
ASSUME LensAssumption ==
    /\ Safety \in Nat \ {0}
    /\ Runs \subseteq 1 .. Safety
    /\ Codes \subseteq [0 .. NMain - 1 -> 0 .. MaxLength]
ASSUME StreamAssumption ==
    /\ BlockLengths \subseteq Nat \ {0}
    /\ Matches \subseteq Nat \ {0}
    /\ Damaged \in Nat
    /\ MaxFrames \in Nat

CODED == "coded"
UNCOMPRESSED == "uncompressed"
INVALID == "invalid"

Junk == -1    \* memory nobody has written to
NoBase == -1  \* no translation took place

VARIABLES
    lzx,    \* struct lzx_state
    loc,    \* the locals of the call
    pc,
    out,    \* what the last call returned: the bytes, where they were
            \* translated from, and DECR_...
    enc     \* the encoder's side, and whether the decoder has seen all of it

vars == <<lzx, loc, pc, out, enc>>

NoLocals == [togo |-> 0, this_run |-> 0, window_posn |-> 0, R |-> <<1, 1, 1>>,
             x |-> 0, last |-> 0]

NoOut == [bytes |-> <<>>, base |-> NoBase, ret |-> "none"]

AtStart == [hist |-> <<>>, R |-> <<1, 1, 1>>, lens |-> [s \in 0 .. NMain - 1 |-> 0],
            meant |-> [s \in 0 .. NMain - 1 |-> 0], frames |-> 0, synced |-> TRUE]

\* lzx_init
Init ==
    /\ lzx = [window |-> [p \in 0 .. W - 1 |-> Junk], window_posn |-> 0,
              R |-> <<1, 1, 1>>, header_read |-> FALSE,
              block_type |-> INVALID, block_remaining |-> 0,
              frames_read |-> 0, intel_filesize |-> 0, intel_curpos |-> 0,
              intel_started |-> FALSE,
              lens |-> [s \in Lens |-> IF s < NMain THEN 0 ELSE Junk]]
    /\ loc = NoLocals
    /\ pc = "idle"
    /\ out = NoOut
    /\ enc = AtStart

-----------------------------------------------------------------------------
(* lzx_reset *)

\* Mutant: the code lengths stay.
ResetKeepsLens ==
    [lzx EXCEPT !.R = <<1, 1, 1>>, !.header_read = FALSE, !.frames_read = 0,
                !.block_remaining = 0, !.block_type = INVALID, !.intel_curpos = 0,
                !.intel_started = FALSE, !.window_posn = 0]

ResetState ==
    [lzx EXCEPT !.R = <<1, 1, 1>>, !.header_read = FALSE, !.frames_read = 0,
                !.block_remaining = 0, !.block_type = INVALID, !.intel_curpos = 0,
                !.intel_started = FALSE, !.window_posn = 0,
                !.lens = [s \in Lens |-> 0]]

Reset ==
    /\ pc = "idle"
    /\ lzx' = ResetState
    /\ enc' = AtStart
    /\ out' = NoOut
    /\ UNCHANGED <<loc, pc>>

-----------------------------------------------------------------------------
(* lzx_decompress *)

\* The header is read once: the file size of the translation, 0 for none.
\* Bound: a stream is not read on behind a damaged frame, only from a reset.
Call ==
    /\ pc = "idle"
    /\ enc.frames < MaxFrames /\ enc.synced
    /\ \E size \in {0, 1} :
         lzx' = IF lzx.header_read THEN lzx
                ELSE [lzx EXCEPT !.header_read = TRUE, !.intel_filesize = size]
    /\ loc' = [NoLocals EXCEPT !.togo = F, !.window_posn = lzx.window_posn, !.R = lzx.R]
    /\ pc' = "run"
    /\ out' = NoOut
    /\ UNCHANGED enc

\* An error leaves what was written to lzx_state, and loses the locals.
Return(ret, ok) ==
    /\ out' = [NoOut EXCEPT !.ret = ret]
    /\ loc' = NoLocals
    /\ pc' = "idle"
    /\ enc' = [enc EXCEPT !.frames = @ + 1, !.synced = @ /\ ok]

MayBeDamaged == enc.frames < Damaged

\* A damaged stream is refused at any step, or not at all.
Refuse ==
    /\ MayBeDamaged
    /\ pc # "idle"
    /\ Return("DECR_ILLEGALDATA", FALSE)
    /\ UNCHANGED lzx

ExpectBlock == pc = "run" /\ loc.togo > 0 /\ lzx.block_remaining = 0

CodedBlock ==
    /\ ExpectBlock
    /\ \E n \in BlockLengths, code \in Codes :
         /\ lzx' = [lzx EXCEPT !.block_type = CODED, !.block_remaining = n]
         /\ enc' = [enc EXCEPT !.meant = code]
    /\ loc' = [loc EXCEPT !.x = 0, !.last = NChars]
    /\ pc' = "lens"
    /\ UNCHANGED out

\* The block brings its repeated offsets along: the encoder's own.
UncompressedBlock ==
    /\ ExpectBlock
    /\ \E n \in BlockLengths :
         lzx' = [lzx EXCEPT !.block_type = UNCOMPRESSED, !.block_remaining = n,
                            !.intel_started = TRUE]
    /\ loc' = [loc EXCEPT !.R = enc.R]
    /\ UNCHANGED <<pc, out, enc>>

-----------------------------------------------------------------------------
(* lzx_read_lens, for the characters and then for the match elements *)

\* Mutant: a difference below 0 stays there.
DeltaSigned(old, z) == old - z

Delta(old, z) == IF old - z < 0 THEN old - z + MaxLength + 1 ELSE old - z

\* What the encoder writes to get from a symbol's last length to this one.
Written(s) == (enc.lens[s] - enc.meant[s]) % (MaxLength + 1)

\* Mutant: the next length is written to the same symbol.
SetLensInPlace(n, value) ==
    /\ lzx' = [lzx EXCEPT !.lens[loc.x] = value]
    /\ UNCHANGED <<loc, pc, out>>

SetLens(n, value) ==
    /\ lzx' = [lzx EXCEPT !.lens =
                [s \in Lens |-> IF s \in loc.x .. loc.x + n - 1 THEN value ELSE @[s]]]
    /\ loc' = [loc EXCEPT !.x = @ + n]
    /\ UNCHANGED <<pc, out>>

ReadLength ==
    /\ pc = "lens"
    /\ loc.x < loc.last
    /\ SetLens(1, Delta(lzx.lens[loc.x], Written(loc.x)))
    /\ UNCHANGED enc

\* A run of equal lengths (19), or of zeros (17, 18).
ReadRun ==
    /\ pc = "lens"
    /\ loc.x < loc.last
    /\ \E n \in Runs :
         /\ loc.x + n <= loc.last
         /\ \A s \in loc.x .. loc.x + n - 1 : enc.meant[s] = enc.meant[loc.x]
         /\ \/ SetLens(n, Delta(lzx.lens[loc.x], Written(loc.x)))
            \/ enc.meant[loc.x] = 0 /\ SetLens(n, 0)
    /\ UNCHANGED enc

\* A damaged stream can have a run that goes on behind the last symbol.
ReadOverrun ==
    /\ MayBeDamaged
    /\ pc = "lens"
    /\ loc.x < loc.last
    /\ \E n \in Runs, value \in {0, Delta(lzx.lens[loc.x], Written(loc.x))} :
         loc.x + n > loc.last /\ SetLens(n, value)
    /\ enc' = [enc EXCEPT !.synced = FALSE]

CharsDone ==
    /\ pc = "lens"
    /\ loc.x >= loc.last
    /\ loc.last = NChars
    /\ loc' = [loc EXCEPT !.x = NChars, !.last = NMain]
    /\ UNCHANGED <<lzx, pc, out, enc>>

LensDone ==
    /\ pc = "lens"
    /\ loc.x >= loc.last
    /\ loc.last = NMain
    /\ lzx' = [lzx EXCEPT !.intel_started = @ \/ lzx.lens[E8] # 0]
    /\ enc' = [enc EXCEPT !.lens = enc.meant]
    /\ loc' = [loc EXCEPT !.x = 0, !.last = 0]
    /\ pc' = "run"
    /\ UNCHANGED out

-----------------------------------------------------------------------------
(* A run: what is left of the block, or of the frame *)

Masked(p) == p % W

StartRun ==
    /\ pc = "run"
    /\ loc.togo > 0
    /\ lzx.block_remaining > 0
    /\ LET run  == Min({lzx.block_remaining, loc.togo})
           posn == Masked(loc.window_posn)
       IN  /\ lzx' = [lzx EXCEPT !.block_remaining = @ - run]
           /\ IF posn + run > W THEN Return("DECR_DATAFORMAT", TRUE)
              ELSE /\ loc' = [loc EXCEPT !.togo = @ - run, !.this_run = run,
                                         !.window_posn = posn]
                   /\ pc' = "tokens"
                   /\ UNCHANGED <<out, enc>>

\* The run goes on to new bytes: they are in the window already.
Wrote(window, n, R) ==
    /\ lzx' = [lzx EXCEPT !.window = window]
    /\ loc' = [loc EXCEPT !.window_posn = @ + n, !.this_run = Max({@ - n, 0}), !.R = R]
    /\ pc' = IF loc.this_run <= n THEN "run" ELSE "tokens"
    /\ UNCHANGED out

Coding(element) == lzx.block_type = CODED /\ lzx.lens[element] # 0

Literal ==
    /\ pc = "tokens"
    /\ \E c \in Chars :
         /\ Coding(c)
         /\ Wrote([lzx.window EXCEPT ![loc.window_posn] = c], 1, loc.R)
         /\ enc' = [enc EXCEPT !.hist = Append(@, c)]

\* Mutant: the source is not followed around the end of the window.
WrappedNot(p) == IF p < 0 THEN 0 ELSE p

Wrapped(p) == IF p < 0 THEN p + W ELSE p

\* The window after a copy from offset bytes before, byte after byte.
Copied(offset, n) ==
    LET copied[k \in 0 .. n] ==
            IF k = 0 THEN lzx.window
            ELSE [copied[k - 1] EXCEPT ![loc.window_posn + k - 1] =
                    copied[k - 1][Wrapped(loc.window_posn + k - 1 - offset)]]
    IN  copied[n]

\* The bytes a match means: those from offset before, over and over.
Meant(offset, n) ==
    LET h == enc.hist
    IN  h \o [k \in 1 .. n |-> h[Len(h) - offset + 1 + ((k - 1) % offset)]]

\* What the stream can mean: bytes there are, and not beyond the run.
CanMatch(offset, n) ==
    /\ Coding(MatchElement)
    /\ offset \in 1 .. Min({Len(enc.hist), W})
    /\ n <= loc.this_run

NewMatch ==
    /\ pc = "tokens"
    /\ \E offset \in 1 .. W, n \in Matches :
         /\ CanMatch(offset, n)
         /\ Wrote(Copied(offset, n), n, <<offset, loc.R[1], loc.R[2]>>)
         /\ enc' = [enc EXCEPT !.hist = Meant(offset, n),
                               !.R = <<offset, @[1], @[2]>>]

\* Mutant: the second offset moves to the front, and is the third, too.
RepeatedShift(R, i) == <<R[i], R[1], R[2]>>

\* A repeated offset and the first change places.
Repeated(R, i) ==
    CASE i = 1 -> R
      [] i = 2 -> <<R[2], R[1], R[3]>>
      [] i = 3 -> <<R[3], R[2], R[1]>>

RepeatedMatch ==
    /\ pc = "tokens"
    /\ \E i \in 1 .. 3, n \in Matches :
         /\ CanMatch(enc.R[i], n)
         /\ Wrote(Copied(loc.R[i], n), n, Repeated(loc.R, i))
         /\ enc' = [enc EXCEPT !.hist = Meant(enc.R[i], n),
                               !.R = [@ EXCEPT ![1] = enc.R[i], ![i] = enc.R[1]]]

\* A damaged stream can also have a match that goes on behind its run, into
\* what belongs to the next one: only the end of the window is looked at.
Overrun ==
    /\ MayBeDamaged
    /\ pc = "tokens"
    /\ Coding(MatchElement)
    /\ \E n \in Matches :
         /\ n > loc.this_run
         /\ IF loc.window_posn + n > W
            THEN Return("DECR_ILLEGALDATA", FALSE) /\ UNCHANGED lzx
            ELSE /\ Wrote(Copied(loc.R[1], n), n, loc.R)
                 /\ enc' = [enc EXCEPT !.synced = FALSE]

CopyRun ==
    /\ pc = "tokens"
    /\ lzx.block_type = UNCOMPRESSED
    /\ \E s \in [1 .. loc.this_run -> Chars] :
         /\ Wrote([p \in 0 .. W - 1 |->
                     IF p \in loc.window_posn .. loc.window_posn + loc.this_run - 1
                     THEN s[p - loc.window_posn + 1] ELSE lzx.window[p]],
                  loc.this_run, loc.R)
         /\ enc' = [enc EXCEPT !.hist = @ \o s]

-----------------------------------------------------------------------------
(* The end of the frame *)

Output ==
    LET end == IF loc.window_posn = 0 THEN W ELSE loc.window_posn
    IN  [k \in 1 .. F |-> IF end - F + k > 0 THEN lzx.window[end - F + k - 1] ELSE Junk]

\* Frames are longer than the few bytes that are never translated, and fewer
\* between two resets than the bound on frames_read.
Translates == lzx.intel_filesize # 0

\* Mutant: the position moves on only with frames that are translated.
CurposIfStarted == IF lzx.intel_started THEN lzx.intel_curpos + F ELSE lzx.intel_curpos

Curpos == lzx.intel_curpos + F

Finish ==
    /\ pc = "run"
    /\ loc.togo = 0
    /\ out' = [bytes |-> Output, ret |-> "DECR_OK",
               base |-> IF Translates /\ lzx.intel_started THEN lzx.intel_curpos ELSE NoBase]
    /\ lzx' = [lzx EXCEPT !.window_posn = loc.window_posn, !.R = loc.R,
                          !.frames_read = @ + 1,
                          !.intel_curpos = IF Translates THEN Curpos ELSE @]
    /\ loc' = NoLocals
    /\ pc' = "idle"
    /\ enc' = [enc EXCEPT !.frames = @ + 1]

Step ==
    \/ CodedBlock
    \/ UncompressedBlock
    \/ ReadLength
    \/ ReadRun
    \/ ReadOverrun
    \/ CharsDone
    \/ LensDone
    \/ StartRun
    \/ Literal
    \/ NewMatch
    \/ RepeatedMatch
    \/ Overrun
    \/ CopyRun
    \/ Finish
    \/ Refuse

Next == Reset \/ Call \/ Step

Spec == Init /\ [][Next]_vars

\* The call runs on its caller's thread and waits for nothing.
FairSpec == Spec /\ WF_vars(Step)

-----------------------------------------------------------------------------
(* Properties *)

TypeOK ==
    /\ lzx.window \in [0 .. W - 1 -> Chars \union {Junk}]
    /\ lzx.window_posn \in 0 .. W
    /\ lzx.lens \in [Lens -> 0 .. MaxLength \union {Junk}]
    /\ lzx.block_remaining \in Nat
    /\ loc.window_posn \in 0 .. W
    /\ loc.togo \in 0 .. F
    /\ loc.this_run \in 0 .. F
    /\ loc.x \in Lens
    /\ pc \in {"idle", "run", "lens", "tokens"}

\* While the stream is whole a call returns the next frame of what the
\* encoder was given: none is skipped, and what a match repeats is right
\* however often the window has come around.
ReturnsNextFrame ==
    out.ret = "DECR_OK" /\ enc.synced =>
        /\ Len(enc.hist) = F * enc.frames
        /\ out.bytes = SubSeq(enc.hist, Len(enc.hist) - F + 1, Len(enc.hist))

\* The window is the end of the history, wherever the decoder stands in it.
WindowHoldsHistory ==
    enc.synced =>
        LET posn == IF pc = "idle" THEN lzx.window_posn ELSE loc.window_posn
        IN  \A k \in 1 .. Min({W, Len(enc.hist)}) :
                lzx.window[(posn - k) % W] = enc.hist[Len(enc.hist) - k + 1]

\* Code lengths come out as meant although they are written as differences
\* to those of the block before, in this frame or an earlier one.
LensAsMeant ==
    pc \in {"run", "tokens"} /\ lzx.block_type = CODED /\ enc.synced =>
        \A s \in 0 .. NMain - 1 : lzx.lens[s] = enc.meant[s]

\* A frame is translated from its position since the reset, and one with a
\* call in it is translated if the header says there is something to.
TranslatedAtPosition ==
    out.ret = "DECR_OK" /\ enc.synced =>
        /\ out.base # NoBase => out.base = Len(enc.hist) - F
        /\ lzx.intel_filesize # 0 /\ (\E k \in 1 .. F : out.bytes[k] = E8) => out.base # NoBase

\* Every call returns.
CallsReturn == pc # "idle" ~> pc = "idle"

=============================================================================
