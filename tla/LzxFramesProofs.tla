---------------------------- MODULE LzxFramesProofs ----------------------------
(***************************************************************************)
(* Theorems about LzxFrames, for every window that is a number of frames   *)
(* long, every alphabet, code, block and match, and any number of frames   *)
(* and resets: what a call returns is the next frame of what the encoder   *)
(* was given, as long as the stream is whole.                              *)
(*                                                                         *)
(* TypeInv needs nothing else.  LensInv relates the decoder's code lengths *)
(* to the encoder's while they are read.  PosnInv says where in the window *)
(* a frame lies, which is why a run never ends behind the window's end;    *)
(* TextInv that the window is the end of the text; both need each other    *)
(* for the bytes that a match repeats.  CallsInv and CurposInv say what    *)
(* the translation of a frame depends on, and OutInv puts all in a frame.  *)
(***************************************************************************)
EXTENDS LzxFrames, NumberFacts

-----------------------------------------------------------------------------
(* Sets the state lives in *)

Window == [0 .. W - 1 -> Chars \union {Junk}]
Lengths == [Lens -> 0 .. MaxLength \union {Junk}]
Code == [0 .. NMain - 1 -> 0 .. MaxLength]
Offsets == (1 .. W) \X (1 .. W) \X (1 .. W)

Decoders == [window : Window, window_posn : 0 .. W, R : Offsets, header_read : BOOLEAN,
             block_type : {CODED, UNCOMPRESSED, INVALID}, block_remaining : Nat,
             frames_read : Nat, intel_filesize : {0, 1}, intel_curpos : Nat,
             intel_started : BOOLEAN, lens : Lengths]

Locals == [togo : 0 .. F, this_run : 0 .. F, window_posn : 0 .. W, R : Offsets,
           x : Lens, last : {0, NChars, NMain}]

Texts == Seq(Chars)

Encoders == [hist : Texts, R : Offsets, lens : Code, meant : Code,
             frames : Nat, synced : BOOLEAN]

LEMMA WindowFacts == W \in Nat \ {0} /\ F \in Nat \ {0} /\ F <= W
  BY WindowAssumption

LEMMA MinOfTwo ==
    ASSUME NEW a \in Int, NEW b \in Int
    PROVE  /\ Min({a, b}) \in {a, b} /\ Min({a, b}) <= a /\ Min({a, b}) <= b
  <1>1. \E x \in {a, b} : \A y \in {a, b} : x <= y
    OBVIOUS
  <1>2. QED
    BY <1>1 DEF Min

LEMMA MaxOfTwo ==
    ASSUME NEW a \in Int, NEW b \in Int
    PROVE  /\ Max({a, b}) \in {a, b} /\ Max({a, b}) >= a /\ Max({a, b}) >= b
  <1>1. \E x \in {a, b} : \A y \in {a, b} : x >= y
    OBVIOUS
  <1>2. QED
    BY <1>1 DEF Max

LEMMA RangeFacts ==
    /\ NChars \in Nat \ {0} /\ NMain = NChars + 1 /\ NMain \in Nat
    /\ Safety \in Nat \ {0} /\ E8 \in 0 .. NChars - 1
    /\ Lens = 0 .. NChars + Safety /\ Chars = 0 .. NChars - 1
  BY CharAssumption, LensAssumption DEF NMain, Lens, Chars

LEMMA ResetType ==
    ASSUME lzx \in Decoders
    PROVE  ResetState \in Decoders
  <1> DEFINE l == [s \in Lens |-> 0]
  <1>1. l \in Lengths
    BY DEF Lengths, MaxLength
  <1>2. <<1, 1, 1>> \in Offsets
    BY WindowFacts DEF Offsets
  <1>3. 0 \in 0 .. W
    BY WindowFacts
  <1> HIDE DEF l
  <1> DEFINE r1 == [lzx EXCEPT !.R = <<1, 1, 1>>]
             r2 == [r1 EXCEPT !.header_read = FALSE]
             r3 == [r2 EXCEPT !.frames_read = 0]
             r4 == [r3 EXCEPT !.block_remaining = 0]
             r5 == [r4 EXCEPT !.block_type = INVALID]
             r6 == [r5 EXCEPT !.intel_curpos = 0]
             r7 == [r6 EXCEPT !.intel_started = FALSE]
             r8 == [r7 EXCEPT !.window_posn = 0]
  <1>4. r3 \in Decoders
    BY <1>2 DEF Decoders
  <1> HIDE DEF r3
  <1>6. r6 \in Decoders
    BY <1>4 DEF Decoders
  <1> HIDE DEF r6
  <1>7. r8 \in Decoders
    BY <1>3, <1>6 DEF Decoders
  <1> HIDE DEF r8
  <1>8. [r8 EXCEPT !.lens = l] \in Decoders
    BY <1>1, <1>7 DEF Decoders
  <1>5. QED
    BY <1>8 DEF ResetState, r8, r6, r3, l

LEMMA InitType == Init => lzx \in Decoders /\ loc \in Locals /\ enc \in Encoders
  <1> SUFFICES ASSUME Init PROVE lzx \in Decoders /\ loc \in Locals /\ enc \in Encoders
    OBVIOUS
  <1> DEFINE w == [p \in 0 .. W - 1 |-> Junk]
             l == [s \in Lens |-> IF s < NMain THEN 0 ELSE Junk]
             z == [s \in 0 .. NMain - 1 |-> 0]
  <1>1. w \in Window
    BY DEF Window
  <1>2. l \in Lengths
    BY DEF Lengths, MaxLength
  <1>3. z \in Code
    BY DEF Code, MaxLength
  <1>4. <<1, 1, 1>> \in Offsets
    BY WindowFacts DEF Offsets
  <1>5. <<>> \in Texts
    BY DEF Texts
  <1>6. 0 \in 0 .. W /\ 0 \in 0 .. F /\ 0 \in Lens
    BY WindowFacts, RangeFacts
  <1>7. enc.lens = z /\ enc.meant = z /\ lzx.lens = l /\ lzx.window = w
    BY DEF Init, AtStart
  <1> HIDE DEF w, l, z
  <1>8. lzx \in Decoders
    BY <1>1, <1>2, <1>4, <1>6, <1>7 DEF Init, Decoders
  <1>9. loc \in Locals
    BY <1>4, <1>6 DEF Init, Locals, NoLocals
  <1>10. enc \in Encoders
    BY <1>3, <1>4, <1>5, <1>7 DEF Init, Encoders, AtStart
  <1>11. QED
    BY <1>8, <1>9, <1>10


-----------------------------------------------------------------------------
(* What a match writes *)

\* What the copied bytes are in one go.
CopiedAtOnce(offset, k) ==
    [p \in 0 .. W - 1 |->
        IF p \in loc.window_posn .. loc.window_posn + k - 1
        THEN lzx.window[Wrapped(loc.window_posn - offset + ((p - loc.window_posn) % offset))]
        ELSE lzx.window[p]]

LEMMA CopyStep ==
    ASSUME lzx.window \in Window, loc.window_posn \in 0 .. W,
           NEW offset \in 1 .. W, NEW k \in Nat \ {0}, loc.window_posn + k <= W
    PROVE  CopiedAtOnce(offset, k) =
             [CopiedAtOnce(offset, k - 1) EXCEPT ![loc.window_posn + k - 1] =
                CopiedAtOnce(offset, k - 1)[Wrapped(loc.window_posn + k - 1 - offset)]]
  <1> DEFINE posn == loc.window_posn
             j == k - 1
             from == Wrapped(posn + k - 1 - offset)
             old == CopiedAtOnce(offset, j)
             Source(i) == Wrapped(posn - offset + (i % offset))
  <1>0. /\ W \in Nat \ {0} /\ posn \in Nat /\ offset \in Nat \ {0} /\ offset <= W
        /\ j \in Nat /\ posn + j \in 0 .. W - 1 /\ k = j + 1
    BY WindowFacts
  <1>1. from = Wrapped(posn + j - offset) /\ posn + k - 1 = posn + j
    BY <1>0
  <1> HIDE DEF j
  <1>2. from \in 0 .. W - 1
    BY <1>0, <1>1 DEF Wrapped
  <1>3. \A i \in Nat, p \in 0 .. W - 1 :
          /\ i < j /\ p = posn + i => old[p] = lzx.window[Source(i)]
          /\ ~(p \in posn .. posn + j - 1) => old[p] = lzx.window[p]
    <2> SUFFICES ASSUME NEW i \in Nat, NEW p \in 0 .. W - 1
                 PROVE  /\ i < j /\ p = posn + i => old[p] = lzx.window[Source(i)]
                        /\ ~(p \in posn .. posn + j - 1) => old[p] = lzx.window[p]
      OBVIOUS
    <2>1. ASSUME i < j, p = posn + i
          PROVE  old[p] = lzx.window[Source(i)]
      <3>1. p - posn = i /\ p \in posn .. posn + j - 1
        BY <1>0, <2>1
      <3>2. QED
        BY <3>1 DEF CopiedAtOnce
    <2>2. ~(p \in posn .. posn + j - 1) => old[p] = lzx.window[p]
      BY DEF CopiedAtOnce
    <2>3. QED
      BY <2>1, <2>2
  <1>4. CopiedAtOnce(offset, k) =
          [p \in 0 .. W - 1 |-> IF p = posn + j THEN lzx.window[Source(j)] ELSE old[p]]
    <2> SUFFICES ASSUME NEW p \in 0 .. W - 1
                 PROVE  (IF p \in posn .. posn + k - 1
                         THEN lzx.window[Source(p - posn)] ELSE lzx.window[p]) =
                        (IF p = posn + j THEN lzx.window[Source(j)] ELSE old[p])
      BY DEF CopiedAtOnce
    <2>1. CASE p = posn + j
      <3>1. p - posn = j /\ p \in posn .. posn + k - 1
        BY <1>0, <2>1
      <3>2. QED
        BY <2>1, <3>1
    <2>2. CASE p # posn + j
      <3>1. p \in posn .. posn + k - 1 <=> p \in posn .. posn + j - 1
        BY <1>0, <2>2
      <3>2. QED
        BY <3>1, <2>2 DEF CopiedAtOnce
    <2>3. QED
      BY <2>1, <2>2
  <1> HIDE DEF old
  <1>5. old[from] = lzx.window[Source(j)]
    <2>1. CASE j < offset
      <3>1. (j % offset) = j
        <4>1. offset \in Nat \ {0} /\ j \in 0 .. offset - 1
          BY <1>0, <2>1
        <4>2. QED
          BY <4>1, ModSmall
      <3>2. Source(j) = from
        <4>1. posn - offset + j = posn + j - offset
          BY <1>0
        <4>2. QED
          BY <1>1, <3>1, <4>1
      <3>3. ~(from \in posn .. posn + j - 1)
        BY <1>0, <1>1, <2>1 DEF Wrapped
      <3>4. QED
        BY <1>2, <1>3, <3>2, <3>3
    <2>2. CASE j >= offset
      <3>1. from = posn + (j - offset) /\ j - offset \in Nat /\ j - offset < j
        BY <1>0, <1>1, <2>2 DEF Wrapped
      <3>2. old[from] = lzx.window[Source(j - offset)]
        BY <1>2, <1>3, <3>1
      <3>3. ((j - offset) % offset) = (j % offset)
        <4>1. offset \in Nat \ {0} /\ j \in Int
          BY <1>0
        <4>2. QED
          BY <4>1, ModOfSum
      <3>4. QED
        BY <3>2, <3>3
    <2>3. QED
      BY <1>0, <2>1, <2>2
  <1>6. old = [p \in 0 .. W - 1 |-> old[p]]
    BY DEF old, CopiedAtOnce
  <1> HIDE DEF from, Source
  <1>7. CopiedAtOnce(offset, k) = [old EXCEPT ![posn + j] = old[from]]
    BY <1>0, <1>4, <1>5, <1>6
  <1>8. QED
    BY <1>1, <1>7 DEF old, from, j

\* Byte after byte, or in one go: a match repeats the bytes before it.
LEMMA CopiedIs ==
    ASSUME lzx.window \in Window, loc.window_posn \in 0 .. W,
           NEW offset \in 1 .. W, NEW n \in Nat, loc.window_posn + n <= W
    PROVE  Copied(offset, n) = CopiedAtOnce(offset, n)
  <1> DEFINE Next1(c, k) == [c EXCEPT ![loc.window_posn + k - 1] =
                               c[Wrapped(loc.window_posn + k - 1 - offset)]]
             Is(C) == C = [k \in 0 .. n |-> IF k = 0 THEN lzx.window ELSE Next1(C[k - 1], k)]
             G == [k \in 0 .. n |-> CopiedAtOnce(offset, k)]
             C == CHOOSE f : Is(f)
  <1>1. CopiedAtOnce(offset, 0) = lzx.window
    <2>1. loc.window_posn .. loc.window_posn + 0 - 1 = {}
      BY WindowFacts
    <2>2. CopiedAtOnce(offset, 0) = [p \in 0 .. W - 1 |-> lzx.window[p]]
      BY <2>1 DEF CopiedAtOnce
    <2>3. QED
      BY <2>2 DEF Window
  <1>2. \A k \in 0 .. n : k # 0 => CopiedAtOnce(offset, k) = Next1(CopiedAtOnce(offset, k - 1), k)
    BY CopyStep, WindowFacts
  <1> HIDE DEF Next1
  <1>3. \A k \in 0 .. n : G[k] = IF k = 0 THEN lzx.window ELSE Next1(G[k - 1], k)
    BY <1>1, <1>2
  <1> HIDE DEF G
  <1>4. Is(G)
    <2>1. G = [k \in 0 .. n |-> G[k]]
      BY DEF G
    <2>2. QED
      BY <1>3, <2>1
  <1>5. Is(C)
    BY <1>4
  <1> HIDE DEF C
  <1>6. \A k \in 0 .. n : C[k] = G[k]
    <2> DEFINE D == {k \in 0 .. n : C[k] # G[k]}
    <2>1. CASE D = {}
      BY <2>1
    <2>2. CASE D # {}
      <3>0. D \in SUBSET Nat
        OBVIOUS
      <3>1. PICK m \in D : \A k \in D : m <= k
        <4> HIDE DEF D
        <4>1. QED
          BY <2>2, <3>0, LeastNat
      <3>2. m # 0
        BY <1>3, <1>5, <3>1
      <3>3. m - 1 \in 0 .. n /\ C[m - 1] = G[m - 1]
        BY <3>1, <3>2
      <3>4. C[m] = Next1(C[m - 1], m) /\ G[m] = Next1(G[m - 1], m)
        BY <1>3, <1>5, <3>1, <3>2
      <3>5. QED
        BY <3>1, <3>3, <3>4
    <2>3. QED
      BY <2>1, <2>2
  <1>7. Copied(offset, n) = C[n]
    BY DEF Copied, C, Next1
  <1>8. QED
    BY <1>6, <1>7 DEF G


-----------------------------------------------------------------------------
(* The window and the history *)

\* The window is the end of a text that stands before posn.
WindowIs(w, posn, h) ==
    \A k \in 1 .. W : k <= Len(h) => w[(posn - k) % W] = h[Len(h) - k + 1]

\* Before the start of the window is its end.
LEMMA Back ==
    ASSUME NEW posn \in 0 .. W, NEW k \in 1 .. W
    PROVE  /\ ((posn - k) % W) = Wrapped(posn - k)
           /\ Wrapped(posn - k) \in 0 .. W - 1
  <1>0. W \in Nat \ {0}
    BY WindowFacts
  <1>1. Wrapped(posn - k) \in 0 .. W - 1
    BY <1>0 DEF Wrapped
  <1>2. CASE posn - k < 0
    <2>1. posn - k = W * (0 - 1) + (posn - k + W) /\ posn - k + W \in 0 .. W - 1
      BY <1>0, <1>2
    <2>2. ((posn - k) % W) = posn - k + W
      BY <1>0, <2>1, DivUnique
    <2>3. QED
      BY <1>1, <1>2, <2>2 DEF Wrapped
  <1>3. CASE ~(posn - k < 0)
    <2>1. posn - k = W * 0 + (posn - k) /\ posn - k \in 0 .. W - 1
      BY <1>0, <1>3
    <2>2. ((posn - k) % W) = posn - k
      BY <1>0, <2>1, DivUnique
    <2>3. QED
      BY <1>1, <1>3, <2>2 DEF Wrapped
  <1>4. QED
    BY <1>2, <1>3

\* New bytes of the text are written where the window stands, which moves on:
\* they overwrite what the window is too short for.
LEMMA WindowGrows ==
    ASSUME NEW w, NEW w2, NEW posn \in 0 .. W, NEW h \in Texts, NEW s \in Texts,
           posn + Len(s) <= W, WindowIs(w, posn, h),
           \A p \in 0 .. W - 1 :
               w2[p] = IF p \in posn .. posn + Len(s) - 1 THEN s[p - posn + 1] ELSE w[p]
    PROVE  WindowIs(w2, posn + Len(s), h \o s)
  <1> DEFINE n == Len(s)
             m == Len(h)
             both == h \o s
  <1>0. n \in Nat /\ m \in Nat /\ W \in Nat \ {0} /\ posn + n \in 0 .. W
    BY WindowFacts DEF Texts
  <1>1. /\ Len(both) = m + n
        /\ \A i \in 1 .. m : both[i] = h[i]
        /\ \A i \in 1 .. n : both[m + i] = s[i]
    BY DEF Texts
  <1> SUFFICES ASSUME NEW k \in 1 .. W, k <= Len(both)
               PROVE  w2[(posn + n - k) % W] = both[Len(both) - k + 1]
    BY DEF WindowIs
  <1> HIDE DEF n, m, both
  <1>6. k <= m + n /\ Len(both) - k + 1 = m + n - k + 1
    BY <1>0, <1>1
  <1> DEFINE p == Wrapped(posn + n - k)
  <1>2. ((posn + n - k) % W) = p /\ p \in 0 .. W - 1
    <2> DEFINE q == posn + n
    <2>1. q \in 0 .. W
      BY <1>0
    <2> HIDE DEF q
    <2>2. ((q - k) % W) = Wrapped(q - k) /\ Wrapped(q - k) \in 0 .. W - 1
      BY <2>1, Back
    <2>3. q - k = posn + n - k
      BY <1>0 DEF q
    <2>4. QED
      BY <2>2, <2>3
  <1>3. CASE k <= n
    <2>1. p = posn + n - k /\ p \in posn .. posn + n - 1
      BY <1>0, <1>3 DEF Wrapped
    <2>2. w2[p] = s[n - k + 1]
      <3>1. p - posn + 1 = n - k + 1
        BY <1>0, <2>1
      <3>2. QED
        BY <1>2, <2>1, <3>1 DEF n
    <2> DEFINE i == n - k + 1
    <2>3. i \in 1 .. n /\ Len(both) - k + 1 = m + i
      BY <1>0, <1>1, <1>3
    <2> HIDE DEF i
    <2>4. both[m + i] = s[i]
      BY <1>1, <2>3
    <2>5. QED
      BY <1>2, <2>2, <2>3, <2>4 DEF i
  <1>4. CASE k > n
    <2> DEFINE i == k - n
    <2>1. i \in 1 .. W /\ i <= m /\ k = i + n
      <3>1. /\ k \in Int /\ n \in Int /\ m \in Int /\ W \in Int /\ 0 <= n
            /\ k <= W /\ k <= m + n
        BY <1>0, <1>6
      <3>2. QED
        BY <3>1, <1>4
    <2> HIDE DEF i
    <2>2. p = Wrapped(posn - i)
      <3>1. posn + n - k = posn - i
        BY <1>0, <2>1
      <3>2. QED
        BY <3>1
    <2>3. ~(p \in posn .. posn + n - 1)
      BY <1>0, <2>1, <2>2 DEF Wrapped
    <2>4. w2[p] = w[p]
      BY <1>2, <2>3 DEF n
    <2>5. w[p] = h[m - i + 1]
      <3>1. w[(posn - i) % W] = h[m - i + 1]
        BY <2>1 DEF WindowIs, m
      <3>2. ((posn - i) % W) = p
        BY <2>1, <2>2, Back
      <3>3. QED
        BY <3>1, <3>2
    <2>6. m + n - k + 1 = m - i + 1 /\ m - i + 1 \in 1 .. m
      BY <1>0, <2>1
    <2>7. QED
      BY <1>1, <1>2, <1>6, <2>4, <2>5, <2>6
  <1>5. QED
    BY <1>0, <1>3, <1>4

\* What follows a text when bytes from offset before are repeated.
Repeat(h, offset, n) == [k \in 1 .. n |-> h[Len(h) - offset + 1 + ((k - 1) % offset)]]

LEMMA LenConcat ==
    ASSUME NEW h \in Texts, NEW s \in Texts
    PROVE  Len(h \o s) = Len(h) + Len(s)
  BY DEF Texts

LEMMA RepeatType ==
    ASSUME NEW h \in Texts, NEW offset \in 1 .. Len(h), NEW n \in Nat
    PROVE  Repeat(h, offset, n) \in Texts /\ Len(Repeat(h, offset, n)) = n
  <1>1. \A k \in 1 .. n : h[Len(h) - offset + 1 + ((k - 1) % offset)] \in Chars
    <2> SUFFICES ASSUME NEW k \in 1 .. n
                 PROVE  h[Len(h) - offset + 1 + ((k - 1) % offset)] \in Chars
      OBVIOUS
    <2>0. Len(h) \in Nat /\ offset \in Nat \ {0} /\ k - 1 \in Int
      BY DEF Texts
    <2>1. ((k - 1) % offset) \in 0 .. offset - 1
      BY <2>0, ModRange
    <2>2. Len(h) - offset + 1 + ((k - 1) % offset) \in 1 .. Len(h)
      BY <2>0, <2>1
    <2>3. QED
      BY <2>2 DEF Texts
  <1>2. QED
    BY <1>1 DEF Repeat, Texts

\* A match writes what it means.
LEMMA MatchWrites ==
    ASSUME lzx.window \in Window, loc.window_posn \in 0 .. W, NEW h \in Texts,
           NEW offset \in 1 .. W, offset <= Len(h), NEW n \in Nat,
           loc.window_posn + n <= W, WindowIs(lzx.window, loc.window_posn, h)
    PROVE  WindowIs(Copied(offset, n), loc.window_posn + n, h \o Repeat(h, offset, n))
  <1> DEFINE posn == loc.window_posn
             s == Repeat(h, offset, n)
             w2 == CopiedAtOnce(offset, n)
  <1>0. /\ W \in Nat \ {0} /\ Len(h) \in Nat /\ posn \in Nat
        /\ offset \in Nat \ {0} /\ offset \in 1 .. Len(h)
    BY WindowFacts DEF Texts
  <1>1. s \in Texts /\ Len(s) = n
    BY <1>0, RepeatType
  <1>2. \A p \in 0 .. W - 1 :
          w2[p] = IF p \in posn .. posn + n - 1 THEN s[p - posn + 1] ELSE lzx.window[p]
    <2> SUFFICES ASSUME NEW p \in 0 .. W - 1, p \in posn .. posn + n - 1
                 PROVE  w2[p] = s[p - posn + 1]
      BY DEF CopiedAtOnce
    <2> DEFINE j == p - posn
               r == j % offset
    <2>1. j \in Nat /\ j + 1 \in 1 .. n /\ p - posn + 1 = j + 1 /\ j + 1 - 1 = j
      BY <1>0
    <2>2. r \in 0 .. offset - 1
      <3> HIDE DEF j
      <3>1. j \in Int /\ offset \in Nat \ {0}
        BY <1>0, <2>1
      <3>2. QED
        BY <3>1, ModRange
    <2>3. w2[p] = lzx.window[Wrapped(posn - offset + r)]
      BY DEF CopiedAtOnce
    <2>4. s[j + 1] = h[Len(h) - offset + 1 + r]
      <3> DEFINE i == j + 1
      <3>1. i \in 1 .. n /\ i - 1 = j
        BY <2>1
      <3> HIDE DEF i, j
      <3>2. s[i] = h[Len(h) - offset + 1 + ((i - 1) % offset)]
        BY <3>1 DEF Repeat
      <3>3. QED
        BY <3>1, <3>2 DEF i
    <2> HIDE DEF j, r, s, w2
    <2> DEFINE k == offset - r
    <2>5. /\ k \in 1 .. W /\ k <= Len(h) /\ posn - k = posn - offset + r
          /\ Len(h) - k + 1 = Len(h) - offset + 1 + r
      BY <1>0, <2>2
    <2> HIDE DEF k
    <2>6. lzx.window[(posn - k) % W] = h[Len(h) - k + 1]
      BY <2>5 DEF WindowIs
    <2>7. ((posn - k) % W) = Wrapped(posn - k)
      BY <2>5, Back
    <2>8. QED
      BY <2>1, <2>3, <2>4, <2>5, <2>6, <2>7
  <1> HIDE DEF s, w2
  <1>3. WindowIs(w2, posn + n, h \o s)
    BY <1>1, <1>2, WindowGrows
  <1>4. QED
    BY <1>3, CopiedIs DEF s, w2


-----------------------------------------------------------------------------
(* Types *)

TypeInv ==
    /\ lzx \in Decoders
    /\ loc \in Locals
    /\ enc \in Encoders
    /\ pc \in {"idle", "run", "lens", "tokens"}
    /\ \A s \in 0 .. NMain - 1 : lzx.lens[s] \in 0 .. MaxLength
    /\ pc = "lens" => loc.last \in {NChars, NMain}
    /\ pc = "tokens" => loc.this_run >= 1 /\ loc.window_posn + loc.this_run <= W

LEMMA TypeImplies == TypeInv => TypeOK
  BY DEF TypeInv, TypeOK, Decoders, Locals, Window, Lengths

LEMMA NoLocalsType ==
    /\ NoLocals \in Locals
    /\ NoLocals.togo = 0 /\ NoLocals.this_run = 0
  <1>1. <<1, 1, 1>> \in Offsets
    BY WindowFacts DEF Offsets
  <1>2. 0 \in 0 .. W /\ 0 \in 0 .. F /\ 0 \in Lens
    BY WindowFacts, RangeFacts
  <1>3. QED
    BY <1>1, <1>2 DEF Locals, NoLocals

LEMMA ReturnType ==
    ASSUME enc \in Encoders, NEW ret, NEW ok \in BOOLEAN, Return(ret, ok)
    PROVE  /\ loc' \in Locals /\ enc' \in Encoders /\ pc' = "idle"
           /\ enc'.synced = (enc.synced /\ ok)
  <1> DEFINE e1 == [enc EXCEPT !.frames = @ + 1]
  <1>1. e1 \in Encoders /\ e1.synced = enc.synced
    BY DEF Encoders
  <1>2. enc' = [e1 EXCEPT !.synced = @ /\ ok]
    BY DEF Return
  <1> HIDE DEF e1
  <1>3. enc' \in Encoders /\ enc'.synced = (enc.synced /\ ok)
    BY <1>1, <1>2 DEF Encoders
  <1>4. QED
    BY <1>3, NoLocalsType DEF Return

\* A write that stays in the window moves the position on, to the end of the
\* run or, behind a damaged match, to where the run is lost.
LEMMA WroteType ==
    ASSUME TypeInv, pc = "tokens", NEW w \in Window, NEW n \in Nat \ {0},
           NEW R \in Offsets, loc.window_posn + n <= W, Wrote(w, n, R)
    PROVE  /\ lzx' \in Decoders /\ lzx' = [lzx EXCEPT !.window = w]
           /\ lzx'.lens = lzx.lens
           /\ loc' \in Locals
           /\ loc'.window_posn = loc.window_posn + n
           /\ loc'.this_run = IF loc.this_run <= n THEN 0 ELSE loc.this_run - n
           /\ loc'.togo = loc.togo /\ loc'.R = R
           /\ pc' = IF loc.this_run <= n THEN "run" ELSE "tokens"
           /\ out' = out
  <1> DEFINE posn == loc.window_posn + n
             left == Max({loc.this_run - n, 0})
             l1 == [loc EXCEPT !.window_posn = posn]
             l2 == [l1 EXCEPT !.this_run = left]
  <1>0. /\ lzx \in Decoders /\ loc \in Locals
        /\ loc.window_posn \in Nat /\ loc.this_run \in 0 .. F
    BY DEF TypeInv, Locals
  <1>1. posn \in 0 .. W
    BY <1>0, WindowFacts
  <1>2. left = IF loc.this_run <= n THEN 0 ELSE loc.this_run - n
    <2>1. loc.this_run - n \in Int /\ 0 \in Int
      BY <1>0
    <2>2. /\ left \in {loc.this_run - n, 0} /\ left >= loc.this_run - n /\ left >= 0
      BY <2>1, MaxOfTwo
    <2>3. QED
      BY <1>0, <2>2
  <1>3. left \in 0 .. F
    BY <1>0, <1>2, WindowFacts
  <1>4. loc' = [l2 EXCEPT !.R = R]
    BY DEF Wrote
  <1> HIDE DEF posn, left
  <1>5. l2 \in Locals /\ l2.window_posn = posn /\ l2.this_run = left /\ l2.togo = loc.togo
    BY <1>0, <1>1, <1>3 DEF Locals
  <1> HIDE DEF l2
  <1>6. /\ loc' \in Locals /\ loc'.window_posn = posn /\ loc'.this_run = left
        /\ loc'.togo = loc.togo /\ loc'.R = R
    BY <1>4, <1>5 DEF Locals
  <1>7. /\ lzx' = [lzx EXCEPT !.window = w] /\ out' = out
        /\ pc' = IF loc.this_run <= n THEN "run" ELSE "tokens"
    BY DEF Wrote
  <1>8. lzx' \in Decoders /\ lzx'.lens = lzx.lens
    BY <1>0, <1>7 DEF Decoders
  <1>9. QED
    BY <1>2, <1>6, <1>7, <1>8 DEF posn

LEMMA WroteTypeInv ==
    ASSUME TypeInv, pc = "tokens", NEW w \in Window, NEW n \in Nat \ {0},
           NEW R \in Offsets, loc.window_posn + n <= W, Wrote(w, n, R), enc' \in Encoders
    PROVE  TypeInv'
  <1>1. /\ lzx' \in Decoders /\ lzx'.lens = lzx.lens
        /\ loc' \in Locals
        /\ loc'.window_posn = loc.window_posn + n
        /\ loc'.this_run = IF loc.this_run <= n THEN 0 ELSE loc.this_run - n
        /\ pc' = IF loc.this_run <= n THEN "run" ELSE "tokens"
    BY WroteType
  <1>2. loc.window_posn \in Nat /\ loc.this_run \in Nat /\ loc.window_posn + loc.this_run <= W
    BY DEF TypeInv, Locals
  <1>3. pc' = "tokens" => loc'.this_run >= 1 /\ loc'.window_posn + loc'.this_run <= W
    BY <1>1, <1>2, WindowFacts
  <1>4. pc' \in {"run", "tokens"}
    BY <1>1
  <1>5. QED
    BY <1>1, <1>3, <1>4 DEF TypeInv

\* What is copied stays a window, in a damaged stream, too.
LEMMA CopiedType ==
    ASSUME TypeInv, NEW offset \in 1 .. W, NEW n \in Nat, loc.window_posn + n <= W
    PROVE  Copied(offset, n) \in Window
  <1>0. /\ lzx.window \in Window /\ loc.window_posn \in 0 .. W
    BY DEF TypeInv, Decoders, Locals
  <1>1. \A p \in 0 .. W - 1 : p \in loc.window_posn .. loc.window_posn + n - 1 =>
          Wrapped(loc.window_posn - offset + ((p - loc.window_posn) % offset)) \in 0 .. W - 1
    <2> SUFFICES ASSUME NEW p \in 0 .. W - 1, p \in loc.window_posn .. loc.window_posn + n - 1
                 PROVE  Wrapped(loc.window_posn - offset + ((p - loc.window_posn) % offset))
                          \in 0 .. W - 1
      OBVIOUS
    <2> DEFINE j == p - loc.window_posn
    <2>1. j \in Nat /\ loc.window_posn + j <= W - 1
      BY <1>0
    <2> HIDE DEF j
    <2> DEFINE r == j % offset
    <2>2. offset \in Nat \ {0} /\ j \in Int
      BY <2>1
    <2>3. r \in 0 .. offset - 1
      BY <2>2, ModRange
    <2>4. r <= j
      BY <2>1, <2>2, DivModNat
    <2> HIDE DEF r
    <2>5. Wrapped(loc.window_posn - offset + r) \in 0 .. W - 1
      BY <1>0, <2>1, <2>2, <2>3, <2>4, WindowFacts DEF Wrapped
    <2>6. QED
      BY <2>5 DEF j, r
  <1>2. CopiedAtOnce(offset, n) \in Window
    BY <1>0, <1>1 DEF CopiedAtOnce, Window
  <1>3. QED
    BY <1>0, <1>2, CopiedIs

LEMMA SetLensType ==
    ASSUME TypeInv, NEW n \in Nat \ {0}, NEW value \in 0 .. MaxLength,
           loc.x + n \in Lens, SetLens(n, value), pc = "lens"
    PROVE  /\ lzx' \in Decoders /\ loc' \in Locals /\ pc' = "lens" /\ out' = out
           /\ loc'.x = loc.x + n /\ loc'.last = loc.last
           /\ \A s \in Lens : lzx'.lens[s] =
                IF s \in loc.x .. loc.x + n - 1 THEN value ELSE lzx.lens[s]
           /\ \A s \in 0 .. NMain - 1 : lzx'.lens[s] \in 0 .. MaxLength
  <1> DEFINE l == [s \in Lens |-> IF s \in loc.x .. loc.x + n - 1 THEN value ELSE lzx.lens[s]]
  <1>0. /\ lzx \in Decoders /\ loc \in Locals
        /\ lzx.lens \in Lengths
        /\ \A s \in 0 .. NMain - 1 : lzx.lens[s] \in 0 .. MaxLength
    BY DEF TypeInv, Decoders
  <1>1. l \in Lengths
    BY <1>0 DEF Lengths
  <1>2. \A s \in 0 .. NMain - 1 : l[s] \in 0 .. MaxLength
    BY <1>0, RangeFacts
  <1>3. lzx' = [lzx EXCEPT !.lens = l]
    BY DEF SetLens
  <1>4. \A s \in Lens : l[s] = IF s \in loc.x .. loc.x + n - 1 THEN value ELSE lzx.lens[s]
    OBVIOUS
  <1> HIDE DEF l
  <1>5. lzx' \in Decoders /\ lzx'.lens = l
    BY <1>0, <1>1, <1>3 DEF Decoders
  <1>6. loc' = [loc EXCEPT !.x = loc.x + n] /\ pc' = pc /\ out' = out
    BY DEF SetLens
  <1>7. loc' \in Locals /\ loc'.x = loc.x + n /\ loc'.last = loc.last
    BY <1>0, <1>6 DEF Locals
  <1>8. QED
    BY <1>2, <1>4, <1>5, <1>6, <1>7

\* A length that is read is one.
LEMMA DeltaType ==
    ASSUME TypeInv, NEW s \in 0 .. NMain - 1
    PROVE  /\ Delta(lzx.lens[s], Written(s)) \in 0 .. MaxLength
           /\ lzx.lens[s] = enc.lens[s] => Delta(lzx.lens[s], Written(s)) = enc.meant[s]
  <1> DEFINE a == lzx.lens[s]
             b == enc.lens[s]
             m == enc.meant[s]
             z == (b - m) % 17
  <1>1. a \in 0 .. 16 /\ b \in 0 .. 16 /\ m \in 0 .. 16
    BY DEF TypeInv, Encoders, Code, MaxLength
  <1>2. Written(s) = z
    BY DEF Written, MaxLength
  <1> HIDE DEF a, b, m
  <1>3. /\ z \in 0 .. 16
        /\ z = IF b - m < 0 THEN b - m + 17 ELSE b - m
    BY <1>1
  <1> HIDE DEF z
  <1>4. /\ Delta(a, z) \in 0 .. 16
        /\ a = b => Delta(a, z) = m
    BY <1>1, <1>3 DEF Delta, MaxLength
  <1>5. QED
    BY <1>2, <1>4 DEF a, b, m, MaxLength


LEMMA CallTypeInv == TypeInv /\ Call => TypeInv'
  <1> SUFFICES ASSUME TypeInv, Call PROVE TypeInv'
    OBVIOUS
  <1>0. lzx \in Decoders /\ enc \in Encoders
    BY DEF TypeInv
  <1>1. PICK size \in {0, 1} :
          lzx' = IF lzx.header_read THEN lzx
                 ELSE [lzx EXCEPT !.header_read = TRUE, !.intel_filesize = size]
    BY DEF Call
  <1>2. lzx' \in Decoders /\ lzx'.lens = lzx.lens
    <2> DEFINE r1 == [lzx EXCEPT !.header_read = TRUE]
    <2>1. r1 \in Decoders /\ r1.lens = lzx.lens
      BY <1>0 DEF Decoders
    <2>2. lzx' = lzx \/ lzx' = [r1 EXCEPT !.intel_filesize = size]
      BY <1>1
    <2> HIDE DEF r1
    <2>3. QED
      BY <1>0, <2>1, <2>2 DEF Decoders
  <1>3. loc' \in Locals
    <2> DEFINE l1 == [NoLocals EXCEPT !.togo = F]
               l2 == [l1 EXCEPT !.window_posn = lzx.window_posn]
    <2>1. F \in 0 .. F /\ lzx.window_posn \in 0 .. W /\ lzx.R \in Offsets
      BY <1>0, WindowFacts DEF Decoders
    <2>2. l2 \in Locals
      BY <2>1, NoLocalsType DEF Locals
    <2>3. loc' = [l2 EXCEPT !.R = lzx.R]
      BY DEF Call
    <2> HIDE DEF l2
    <2>4. QED
      BY <2>1, <2>2, <2>3 DEF Locals
  <1>4. QED
    BY <1>2, <1>3 DEF Call, TypeInv

LEMMA BlockTypeInv == TypeInv /\ (CodedBlock \/ UncompressedBlock) => TypeInv'
  <1> SUFFICES ASSUME TypeInv, CodedBlock \/ UncompressedBlock PROVE TypeInv'
    OBVIOUS
  <1>0. lzx \in Decoders /\ enc \in Encoders /\ loc \in Locals
    BY DEF TypeInv
  <1>1. CASE CodedBlock
    <2>1. PICK n \in BlockLengths, code \in Codes :
            /\ lzx' = [lzx EXCEPT !.block_type = CODED, !.block_remaining = n]
            /\ enc' = [enc EXCEPT !.meant = code]
      BY <1>1 DEF CodedBlock
    <2> DEFINE r1 == [lzx EXCEPT !.block_type = CODED]
               l1 == [loc EXCEPT !.x = 0]
    <2>2. /\ n \in Nat /\ code \in Code /\ CODED \in {CODED, UNCOMPRESSED, INVALID}
          /\ 0 \in Lens /\ NChars \in {0, NChars, NMain}
      BY StreamAssumption, LensAssumption, RangeFacts DEF Code
    <2>3. r1 \in Decoders /\ r1.lens = lzx.lens /\ l1 \in Locals
      BY <1>0, <2>2 DEF Decoders, Locals
    <2>4. /\ lzx' = [r1 EXCEPT !.block_remaining = n]
          /\ loc' = [l1 EXCEPT !.last = NChars]
      BY <1>1, <2>1 DEF CodedBlock
    <2> HIDE DEF r1, l1
    <2>5. lzx' \in Decoders /\ lzx'.lens = lzx.lens
      BY <2>2, <2>3, <2>4 DEF Decoders
    <2>6. loc' \in Locals /\ loc'.last = NChars
      BY <2>2, <2>3, <2>4 DEF Locals
    <2>7. enc' \in Encoders
      BY <1>0, <2>1, <2>2 DEF Encoders
    <2>8. QED
      BY <1>1, <2>5, <2>6, <2>7 DEF CodedBlock, TypeInv
  <1>2. CASE UncompressedBlock
    <2>1. PICK n \in BlockLengths :
            lzx' = [lzx EXCEPT !.block_type = UNCOMPRESSED, !.block_remaining = n,
                               !.intel_started = TRUE]
      BY <1>2 DEF UncompressedBlock
    <2> DEFINE r1 == [lzx EXCEPT !.block_type = UNCOMPRESSED]
               r2 == [r1 EXCEPT !.block_remaining = n]
    <2>2. n \in Nat /\ UNCOMPRESSED \in {CODED, UNCOMPRESSED, INVALID} /\ enc.R \in Offsets
      BY <1>0, StreamAssumption DEF Encoders
    <2>3. r2 \in Decoders /\ r2.lens = lzx.lens
      BY <1>0, <2>2 DEF Decoders
    <2>4. lzx' = [r2 EXCEPT !.intel_started = TRUE] /\ loc' = [loc EXCEPT !.R = enc.R]
      BY <1>2, <2>1 DEF UncompressedBlock
    <2> HIDE DEF r2
    <2>5. lzx' \in Decoders /\ lzx'.lens = lzx.lens
      BY <2>3, <2>4 DEF Decoders
    <2>6. loc' \in Locals
      BY <1>0, <2>2, <2>4 DEF Locals
    <2>7. pc = "run"
      BY <1>2 DEF UncompressedBlock, ExpectBlock
    <2>8. QED
      BY <1>2, <2>5, <2>6, <2>7 DEF UncompressedBlock, TypeInv
  <1>3. QED
    BY <1>1, <1>2

LEMMA LensTypeInv == TypeInv /\ (ReadLength \/ ReadRun \/ ReadOverrun) => TypeInv'
  <1> SUFFICES ASSUME TypeInv, ReadLength \/ ReadRun \/ ReadOverrun PROVE TypeInv'
    OBVIOUS
  <1>0. pc = "lens" /\ loc.x < loc.last /\ enc \in Encoders /\ loc.last \in {NChars, NMain}
    BY DEF ReadLength, ReadRun, ReadOverrun, TypeInv
  <1>1. loc.x \in Lens /\ Runs \subseteq 1 .. Safety
    BY LensAssumption DEF TypeInv, Locals
  <1>2. loc.x \in 0 .. NMain - 1
    BY <1>0, <1>1, RangeFacts
  <1>3. \A n \in Runs : n \in Nat \ {0} /\ loc.x + n \in Lens
    BY <1>0, <1>1, <1>2, RangeFacts
  <1>4. Delta(lzx.lens[loc.x], Written(loc.x)) \in 0 .. MaxLength /\ 0 \in 0 .. MaxLength
    BY <1>2, DeltaType DEF MaxLength
  <1>5. enc' \in Encoders
    BY <1>0 DEF ReadLength, ReadRun, ReadOverrun, Encoders
  <1>6. CASE ReadLength
    <2>1. 1 \in Nat \ {0} /\ loc.x + 1 \in Lens
      BY <1>2, RangeFacts
    <2>2. SetLens(1, Delta(lzx.lens[loc.x], Written(loc.x)))
      BY <1>6 DEF ReadLength
    <2>3. QED
      BY <1>0, <1>4, <1>5, <2>1, <2>2, SetLensType DEF TypeInv
  <1>7. CASE ReadRun \/ ReadOverrun
    <2>1. PICK n \in Runs, value \in {0, Delta(lzx.lens[loc.x], Written(loc.x))} :
            SetLens(n, value)
      BY <1>7 DEF ReadRun, ReadOverrun
    <2>2. value \in 0 .. MaxLength
      BY <1>4
    <2>3. QED
      BY <1>0, <1>3, <1>5, <2>1, <2>2, SetLensType DEF TypeInv
  <1>8. QED
    BY <1>6, <1>7

LEMMA DoneTypeInv == TypeInv /\ (CharsDone \/ LensDone) => TypeInv'
  <1> SUFFICES ASSUME TypeInv, CharsDone \/ LensDone PROVE TypeInv'
    OBVIOUS
  <1>0. /\ lzx \in Decoders /\ enc \in Encoders /\ loc \in Locals
        /\ 0 \in Lens /\ NChars \in Lens
    BY RangeFacts DEF TypeInv
  <1>1. CASE CharsDone
    <2> DEFINE l1 == [loc EXCEPT !.x = NChars]
    <2>1. l1 \in Locals
      BY <1>0 DEF Locals
    <2>2. loc' = [l1 EXCEPT !.last = NMain]
      BY <1>1 DEF CharsDone
    <2> HIDE DEF l1
    <2>3. loc' \in Locals /\ loc'.last = NMain
      BY <2>1, <2>2 DEF Locals
    <2>4. QED
      BY <1>0, <1>1, <2>3 DEF CharsDone, TypeInv
  <1>2. CASE LensDone
    <2> DEFINE l1 == [loc EXCEPT !.x = 0]
               b == lzx.intel_started \/ lzx.lens[E8] # 0
    <2>1. l1 \in Locals /\ b \in BOOLEAN
      BY <1>0 DEF Locals
    <2>2. /\ loc' = [l1 EXCEPT !.last = 0] /\ lzx' = [lzx EXCEPT !.intel_started = b]
          /\ enc' = [enc EXCEPT !.lens = enc.meant]
      BY <1>2 DEF LensDone
    <2> HIDE DEF l1, b
    <2>3. loc' \in Locals
      BY <2>1, <2>2 DEF Locals
    <2>4. lzx' \in Decoders /\ lzx'.lens = lzx.lens
      BY <1>0, <2>1, <2>2 DEF Decoders
    <2>5. enc' \in Encoders
      BY <1>0, <2>2 DEF Encoders
    <2>6. QED
      BY <1>2, <2>3, <2>4, <2>5 DEF LensDone, TypeInv
  <1>3. QED
    BY <1>1, <1>2


\* The decoder's way to swap two offsets, and the encoder's.
LEMMA RepeatedIs ==
    ASSUME NEW R \in Offsets, NEW i \in 1 .. 3
    PROVE  /\ R[i] \in 1 .. W
           /\ Repeated(R, i) \in Offsets
           /\ [R EXCEPT ![1] = R[i], ![i] = R[1]] = Repeated(R, i)
  <1> PICK a \in 1 .. W, b \in 1 .. W, c \in 1 .. W : R = <<a, b, c>>
    BY DEF Offsets
  <1>1. CASE i = 1
    BY <1>1 DEF Repeated, Offsets
  <1>2. CASE i = 2
    BY <1>2 DEF Repeated, Offsets
  <1>3. CASE i = 3
    BY <1>3 DEF Repeated, Offsets
  <1>4. QED
    BY <1>1, <1>2, <1>3

LEMMA NewOffsets ==
    ASSUME NEW R \in Offsets, NEW offset \in 1 .. W
    PROVE  <<offset, R[1], R[2]>> \in Offsets
  BY DEF Offsets

LEMMA StartRunFacts ==
    ASSUME TypeInv, StartRun
    PROVE  \E run \in 1 .. F, posn \in 0 .. W - 1 :
             /\ run <= loc.togo /\ posn = Masked(loc.window_posn)
             /\ lzx' \in Decoders /\ lzx' = [lzx EXCEPT !.block_remaining = @ - run]
             /\ lzx'.lens = lzx.lens
             /\ \/ /\ posn + run > W
                   /\ Return("DECR_DATAFORMAT", TRUE)
                \/ /\ posn + run <= W
                   /\ loc' \in Locals /\ loc'.togo = loc.togo - run
                   /\ loc'.this_run = run /\ loc'.window_posn = posn
                   /\ loc'.R = loc.R
                   /\ pc' = "tokens" /\ out' = out /\ enc' = enc
  <1> DEFINE run == Min({lzx.block_remaining, loc.togo})
             posn == Masked(loc.window_posn)
  <1>0. /\ lzx \in Decoders /\ loc \in Locals
        /\ lzx.block_remaining \in Nat /\ lzx.block_remaining > 0
        /\ loc.togo \in 0 .. F /\ loc.togo > 0 /\ loc.window_posn \in 0 .. W
    BY DEF TypeInv, Decoders, Locals, StartRun
  <1>1. run \in 1 .. F /\ run <= loc.togo /\ lzx.block_remaining - run \in Nat
        /\ loc.togo - run \in 0 .. F /\ run \in 0 .. F
    <2>1. lzx.block_remaining \in Int /\ loc.togo \in Int
      BY <1>0
    <2>2. /\ run \in {lzx.block_remaining, loc.togo}
          /\ run <= lzx.block_remaining /\ run <= loc.togo
      BY <2>1, MinOfTwo
    <2> HIDE DEF run
    <2>3. QED
      BY <1>0, <2>2, WindowFacts
  <1>2. posn \in 0 .. W - 1
    <2>1. W \in Nat \ {0} /\ loc.window_posn \in Int
      BY <1>0, WindowFacts
    <2>2. QED
      BY <2>1, ModRange DEF Masked
  <1>3. /\ lzx' = [lzx EXCEPT !.block_remaining = @ - run]
        /\ IF posn + run > W THEN Return("DECR_DATAFORMAT", TRUE)
           ELSE /\ loc' = [loc EXCEPT !.togo = @ - run, !.this_run = run,
                                      !.window_posn = posn]
                /\ pc' = "tokens"
                /\ UNCHANGED <<out, enc>>
    BY DEF StartRun
  <1> HIDE DEF run, posn
  <1>4. lzx' \in Decoders /\ lzx'.lens = lzx.lens
    BY <1>0, <1>1, <1>3 DEF Decoders
  <1>5. CASE posn + run > W
    BY <1>1, <1>2, <1>3, <1>4, <1>5 DEF posn
  <1>6. CASE ~(posn + run > W)
    <2> DEFINE l1 == [loc EXCEPT !.togo = @ - run]
               l2 == [l1 EXCEPT !.this_run = run]
    <2>1. l2 \in Locals /\ l2.togo = loc.togo - run /\ l2.this_run = run /\ l2.R = loc.R
      BY <1>0, <1>1 DEF Locals
    <2>2. loc' = [l2 EXCEPT !.window_posn = posn]
      BY <1>3, <1>6
    <2> HIDE DEF l2
    <2>3. /\ loc' \in Locals /\ loc'.togo = loc.togo - run
          /\ loc'.this_run = run /\ loc'.window_posn = posn /\ loc'.R = loc.R
      <3>1. posn \in 0 .. W
        BY <1>2, WindowFacts
      <3>2. QED
        BY <2>1, <2>2, <3>1 DEF Locals
    <2>4. posn + run <= W
      BY <1>1, <1>2, <1>6, WindowFacts
    <2>5. QED
      BY <1>1, <1>2, <1>3, <1>4, <1>6, <2>3, <2>4 DEF posn
  <1>7. QED
    BY <1>5, <1>6

LEMMA StartRunTypeInv == TypeInv /\ StartRun => TypeInv'
  <1> SUFFICES ASSUME TypeInv, StartRun PROVE TypeInv'
    OBVIOUS
  <1>1. PICK run \in 1 .. F, posn \in 0 .. W - 1 :
             /\ lzx' \in Decoders
             /\ lzx'.lens = lzx.lens
             /\ \/ Return("DECR_DATAFORMAT", TRUE)
                \/ /\ posn + run <= W
                   /\ loc' \in Locals
                   /\ loc'.this_run = run /\ loc'.window_posn = posn
                   /\ pc' = "tokens" /\ out' = out /\ enc' = enc
    BY StartRunFacts
  <1>2. CASE Return("DECR_DATAFORMAT", TRUE)
    BY <1>1, <1>2, ReturnType DEF TypeInv
  <1>3. CASE /\ posn + run <= W
             /\ loc' \in Locals
             /\ loc'.this_run = run /\ loc'.window_posn = posn
             /\ pc' = "tokens" /\ out' = out /\ enc' = enc
    <2>1. loc'.this_run >= 1 /\ loc'.window_posn + loc'.this_run <= W
      BY <1>3, WindowFacts
    <2>2. QED
      BY <1>1, <1>3, <2>1 DEF TypeInv
  <1>4. QED
    BY <1>1, <1>2, <1>3

LEMMA WindowSet ==
    ASSUME NEW v \in Window, NEW p, NEW c \in Chars
    PROVE  [v EXCEPT ![p] = c] \in Window
  BY DEF Window

LEMMA LiteralTypeInv == TypeInv /\ Literal => TypeInv'
  <1> SUFFICES ASSUME TypeInv, Literal PROVE TypeInv'
    OBVIOUS
  <1>1. PICK c \in Chars :
          /\ Wrote([lzx.window EXCEPT ![loc.window_posn] = c], 1, loc.R)
          /\ enc' = [enc EXCEPT !.hist = Append(@, c)]
    BY DEF Literal
  <1> DEFINE w == [lzx.window EXCEPT ![loc.window_posn] = c]
  <1>2. w \in Window /\ loc.R \in Offsets /\ 1 \in Nat \ {0}
    <2>1. lzx.window \in Window /\ loc.R \in Offsets
      BY DEF TypeInv, Decoders, Locals
    <2>2. w \in Window
      BY <2>1, WindowSet
    <2>3. QED
      BY <2>1, <2>2
  <1>6. Wrote(w, 1, loc.R)
    BY <1>1
  <1>3. pc = "tokens" /\ loc.window_posn + 1 <= W
    BY WindowFacts DEF TypeInv, Literal, Locals
  <1>4. enc' \in Encoders
    <2>1. enc \in Encoders /\ enc.hist \in Texts
      BY DEF TypeInv, Encoders
    <2>2. Append(enc.hist, c) \in Texts
      BY <2>1 DEF Texts
    <2>3. QED
      BY <1>1, <2>1, <2>2 DEF Encoders
  <1> HIDE DEF w
  <1>5. QED
    BY <1>2, <1>3, <1>4, <1>6, WroteTypeInv

LEMMA MeantIs == \A offset, n : Meant(offset, n) = enc.hist \o Repeat(enc.hist, offset, n)
  BY DEF Meant, Repeat

LEMMA MatchFacts ==
    ASSUME TypeInv, pc = "tokens", NEW offset, NEW n \in Matches, CanMatch(offset, n)
    PROVE  /\ n \in Nat \ {0} /\ loc.window_posn + n <= W /\ n <= loc.this_run
           /\ offset \in 1 .. W /\ offset \in 1 .. Len(enc.hist)
           /\ Meant(offset, n) \in Texts
           /\ Repeat(enc.hist, offset, n) \in Texts
           /\ Len(Repeat(enc.hist, offset, n)) = n
  <1>0. /\ n \in Nat \ {0} /\ n <= loc.this_run /\ loc.this_run \in Nat
        /\ loc.window_posn \in Nat /\ loc.window_posn + loc.this_run <= W
        /\ W \in Nat /\ enc.hist \in Texts /\ Len(enc.hist) \in Nat
    BY StreamAssumption, WindowFacts DEF CanMatch, TypeInv, Locals, Encoders, Texts
  <1>1. offset \in 1 .. W /\ offset \in 1 .. Len(enc.hist)
    <2> DEFINE m == Min({Len(enc.hist), W})
    <2>1. Len(enc.hist) \in Int /\ W \in Int
      BY <1>0
    <2>2. m \in {Len(enc.hist), W} /\ m <= Len(enc.hist) /\ m <= W
      BY <2>1, MinOfTwo
    <2>3. offset \in 1 .. m
      BY DEF CanMatch
    <2> HIDE DEF m
    <2>4. QED
      BY <1>0, <2>2, <2>3
  <1>2. Repeat(enc.hist, offset, n) \in Texts /\ Len(Repeat(enc.hist, offset, n)) = n
    BY <1>0, <1>1, RepeatType
  <1>3. Meant(offset, n) \in Texts
    <2>1. enc.hist \o Repeat(enc.hist, offset, n) \in Texts
      BY <1>0, <1>2 DEF Texts
    <2>2. QED
      BY <2>1, MeantIs
  <1>4. QED
    BY <1>0, <1>1, <1>2, <1>3

LEMMA MatchTypeInv == TypeInv /\ (NewMatch \/ RepeatedMatch) => TypeInv'
  <1> SUFFICES ASSUME TypeInv, NewMatch \/ RepeatedMatch PROVE TypeInv'
    OBVIOUS
  <1>0. /\ pc = "tokens" /\ loc.R \in Offsets /\ enc.R \in Offsets /\ enc \in Encoders
    BY DEF TypeInv, Locals, Encoders, NewMatch, RepeatedMatch
  <1>1. CASE NewMatch
    <2>1. PICK offset \in 1 .. W, n \in Matches :
            /\ CanMatch(offset, n)
            /\ Wrote(Copied(offset, n), n, <<offset, loc.R[1], loc.R[2]>>)
            /\ enc' = [enc EXCEPT !.hist = Meant(offset, n), !.R = <<offset, @[1], @[2]>>]
      BY <1>1 DEF NewMatch
    <2>2. /\ n \in Nat \ {0} /\ loc.window_posn + n <= W /\ Meant(offset, n) \in Texts
      BY <1>0, <2>1, MatchFacts
    <2>3. Copied(offset, n) \in Window
      BY <2>2, CopiedType
    <2>4. <<offset, loc.R[1], loc.R[2]>> \in Offsets /\ <<offset, enc.R[1], enc.R[2]>> \in Offsets
      BY <1>0, NewOffsets
    <2>5. enc' \in Encoders
      <3> DEFINE e1 == [enc EXCEPT !.hist = Meant(offset, n)]
      <3>1. e1 \in Encoders /\ e1.R = enc.R
        BY <1>0, <2>2 DEF Encoders
      <3>2. enc' = [e1 EXCEPT !.R = <<offset, enc.R[1], enc.R[2]>>]
        BY <1>0, <2>1, <3>1 DEF Encoders
      <3> HIDE DEF e1
      <3>3. QED
        BY <2>4, <3>1, <3>2 DEF Encoders
    <2>6. QED
      BY <1>0, <2>1, <2>2, <2>3, <2>4, <2>5, WroteTypeInv
  <1>2. CASE RepeatedMatch
    <2>1. PICK i \in 1 .. 3, n \in Matches :
            /\ CanMatch(enc.R[i], n)
            /\ Wrote(Copied(loc.R[i], n), n, Repeated(loc.R, i))
            /\ enc' = [enc EXCEPT !.hist = Meant(enc.R[i], n),
                                  !.R = [@ EXCEPT ![1] = enc.R[i], ![i] = enc.R[1]]]
      BY <1>2 DEF RepeatedMatch
    <2>2. /\ n \in Nat \ {0} /\ loc.window_posn + n <= W /\ Meant(enc.R[i], n) \in Texts
      BY <1>0, <2>1, MatchFacts
    <2>3. loc.R[i] \in 1 .. W /\ Repeated(loc.R, i) \in Offsets /\ Repeated(enc.R, i) \in Offsets
      BY <1>0, RepeatedIs
    <2>4. Copied(loc.R[i], n) \in Window
      BY <2>2, <2>3, CopiedType
    <2>5. enc' \in Encoders
      <3> DEFINE e1 == [enc EXCEPT !.hist = Meant(enc.R[i], n)]
      <3>1. e1 \in Encoders /\ e1.R = enc.R
        BY <1>0, <2>2 DEF Encoders
      <3>2. enc' = [e1 EXCEPT !.R = [enc.R EXCEPT ![1] = enc.R[i], ![i] = enc.R[1]]]
        BY <1>0, <2>1, <3>1 DEF Encoders
      <3>3. [enc.R EXCEPT ![1] = enc.R[i], ![i] = enc.R[1]] = Repeated(enc.R, i)
        BY <1>0, RepeatedIs
      <3> HIDE DEF e1
      <3>4. QED
        BY <2>3, <3>1, <3>2, <3>3 DEF Encoders
    <2>6. QED
      BY <1>0, <2>1, <2>2, <2>3, <2>4, <2>5, WroteTypeInv
  <1>3. QED
    BY <1>1, <1>2


LEMMA OverrunTypeInv == TypeInv /\ Overrun => TypeInv'
  <1> SUFFICES ASSUME TypeInv, Overrun PROVE TypeInv'
    OBVIOUS
  <1>0. /\ pc = "tokens" /\ enc \in Encoders /\ loc.R \in Offsets /\ loc.R[1] \in 1 .. W
        /\ loc.window_posn \in Nat /\ W \in Nat
    BY WindowFacts DEF TypeInv, Overrun, Locals, Offsets
  <1>1. PICK n \in Matches :
          IF loc.window_posn + n > W
            THEN Return("DECR_ILLEGALDATA", FALSE) /\ UNCHANGED lzx
            ELSE /\ Wrote(Copied(loc.R[1], n), n, loc.R)
                 /\ enc' = [enc EXCEPT !.synced = FALSE]
    BY DEF Overrun
  <1>2. n \in Nat \ {0}
    BY StreamAssumption
  <1>3. CASE loc.window_posn + n > W
    BY <1>0, <1>1, <1>3, ReturnType DEF TypeInv
  <1>4. CASE ~(loc.window_posn + n > W)
    <2>1. loc.window_posn + n <= W
      BY <1>0, <1>2, <1>4
    <2>2. Copied(loc.R[1], n) \in Window
      BY <1>0, <1>2, <2>1, CopiedType
    <2>3. enc' \in Encoders
      BY <1>0, <1>1, <1>4 DEF Encoders
    <2>4. QED
      BY <1>0, <1>1, <1>2, <1>4, <2>1, <2>2, <2>3, WroteTypeInv
  <1>5. QED
    BY <1>3, <1>4

\* The bytes of an uncompressed run, written to the window.
Pasted(s) == [p \in 0 .. W - 1 |->
                IF p \in loc.window_posn .. loc.window_posn + loc.this_run - 1
                THEN s[p - loc.window_posn + 1] ELSE lzx.window[p]]

LEMMA CopyRunFacts ==
    ASSUME TypeInv, CopyRun
    PROVE  \E s \in [1 .. loc.this_run -> Chars] :
             /\ Wrote(Pasted(s), loc.this_run, loc.R)
             /\ enc' = [enc EXCEPT !.hist = @ \o s]
             /\ Pasted(s) \in Window /\ s \in Texts /\ Len(s) = loc.this_run
             /\ enc.hist \o s \in Texts /\ enc' \in Encoders
             /\ loc.this_run \in Nat \ {0} /\ loc.window_posn + loc.this_run <= W
             /\ pc = "tokens" /\ loc.R \in Offsets
  <1>0. /\ pc = "tokens" /\ loc.R \in Offsets
        /\ loc.this_run \in Nat \ {0} /\ loc.window_posn + loc.this_run <= W
        /\ loc.window_posn \in Nat /\ lzx.window \in Window /\ enc \in Encoders
        /\ enc.hist \in Texts
    BY DEF CopyRun, TypeInv, Locals, Decoders, Encoders
  <1>1. PICK s \in [1 .. loc.this_run -> Chars] :
          /\ Wrote(Pasted(s), loc.this_run, loc.R)
          /\ enc' = [enc EXCEPT !.hist = @ \o s]
    BY DEF CopyRun, Pasted
  <1>2. s \in Texts /\ Len(s) = loc.this_run
    BY <1>0 DEF Texts
  <1>3. Pasted(s) \in Window
    <2> SUFFICES ASSUME NEW p \in 0 .. W - 1,
                        p \in loc.window_posn .. loc.window_posn + loc.this_run - 1
                 PROVE  s[p - loc.window_posn + 1] \in Chars
      BY <1>0 DEF Pasted, Window
    <2>1. p - loc.window_posn + 1 \in 1 .. loc.this_run
      BY <1>0
    <2>2. QED
      BY <2>1
  <1>4. enc.hist \o s \in Texts
    BY <1>0, <1>2 DEF Texts
  <1>5. enc' \in Encoders
    BY <1>0, <1>1, <1>4 DEF Encoders
  <1>6. QED
    BY <1>0, <1>1, <1>2, <1>3, <1>4, <1>5

LEMMA CopyRunTypeInv == TypeInv /\ CopyRun => TypeInv'
  BY CopyRunFacts, WroteTypeInv

LEMMA FinishTypeInv == TypeInv /\ Finish => TypeInv'
  <1> SUFFICES ASSUME TypeInv, Finish PROVE TypeInv'
    OBVIOUS
  <1>0. lzx \in Decoders /\ loc \in Locals /\ enc \in Encoders
    BY DEF TypeInv
  <1> DEFINE r1 == [lzx EXCEPT !.window_posn = loc.window_posn]
             r2 == [r1 EXCEPT !.R = loc.R]
             r3 == [r2 EXCEPT !.frames_read = @ + 1]
             pos == IF Translates THEN Curpos ELSE lzx.intel_curpos
  <1>1. r2 \in Decoders /\ r2.lens = lzx.lens
    BY <1>0 DEF Decoders, Locals
  <1> HIDE DEF r2
  <1>2. r3 \in Decoders /\ r3.lens = lzx.lens
    BY <1>1 DEF Decoders
  <1>3. lzx' = [r3 EXCEPT !.intel_curpos = pos]
    BY <1>0 DEF Finish, r2, Decoders
  <1>4. pos \in Nat
    BY <1>0, WindowFacts DEF Curpos, Decoders
  <1> HIDE DEF r3, pos
  <1>5. lzx' \in Decoders /\ lzx'.lens = lzx.lens
    BY <1>2, <1>3, <1>4 DEF Decoders
  <1>6. enc' \in Encoders
    BY <1>0 DEF Finish, Encoders
  <1>7. QED
    BY <1>5, <1>6, NoLocalsType DEF Finish, TypeInv

LEMMA ResetTypeInv == TypeInv /\ Reset => TypeInv'
  <1> SUFFICES ASSUME TypeInv, Reset PROVE TypeInv'
    OBVIOUS
  <1>1. ResetState \in Decoders
    BY ResetType DEF TypeInv
  <1>2. \A s \in 0 .. NMain - 1 : ResetState.lens[s] \in 0 .. MaxLength
    <2>1. ResetState.lens = [s \in Lens |-> 0]
      BY DEF ResetState, TypeInv, Decoders
    <2>2. 0 .. NMain - 1 \subseteq Lens /\ 0 \in 0 .. MaxLength
      BY RangeFacts DEF MaxLength
    <2>3. QED
      BY <2>1, <2>2
  <1>3. AtStart \in Encoders
    <2> DEFINE z == [s \in 0 .. NMain - 1 |-> 0]
    <2>1. z \in Code /\ <<1, 1, 1>> \in Offsets /\ <<>> \in Texts
      BY WindowFacts DEF Code, MaxLength, Offsets, Texts
    <2>2. AtStart = [hist |-> <<>>, R |-> <<1, 1, 1>>, lens |-> z, meant |-> z,
                     frames |-> 0, synced |-> TRUE]
      BY DEF AtStart
    <2> HIDE DEF z
    <2>3. QED
      BY <2>1, <2>2 DEF Encoders
  <1>4. QED
    BY <1>1, <1>2, <1>3 DEF Reset, TypeInv

LEMMA RefuseTypeInv == TypeInv /\ Refuse => TypeInv'
  BY ReturnType DEF Refuse, TypeInv

LEMMA StutterTypeInv == TypeInv /\ UNCHANGED vars => TypeInv'
  BY DEF TypeInv, vars

LEMMA InitTypeInv == Init => TypeInv
  <1> SUFFICES ASSUME Init PROVE TypeInv
    OBVIOUS
  <1>1. lzx \in Decoders /\ loc \in Locals /\ enc \in Encoders
    BY InitType
  <1>2. \A s \in 0 .. NMain - 1 : lzx.lens[s] \in 0 .. MaxLength
    BY RangeFacts DEF Init, MaxLength
  <1>3. QED
    BY <1>1, <1>2 DEF Init, TypeInv

LEMMA NextTypeInv == TypeInv /\ [Next]_vars => TypeInv'
  BY CallTypeInv, BlockTypeInv, LensTypeInv, DoneTypeInv, StartRunTypeInv, LiteralTypeInv,
     MatchTypeInv, OverrunTypeInv, CopyRunTypeInv, FinishTypeInv, ResetTypeInv,
     RefuseTypeInv, StutterTypeInv DEF Next, Step

\* The decoder stays in its buffers: positions, lengths and the symbols a run
\* of lengths reaches, in a damaged stream, too.
THEOREM FramesTypeCorrect == Spec => []TypeOK
  <1>1. Init => TypeInv
    BY InitTypeInv
  <1>2. TypeInv /\ [Next]_vars => TypeInv'
    BY NextTypeInv
  <1>3. QED
    BY <1>1, <1>2, TypeImplies, PTL DEF Spec

-----------------------------------------------------------------------------
(* What steps leave alone *)

\* The code lengths, the block they are for, and whether calls are translated.
SameCode ==
    /\ lzx'.lens = lzx.lens /\ lzx'.block_type = lzx.block_type
    /\ lzx'.intel_started = lzx.intel_started
    /\ enc'.lens = enc.lens /\ enc'.meant = enc.meant

\* The header, and where the next frame is in the file.
SameHeader ==
    /\ lzx'.header_read = lzx.header_read /\ lzx'.intel_filesize = lzx.intel_filesize
    /\ lzx'.intel_curpos = lzx.intel_curpos

\* The window, the offsets and the text.
SameText ==
    /\ lzx'.window = lzx.window /\ lzx'.R = lzx.R /\ lzx'.window_posn = lzx.window_posn
    /\ enc'.hist = enc.hist /\ enc'.R = enc.R /\ enc'.frames = enc.frames

\* Where the call stands in window and frame.
SamePlace ==
    /\ loc'.togo = loc.togo /\ loc'.this_run = loc.this_run
    /\ loc'.window_posn = loc.window_posn

LEMMA CallKeeps ==
    ASSUME TypeInv, Call
    PROVE  /\ SameCode /\ SameText /\ enc' = enc /\ pc = "idle" /\ pc' = "run"
           /\ loc'.togo = F /\ loc'.this_run = 0 /\ loc'.window_posn = lzx.window_posn
           /\ loc'.R = lzx.R /\ lzx'.header_read /\ lzx'.intel_curpos = lzx.intel_curpos
           /\ lzx.header_read => lzx'.intel_filesize = lzx.intel_filesize
           /\ out'.ret = "none"
  <1>0. lzx \in Decoders /\ enc' = enc
    BY DEF TypeInv, Call
  <1>1. PICK size \in {0, 1} :
          lzx' = IF lzx.header_read THEN lzx
                 ELSE [lzx EXCEPT !.header_read = TRUE, !.intel_filesize = size]
    BY DEF Call
  <1>2. /\ SameCode /\ SameText /\ lzx'.intel_curpos = lzx.intel_curpos
        /\ lzx'.header_read = TRUE
        /\ lzx.header_read => lzx'.intel_filesize = lzx.intel_filesize
    <2>1. CASE lzx.header_read
      BY <1>0, <1>1, <2>1 DEF SameCode, SameText, Decoders
    <2>2. CASE ~lzx.header_read
      BY <1>0, <1>1, <2>2 DEF SameCode, SameText, Decoders
    <2>3. QED
      BY <2>1, <2>2
  <1>3. loc'.togo = F /\ loc'.window_posn = lzx.window_posn /\ loc'.R = lzx.R
        /\ loc'.this_run = 0
    BY DEF Call, NoLocals
  <1>4. pc = "idle" /\ pc' = "run" /\ out'.ret = "none"
    BY DEF Call, NoOut
  <1>5. QED
    BY <1>0, <1>2, <1>3, <1>4

LEMMA ReturnKeeps ==
    ASSUME TypeInv, NEW ret, NEW ok \in BOOLEAN, Return(ret, ok)
    PROVE  /\ enc'.lens = enc.lens /\ enc'.meant = enc.meant /\ enc'.hist = enc.hist
           /\ enc'.R = enc.R /\ enc'.synced = (enc.synced /\ ok) /\ pc' = "idle"
           /\ out'.ret = ret
  <1> DEFINE e1 == [enc EXCEPT !.frames = @ + 1]
  <1>1. /\ e1 \in Encoders /\ e1.synced = enc.synced /\ e1.lens = enc.lens
        /\ e1.meant = enc.meant /\ e1.hist = enc.hist /\ e1.R = enc.R
    BY DEF TypeInv, Encoders
  <1>2. enc' = [e1 EXCEPT !.synced = @ /\ ok]
    BY DEF Return
  <1> HIDE DEF e1
  <1>3. QED
    BY <1>1, <1>2 DEF Encoders, Return, NoOut

LEMMA WroteKeeps ==
    ASSUME TypeInv, NEW w, NEW n, NEW R, Wrote(w, n, R)
    PROVE  /\ lzx'.lens = lzx.lens /\ lzx'.block_type = lzx.block_type
           /\ lzx'.intel_started = lzx.intel_started /\ lzx'.window = w
           /\ SameHeader
  BY DEF TypeInv, Decoders, Wrote, SameHeader

\* Steps on the text leave the code alone, and mostly the place is only moved.
LEMMA RunKeeps ==
    ASSUME TypeInv, StartRun \/ Literal \/ NewMatch \/ RepeatedMatch \/ Overrun \/ CopyRun
    PROVE  SameCode /\ SameHeader /\ pc \in {"run", "tokens"} /\ pc' # "lens"
           /\ (enc'.synced => enc.synced)
  <1>0. lzx \in Decoders /\ enc \in Encoders
    BY DEF TypeInv
  <1>1. CASE StartRun
    <2>1. PICK run \in 1 .. F :
             /\ lzx' = [lzx EXCEPT !.block_remaining = @ - run]
             /\ \/ Return("DECR_DATAFORMAT", TRUE)
                \/ pc' = "tokens" /\ enc' = enc
      BY <1>1, StartRunFacts
    <2>2. /\ enc'.lens = enc.lens /\ enc'.meant = enc.meant /\ (enc'.synced => enc.synced)
          /\ pc' # "lens"
      BY <2>1, ReturnKeeps
    <2>3. /\ lzx'.lens = lzx.lens /\ lzx'.block_type = lzx.block_type
          /\ lzx'.intel_started = lzx.intel_started /\ SameHeader
      BY <1>0, <2>1 DEF Decoders, SameHeader
    <2>4. QED
      BY <1>1, <2>2, <2>3 DEF StartRun, SameCode
  <1>2. CASE Literal \/ NewMatch \/ RepeatedMatch \/ CopyRun
    <2>1. pc = "tokens" /\ \E w, n, R : Wrote(w, n, R)
      BY <1>2 DEF Literal, NewMatch, RepeatedMatch, CopyRun
    <2>2. enc'.lens = enc.lens /\ enc'.meant = enc.meant /\ enc'.synced = enc.synced
      <3>1. CASE Literal
        BY <1>0, <3>1 DEF Literal, Encoders
      <3>2. CASE NewMatch
        BY <1>0, <3>2 DEF NewMatch, Encoders
      <3>3. CASE RepeatedMatch
        BY <1>0, <3>3 DEF RepeatedMatch, Encoders
      <3>4. CASE CopyRun
        BY <1>0, <3>4 DEF CopyRun, Encoders
      <3>5. QED
        BY <1>2, <3>1, <3>2, <3>3, <3>4
    <2>3. pc' # "lens"
      BY <2>1 DEF Wrote
    <2>4. QED
      BY <2>1, <2>2, <2>3, WroteKeeps DEF SameCode
  <1>3. CASE Overrun
    <2>1. PICK n \in Matches :
            IF loc.window_posn + n > W
              THEN Return("DECR_ILLEGALDATA", FALSE) /\ UNCHANGED lzx
              ELSE /\ Wrote(Copied(loc.R[1], n), n, loc.R)
                   /\ enc' = [enc EXCEPT !.synced = FALSE]
      BY <1>3 DEF Overrun
    <2>2. CASE loc.window_posn + n > W
      BY <1>3, <2>1, <2>2, ReturnKeeps DEF Overrun, SameCode, SameHeader
    <2>3. CASE ~(loc.window_posn + n > W)
      <3>1. enc'.lens = enc.lens /\ enc'.meant = enc.meant /\ enc'.synced = FALSE
        BY <1>0, <2>1, <2>3 DEF Encoders
      <3>2. Wrote(Copied(loc.R[1], n), n, loc.R) /\ pc = "tokens"
        BY <1>3, <2>1, <2>3 DEF Overrun
      <3>3. pc' # "lens"
        BY <3>2 DEF Wrote
      <3>4. QED
        BY <3>1, <3>2, <3>3, WroteKeeps DEF SameCode
    <2>4. QED
      BY <2>2, <2>3
  <1>4. QED
    BY <1>1, <1>2, <1>3

LEMMA FinishKeeps ==
    ASSUME TypeInv, Finish
    PROVE  /\ SameCode /\ pc = "run" /\ pc' = "idle" /\ loc.togo = 0
           /\ lzx'.window = lzx.window /\ lzx'.window_posn = loc.window_posn
           /\ lzx'.R = loc.R /\ lzx'.header_read = lzx.header_read
           /\ lzx'.intel_filesize = lzx.intel_filesize
           /\ lzx'.intel_curpos = IF Translates THEN Curpos ELSE lzx.intel_curpos
           /\ enc'.synced = enc.synced /\ enc'.hist = enc.hist /\ enc'.R = enc.R
           /\ enc'.frames = enc.frames + 1
  <1>0. lzx \in Decoders /\ enc \in Encoders
    BY DEF TypeInv
  <1>1. /\ lzx'.window = lzx.window /\ lzx'.window_posn = loc.window_posn
        /\ lzx'.R = loc.R /\ lzx'.header_read = lzx.header_read
        /\ lzx'.intel_filesize = lzx.intel_filesize
        /\ lzx'.intel_curpos = IF Translates THEN Curpos ELSE lzx.intel_curpos
        /\ lzx'.lens = lzx.lens /\ lzx'.block_type = lzx.block_type
        /\ lzx'.intel_started = lzx.intel_started
    BY <1>0 DEF Finish, Decoders
  <1>2. /\ enc'.synced = enc.synced /\ enc'.hist = enc.hist /\ enc'.R = enc.R
        /\ enc'.frames = enc.frames + 1 /\ enc'.lens = enc.lens /\ enc'.meant = enc.meant
    BY <1>0 DEF Finish, Encoders
  <1>3. QED
    BY <1>1, <1>2 DEF Finish, SameCode

\* Steps on the code leave the text alone.
LEMMA CodeKeeps ==
    ASSUME TypeInv, CodedBlock \/ UncompressedBlock \/ ReadLength \/ ReadRun
                      \/ ReadOverrun \/ CharsDone \/ LensDone
    PROVE  /\ SameText /\ SamePlace /\ SameHeader
           /\ pc \in {"run", "lens"} /\ pc' \in {"run", "lens"} /\ out' = out
           /\ (enc'.synced => enc.synced)
           /\ loc'.R = loc.R \/ loc'.R = enc.R
  <1>0. lzx \in Decoders /\ enc \in Encoders /\ loc \in Locals
    BY DEF TypeInv
  <1>1. CASE CodedBlock
    BY <1>0, <1>1 DEF CodedBlock, ExpectBlock, SameText, SamePlace, SameHeader, Decoders,
                      Encoders, Locals
  <1>2. CASE UncompressedBlock
    BY <1>0, <1>2 DEF UncompressedBlock, ExpectBlock, SameText, SamePlace, SameHeader,
                      Decoders, Encoders, Locals
  <1>3. CASE ReadLength \/ ReadRun \/ ReadOverrun
    <2>1. PICK n, value : SetLens(n, value)
      BY <1>3 DEF ReadLength, ReadRun, ReadOverrun
    <2>2. enc' = enc \/ enc' = [enc EXCEPT !.synced = FALSE]
      BY <1>3 DEF ReadLength, ReadRun, ReadOverrun
    <2>3. pc = "lens"
      BY <1>3 DEF ReadLength, ReadRun, ReadOverrun
    <2>4. QED
      BY <1>0, <2>1, <2>2, <2>3 DEF SetLens, SameText, SamePlace, SameHeader,
                      Decoders, Encoders, Locals
  <1>4. CASE CharsDone
    BY <1>0, <1>4 DEF CharsDone, SameText, SamePlace, SameHeader, Locals
  <1>5. CASE LensDone
    BY <1>0, <1>5 DEF LensDone, SameText, SamePlace, SameHeader, Decoders, Encoders, Locals
  <1>6. QED
    BY <1>1, <1>2, <1>3, <1>4, <1>5


-----------------------------------------------------------------------------
(* Code lengths *)

\* Between blocks the decoder holds the lengths the next ones are differences
\* to; while they are read, those of the new block so far and then the old.
LensInv ==
    enc.synced =>
        /\ pc # "lens" => \A s \in 0 .. NMain - 1 : lzx.lens[s] = enc.lens[s]
        /\ pc # "lens" /\ lzx.block_type = CODED =>
              \A s \in 0 .. NMain - 1 : lzx.lens[s] = enc.meant[s]
        /\ pc = "lens" =>
              /\ loc.x <= loc.last
              /\ \A s \in 0 .. NMain - 1 :
                    lzx.lens[s] = IF s < loc.x THEN enc.meant[s] ELSE enc.lens[s]

LEMMA SameCodeLens ==
    ASSUME LensInv, SameCode, pc # "lens", pc' # "lens", enc'.synced => enc.synced
    PROVE  LensInv'
  BY DEF LensInv, SameCode

\* One more length, or a run of equal ones, as meant.
LEMMA SetLensAsMeant ==
    ASSUME TypeInv, LensInv, pc = "lens", enc.synced, enc' = enc,
           NEW n \in Nat \ {0}, loc.x + n <= loc.last, NEW value,
           SetLens(n, value), value \in 0 .. MaxLength,
           \A s \in loc.x .. loc.x + n - 1 : enc.meant[s] = value
    PROVE  LensInv'
  <1>0. loc.x \in Nat /\ loc.last \in {NChars, NMain} /\ loc.last <= NMain
    BY RangeFacts DEF TypeInv, Locals
  <1>1. loc.x + n \in Lens
    BY <1>0, RangeFacts
  <1>2. /\ pc' = "lens" /\ loc'.x = loc.x + n /\ loc'.last = loc.last
        /\ \A s \in Lens : lzx'.lens[s] =
             IF s \in loc.x .. loc.x + n - 1 THEN value ELSE lzx.lens[s]
    BY <1>1, SetLensType
  <1>3. \A s \in 0 .. NMain - 1 :
          lzx'.lens[s] = IF s < loc.x + n THEN enc.meant[s] ELSE enc.lens[s]
    <2> SUFFICES ASSUME NEW s \in 0 .. NMain - 1
                 PROVE  lzx'.lens[s] = IF s < loc.x + n THEN enc.meant[s] ELSE enc.lens[s]
      OBVIOUS
    <2>1. s \in Lens /\ s \in Nat
      BY RangeFacts
    <2>2. lzx.lens[s] = IF s < loc.x THEN enc.meant[s] ELSE enc.lens[s]
      BY DEF LensInv
    <2>3. CASE s \in loc.x .. loc.x + n - 1
      <3>1. lzx'.lens[s] = enc.meant[s]
        BY <1>2, <2>1, <2>3
      <3>2. s < loc.x + n
        BY <1>0, <2>1, <2>3
      <3>3. QED
        BY <3>1, <3>2
    <2>4. CASE ~(s \in loc.x .. loc.x + n - 1)
      <3>1. lzx'.lens[s] = lzx.lens[s]
        BY <1>2, <2>1, <2>4
      <3>2. s < loc.x <=> s < loc.x + n
        BY <1>0, <2>1, <2>4
      <3>3. QED
        BY <2>2, <3>1, <3>2
    <2>5. QED
      BY <2>3, <2>4
  <1>4. QED
    BY <1>2, <1>3 DEF LensInv

LEMMA CodeStepLens ==
    ASSUME TypeInv, LensInv, CodedBlock \/ UncompressedBlock \/ ReadLength \/ ReadRun
                               \/ ReadOverrun \/ CharsDone \/ LensDone
    PROVE  LensInv'
  <1>0. /\ lzx \in Decoders /\ enc \in Encoders /\ loc \in Locals
        /\ \A s \in 0 .. NMain - 1 : ~(s < 0)
    BY DEF TypeInv
  <1>1. CASE CodedBlock
    <2>1. /\ lzx'.lens = lzx.lens /\ enc'.lens = enc.lens /\ enc'.synced = enc.synced
          /\ pc = "run" /\ pc' = "lens" /\ loc'.x = 0 /\ loc'.last = NChars
      BY <1>0, <1>1 DEF CodedBlock, ExpectBlock, Decoders, Encoders, Locals
    <2>2. QED
      BY <1>0, <2>1, RangeFacts DEF LensInv
  <1>2. CASE UncompressedBlock
    <2>1. /\ lzx'.lens = lzx.lens /\ lzx'.block_type = UNCOMPRESSED /\ enc' = enc
          /\ pc = "run" /\ pc' = "run"
      BY <1>0, <1>2 DEF UncompressedBlock, ExpectBlock, Decoders
    <2>2. QED
      BY <2>1 DEF LensInv, CODED, UNCOMPRESSED
  <1>3. CASE ReadLength \/ ReadRun
    <2> SUFFICES ASSUME enc.synced PROVE LensInv'
      BY <1>3 DEF ReadLength, ReadRun, LensInv
    <2>0. /\ pc = "lens" /\ loc.x < loc.last /\ enc' = enc /\ loc.last \in {NChars, NMain}
          /\ loc.x \in Nat
      BY <1>3, RangeFacts DEF ReadLength, ReadRun, TypeInv, Locals
    <2>1. loc.x \in 0 .. NMain - 1
      BY <2>0, RangeFacts
    <2>2. lzx.lens[loc.x] = enc.lens[loc.x]
      BY <2>0, <2>1 DEF LensInv
    <2>3. /\ Delta(lzx.lens[loc.x], Written(loc.x)) = enc.meant[loc.x]
          /\ enc.meant[loc.x] \in 0 .. MaxLength
      BY <1>0, <2>1, <2>2, DeltaType DEF Encoders, Code
    <2>4. CASE ReadLength
      <3>1. loc.x + 1 <= loc.last
        BY <2>0, RangeFacts
      <3>2. SetLens(1, enc.meant[loc.x])
        BY <2>3, <2>4 DEF ReadLength
      <3>3. \A s \in loc.x .. loc.x + 1 - 1 : enc.meant[s] = enc.meant[loc.x]
        <4>1. \A s \in loc.x .. loc.x + 1 - 1 : s = loc.x
          BY <2>0
        <4>2. QED
          BY <4>1
      <3>4. QED
        BY <2>0, <2>3, <3>1, <3>2, <3>3, SetLensAsMeant
    <2>5. CASE ReadRun
      <3>1. PICK n \in Runs :
              /\ loc.x + n <= loc.last
              /\ \A s \in loc.x .. loc.x + n - 1 : enc.meant[s] = enc.meant[loc.x]
              /\ SetLens(n, enc.meant[loc.x])
        BY <2>3, <2>5 DEF ReadRun
      <3>2. n \in Nat \ {0}
        BY LensAssumption
      <3>3. QED
        BY <2>0, <2>3, <3>1, <3>2, SetLensAsMeant
    <2>6. QED
      BY <1>3, <2>4, <2>5
  <1>4. CASE ReadOverrun
    <2>1. ~enc'.synced
      BY <1>0, <1>4 DEF ReadOverrun, Encoders
    <2>2. QED
      BY <2>1 DEF LensInv
  <1>5. CASE CharsDone
    <2>1. /\ lzx' = lzx /\ enc' = enc /\ pc = "lens" /\ pc' = "lens"
          /\ loc.x >= loc.last /\ loc.last = NChars
          /\ loc'.x = NChars /\ loc'.last = NMain /\ loc.x \in Nat
      BY <1>0, <1>5, RangeFacts DEF CharsDone, Locals
    <2>2. enc.synced => loc.x = NChars
      BY <2>1, RangeFacts DEF LensInv
    <2>3. QED
      BY <2>1, <2>2, RangeFacts DEF LensInv
  <1>6. CASE LensDone
    <2>1. /\ lzx'.lens = lzx.lens /\ enc'.lens = enc.meant /\ enc'.meant = enc.meant
          /\ enc'.synced = enc.synced
          /\ pc = "lens" /\ pc' = "run" /\ loc.x >= loc.last /\ loc.last = NMain
          /\ loc.x \in Nat
      BY <1>0, <1>6, RangeFacts DEF LensDone, Decoders, Encoders, Locals
    <2>2. \A s \in 0 .. NMain - 1 : s < loc.x
      BY <2>1, RangeFacts
    <2>3. QED
      BY <2>1, <2>2 DEF LensInv
  <1>7. QED
    BY <1>1, <1>2, <1>3, <1>4, <1>5, <1>6

\* Of the whole of Next, the steps that matter to the lengths.
LEMMA NextLens == TypeInv /\ LensInv /\ [Next]_vars => LensInv'
  <1> SUFFICES ASSUME TypeInv, LensInv, [Next]_vars PROVE LensInv'
    OBVIOUS
  <1>1. CASE Call
    BY <1>1, CallKeeps, SameCodeLens
  <1>2. CASE StartRun \/ Literal \/ NewMatch \/ RepeatedMatch \/ Overrun \/ CopyRun
    BY <1>2, RunKeeps, SameCodeLens
  <1>3. CASE Finish
    BY <1>3, FinishKeeps, SameCodeLens
  <1>4. CASE CodedBlock \/ UncompressedBlock \/ ReadLength \/ ReadRun
               \/ ReadOverrun \/ CharsDone \/ LensDone
    BY <1>4, CodeStepLens
  <1>5. CASE Refuse
    <2>1. ~enc'.synced
      BY <1>5, ReturnKeeps DEF Refuse
    <2>2. QED
      BY <2>1 DEF LensInv
  <1>6. CASE Reset
    <2>1. \A s \in 0 .. NMain - 1 : lzx'.lens[s] = 0 /\ enc'.lens[s] = 0
      <3>1. lzx'.lens = [s \in Lens |-> 0]
        BY <1>6 DEF Reset, ResetState, TypeInv, Decoders
      <3>2. 0 .. NMain - 1 \subseteq Lens
        BY RangeFacts
      <3>3. QED
        BY <1>6, <3>1, <3>2 DEF Reset, AtStart
    <2>2. lzx'.block_type = INVALID /\ pc' = "idle"
      BY <1>6 DEF Reset, ResetState, TypeInv, Decoders
    <2>3. QED
      BY <2>1, <2>2 DEF LensInv, CODED, INVALID
  <1>7. CASE UNCHANGED vars
    BY <1>7 DEF vars, LensInv
  <1>8. QED
    BY <1>1, <1>2, <1>3, <1>4, <1>5, <1>6, <1>7 DEF Next, Step

LEMMA InitLens == Init => LensInv
  <1> SUFFICES ASSUME Init PROVE LensInv
    OBVIOUS
  <1>1. \A s \in 0 .. NMain - 1 : lzx.lens[s] = 0 /\ enc.lens[s] = 0
    BY RangeFacts DEF Init, AtStart
  <1>2. QED
    BY <1>1 DEF Init, LensInv, CODED, INVALID

\* Code lengths come out as meant, whatever was coded before.
THEOREM LensAsMeantHolds == Spec => []LensAsMeant
  <1>1. Init => TypeInv /\ LensInv
    BY InitTypeInv, InitLens
  <1>2. TypeInv /\ LensInv /\ [Next]_vars => (TypeInv /\ LensInv)'
    BY NextTypeInv, NextLens
  <1>3. LensInv => LensAsMeant
    BY DEF LensInv, LensAsMeant
  <1>4. QED
    BY <1>1, <1>2, <1>3, PTL DEF Spec


-----------------------------------------------------------------------------
(* Frames in the window *)

AtFrame(p) == \E m \in Nat : p = m * F

LEMMA AtFrameFacts ==
    /\ AtFrame(0) /\ AtFrame(F)
    /\ \A p \in 0 .. W : AtFrame(p) => AtFrame(p + F)
    /\ \A p \in 0 .. W - 1 : AtFrame(p) => p + F <= W
  <1>0. F \in Nat \ {0} /\ W \in Nat \ {0}
    BY WindowFacts
  <1>1. AtFrame(0)
    <2>1. 0 \in Nat /\ 0 = 0 * F
      BY <1>0
    <2>2. QED
      BY <2>1 DEF AtFrame
  <1>2. AtFrame(F)
    <2>1. 1 \in Nat /\ F = 1 * F
      BY <1>0
    <2>2. QED
      BY <2>1 DEF AtFrame
  <1>3. ASSUME NEW p \in 0 .. W, AtFrame(p)
        PROVE  AtFrame(p + F)
    <2>1. PICK m \in Nat : p = m * F
      BY <1>3 DEF AtFrame
    <2>2. m + 1 \in Nat /\ p + F = (m + 1) * F
      BY <1>0, <2>1
    <2>3. QED
      BY <2>2 DEF AtFrame
  <1>4. ASSUME NEW p \in 0 .. W - 1, AtFrame(p)
        PROVE  p + F <= W
    <2>1. PICK m \in Nat : p = m * F
      BY <1>4 DEF AtFrame
    <2>2. PICK n \in Nat : W = n * F
      BY <1>0, WindowAssumption
    <2>3. m + 1 <= n
      <3>1. ASSUME n <= m PROVE FALSE
        <4>1. n * F <= m * F
          BY <1>0, <3>1, TimesMonotone
        <4>2. QED
          BY <1>0, <1>4, <2>1, <2>2, <4>1
      <3>2. QED
        BY <3>1
    <2>4. (m + 1) * F <= n * F
      <3>1. m + 1 \in Nat
        OBVIOUS
      <3>2. QED
        BY <1>0, <2>3, <3>1, TimesMonotone
    <2>5. (m + 1) * F = p + F
      BY <1>0, <2>1
    <2>6. QED
      BY <2>2, <2>4, <2>5
  <1>5. QED
    BY <1>1, <1>2, <1>3, <1>4

\* A call starts where a frame ends, the window's end standing for its start
\* until something is written, and ends where the next one does.
InFrame ==
    \/ loc.window_posn = W /\ loc.togo = F
    \/ LET end == loc.window_posn + loc.this_run + loc.togo
       IN  AtFrame(end) /\ F <= end /\ end <= W

PosnInv ==
    enc.synced =>
        /\ pc = "idle" =>
              /\ AtFrame(lzx.window_posn)
              /\ Len(enc.hist) = F * enc.frames
        /\ pc # "idle" =>
              /\ Len(enc.hist) + loc.togo + loc.this_run = F * enc.frames + F
              /\ InFrame
        /\ pc \in {"run", "lens"} => loc.this_run = 0

LEMMA PosnTypes ==
    ASSUME TypeInv
    PROVE  /\ loc.window_posn \in Nat /\ loc.window_posn <= W
           /\ loc.this_run \in Nat /\ loc.togo \in Nat /\ loc.togo <= F
           /\ lzx.window_posn \in Nat /\ lzx.window_posn <= W
           /\ enc.hist \in Texts /\ Len(enc.hist) \in Nat /\ enc.frames \in Nat
           /\ F * enc.frames \in Nat
           /\ enc.synced \in BOOLEAN
  <1>1. /\ loc.window_posn \in 0 .. W /\ loc.this_run \in 0 .. F /\ loc.togo \in 0 .. F
        /\ lzx.window_posn \in 0 .. W
    BY DEF TypeInv, Locals, Decoders
  <1>2. enc.hist \in Texts /\ enc.frames \in Nat /\ enc.synced \in BOOLEAN
    BY DEF TypeInv, Encoders
  <1>3. Len(enc.hist) \in Nat /\ F * enc.frames \in Nat
    BY <1>2, WindowFacts DEF Texts
  <1>4. QED
    BY <1>1, <1>2, <1>3, WindowFacts

\* In a whole stream no run goes on behind the end of the window.
LEMMA StartRunPlace ==
    ASSUME TypeInv, PosnInv, StartRun, enc.synced
    PROVE  \E run \in 1 .. F, posn \in 0 .. W - 1 :
             /\ posn = IF loc.window_posn = W THEN 0 ELSE loc.window_posn
             /\ loc'.togo = loc.togo - run /\ loc'.this_run = run
             /\ loc'.window_posn = posn /\ loc'.R = loc.R
             /\ run <= loc.togo
             /\ lzx' = [lzx EXCEPT !.block_remaining = @ - run]
             /\ pc' = "tokens" /\ out' = out /\ enc' = enc
             /\ PosnInv'
  <1>0. pc = "run" /\ loc.togo > 0 /\ W \in Nat \ {0} /\ F \in Nat \ {0} /\ F <= W
    BY WindowFacts DEF StartRun
  <1>1. PICK run \in 1 .. F, posn \in 0 .. W - 1 :
             /\ run <= loc.togo /\ posn = Masked(loc.window_posn)
             /\ lzx' = [lzx EXCEPT !.block_remaining = @ - run]
             /\ \/ posn + run > W
                \/ /\ posn + run <= W
                   /\ loc' \in Locals /\ loc'.togo = loc.togo - run
                   /\ loc'.this_run = run /\ loc'.window_posn = posn
                   /\ loc'.R = loc.R
                   /\ pc' = "tokens" /\ out' = out /\ enc' = enc
    BY StartRunFacts
  <1>2. posn = IF loc.window_posn = W THEN 0 ELSE loc.window_posn
    <2>1. CASE loc.window_posn = W
      <3>1. W = W * 1 + 0 /\ 0 \in 0 .. W - 1
        BY <1>0
      <3>2. (W % W) = 0
        BY <1>0, <3>1, DivUnique
      <3>3. QED
        BY <1>1, <2>1, <3>2 DEF Masked
    <2>2. CASE loc.window_posn # W
      <3>1. loc.window_posn \in 0 .. W - 1
        BY <2>2, PosnTypes, WindowFacts
      <3>2. (loc.window_posn % W) = loc.window_posn
        BY <1>0, <3>1, ModSmall
      <3>3. QED
        BY <1>1, <2>2, <3>2 DEF Masked
    <2>3. QED
      BY <2>1, <2>2
  <1> HIDE DEF Masked
  <1>3. loc.this_run = 0 /\ InFrame /\ Len(enc.hist) + loc.togo + 0 = F * enc.frames + F
    BY <1>0 DEF PosnInv
  <1>4. /\ AtFrame(posn + loc.togo) /\ F <= posn + loc.togo /\ posn + loc.togo <= W
    <2>1. CASE loc.window_posn = W /\ loc.togo = F
      BY <1>0, <1>2, <2>1, AtFrameFacts
    <2>2. CASE LET end == loc.window_posn + loc.this_run + loc.togo
               IN  AtFrame(end) /\ F <= end /\ end <= W
      <3>1. loc.window_posn + loc.this_run + loc.togo = loc.window_posn + loc.togo
        BY <1>3, PosnTypes
      <3>2. loc.window_posn # W
        BY <1>0, <2>2, <3>1, PosnTypes
      <3>3. QED
        BY <1>2, <2>2, <3>1, <3>2
    <2>3. QED
      BY <1>3, <2>1, <2>2 DEF InFrame
  <1>5. posn + run <= W
    BY <1>1, <1>4, WindowFacts, PosnTypes
  <1>6. /\ loc'.togo = loc.togo - run
        /\ loc'.this_run = run /\ loc'.window_posn = posn
        /\ loc'.R = loc.R
        /\ pc' = "tokens" /\ out' = out /\ enc' = enc
    BY <1>1, <1>5, WindowFacts
  <1>7. PosnInv'
    <2>1. /\ posn + run + (loc.togo - run) = posn + loc.togo
          /\ Len(enc.hist) + (loc.togo - run) + run = F * enc.frames + F
      BY <1>1, <1>3, PosnTypes
    <2>2. InFrame'
      BY <1>4, <1>6, <2>1 DEF InFrame
    <2>3. QED
      BY <1>6, <2>1, <2>2 DEF PosnInv
  <1>8. QED
    BY <1>1, <1>2, <1>6, <1>7

\* New bytes count, in the text as in the run.
LEMMA WrotePlace ==
    ASSUME TypeInv, PosnInv, pc = "tokens", NEW w \in Window, NEW n \in Nat \ {0},
           NEW R \in Offsets, n <= loc.this_run, Wrote(w, n, R),
           enc.synced, enc'.frames = enc.frames, Len(enc'.hist) = Len(enc.hist) + n
    PROVE  /\ loc'.window_posn = loc.window_posn + n
           /\ PosnInv'
  <1>0. /\ loc.window_posn + loc.this_run <= W /\ loc.this_run >= 1
    BY DEF TypeInv
  <1>1. loc.window_posn + n <= W
    BY <1>0, PosnTypes, WindowFacts
  <1>2. /\ loc'.window_posn = loc.window_posn + n
        /\ loc'.this_run = IF loc.this_run <= n THEN 0 ELSE loc.this_run - n
        /\ loc'.togo = loc.togo
        /\ pc' = IF loc.this_run <= n THEN "run" ELSE "tokens"
    BY <1>1, WroteType
  <1>3. loc'.this_run = loc.this_run - n
    BY <1>2, PosnTypes
  <1>4. LET end == loc.window_posn + loc.this_run + loc.togo
        IN  AtFrame(end) /\ F <= end /\ end <= W
    <2>1. loc.window_posn # W
      BY <1>0, PosnTypes, WindowFacts
    <2>2. QED
      BY <2>1 DEF PosnInv, InFrame
  <1>5. /\ loc'.window_posn + loc'.this_run + loc'.togo =
             loc.window_posn + loc.this_run + loc.togo
        /\ Len(enc'.hist) + loc'.togo + loc'.this_run =
             Len(enc.hist) + loc.togo + loc.this_run
    <2>0. /\ loc.window_posn \in Int /\ loc.this_run \in Int /\ loc.togo \in Int
          /\ Len(enc.hist) \in Int /\ n \in Int
      BY PosnTypes
    <2>1. (loc.window_posn + n) + (loc.this_run - n) + loc.togo =
             loc.window_posn + loc.this_run + loc.togo
      BY <2>0
    <2>2. (Len(enc.hist) + n) + loc.togo + (loc.this_run - n) =
             Len(enc.hist) + loc.togo + loc.this_run
      <3> DEFINE m == Len(enc.hist)
                 run == loc.this_run
                 togo == loc.togo
      <3>1. m \in Int /\ n \in Int /\ run \in Int /\ togo \in Int
        BY <2>0
      <3> HIDE DEF m, run, togo
      <3>2. (m + n) + togo + (run - n) = m + togo + run
        BY <3>1
      <3>3. QED
        BY <3>2 DEF m, run, togo
    <2>3. QED
      BY <1>2, <1>3, <2>1, <2>2
  <1>6. InFrame'
    BY <1>4, <1>5 DEF InFrame
  <1>7. pc' \in {"run", "lens"} => loc'.this_run = 0
    BY <1>2
  <1>8. Len(enc.hist) + loc.togo + loc.this_run = F * enc.frames + F
    BY DEF PosnInv
  <1>9. QED
    BY <1>2, <1>5, <1>6, <1>7, <1>8 DEF PosnInv


LEMMA LiteralPlace ==
    ASSUME TypeInv, Literal
    PROVE  \E c \in Chars, w \in Window :
             /\ w = [lzx.window EXCEPT ![loc.window_posn] = c]
             /\ Coding(c)
             /\ Wrote(w, 1, loc.R) /\ loc.R \in Offsets /\ 1 <= loc.this_run
             /\ enc'.hist = enc.hist \o <<c>> /\ Len(enc'.hist) = Len(enc.hist) + 1
             /\ enc'.frames = enc.frames /\ enc'.R = enc.R /\ enc'.synced = enc.synced
             /\ pc = "tokens"
  <1>1. PICK c \in Chars :
          /\ Coding(c)
          /\ Wrote([lzx.window EXCEPT ![loc.window_posn] = c], 1, loc.R)
          /\ enc' = [enc EXCEPT !.hist = Append(@, c)]
    BY DEF Literal
  <1>2. lzx.window \in Window /\ loc.R \in Offsets /\ enc \in Encoders /\ enc.hist \in Texts
    BY DEF TypeInv, Decoders, Locals, Encoders
  <1>3. [lzx.window EXCEPT ![loc.window_posn] = c] \in Window
    BY <1>2, WindowSet
  <1>4. pc = "tokens" /\ 1 <= loc.this_run
    BY PosnTypes DEF Literal, TypeInv
  <1>5. /\ enc'.hist = Append(enc.hist, c)
        /\ enc'.frames = enc.frames /\ enc'.R = enc.R /\ enc'.synced = enc.synced
    BY <1>1, <1>2 DEF Encoders
  <1>6. /\ Append(enc.hist, c) = enc.hist \o <<c>>
        /\ Len(Append(enc.hist, c)) = Len(enc.hist) + 1
    BY <1>2 DEF Texts
  <1>7. QED
    BY <1>1, <1>2, <1>3, <1>4, <1>5, <1>6

\* Both kinds of matches: the text goes on as the offset says, and the
\* decoder's offsets change as the encoder's do.
Matched(offset, n, R) ==
    /\ Wrote(Copied(offset, n), n, R)
    /\ n <= loc.this_run /\ loc.window_posn + n <= W
    /\ offset <= Len(enc.hist)
    /\ Repeat(enc.hist, offset, n) \in Texts
    /\ Len(Repeat(enc.hist, offset, n)) = n
    /\ enc'.hist = enc.hist \o Repeat(enc.hist, offset, n)
    /\ enc'.R = R
    /\ enc'.frames = enc.frames /\ enc'.synced = enc.synced

LEMMA MatchPlace ==
    ASSUME TypeInv, NewMatch \/ RepeatedMatch, loc.R = enc.R
    PROVE  \E offset \in 1 .. W, n \in Nat \ {0}, R \in Offsets :
             Matched(offset, n, R) /\ pc = "tokens"
  <1>0. /\ pc = "tokens" /\ enc.R \in Offsets /\ enc \in Encoders
        /\ enc.hist \in Texts /\ Len(enc.hist) \in Nat
    BY PosnTypes DEF TypeInv, Encoders, NewMatch, RepeatedMatch
  <1>1. CASE NewMatch
    <2>1. PICK offset \in 1 .. W, n \in Matches :
            /\ CanMatch(offset, n)
            /\ Wrote(Copied(offset, n), n, <<offset, loc.R[1], loc.R[2]>>)
            /\ enc' = [enc EXCEPT !.hist = Meant(offset, n), !.R = <<offset, @[1], @[2]>>]
      BY <1>1 DEF NewMatch
    <2> DEFINE e1 == [enc EXCEPT !.hist = Meant(offset, n)]
               R == <<offset, enc.R[1], enc.R[2]>>
    <2>2. /\ e1.R = enc.R /\ e1.frames = enc.frames /\ e1.synced = enc.synced
          /\ e1.hist = Meant(offset, n) /\ DOMAIN e1 = DOMAIN enc
      BY <1>0 DEF Encoders
    <2>3. enc' = [e1 EXCEPT !.R = R]
      BY <1>0, <2>1, <2>2 DEF Encoders
    <2>4. R \in Offsets /\ Wrote(Copied(offset, n), n, R)
      BY <1>0, <2>1, NewOffsets
    <2> HIDE DEF e1, R
    <2>5. /\ enc'.hist = Meant(offset, n) /\ enc'.R = R
          /\ enc'.frames = enc.frames /\ enc'.synced = enc.synced
      BY <1>0, <2>2, <2>3 DEF Encoders
    <2>6. enc'.hist = enc.hist \o Repeat(enc.hist, offset, n)
      BY <2>5, MeantIs
    <2>7. /\ n \in Nat \ {0} /\ loc.window_posn + n <= W /\ n <= loc.this_run
          /\ offset \in 1 .. Len(enc.hist)
          /\ Repeat(enc.hist, offset, n) \in Texts
          /\ Len(Repeat(enc.hist, offset, n)) = n
      BY <1>0, <2>1, MatchFacts
    <2>8. Matched(offset, n, R)
      BY <1>0, <2>4, <2>5, <2>6, <2>7 DEF Matched
    <2>9. QED
      BY <1>0, <2>4, <2>7, <2>8
  <1>2. CASE RepeatedMatch
    <2>1. PICK i \in 1 .. 3, n \in Matches :
            /\ CanMatch(enc.R[i], n)
            /\ Wrote(Copied(loc.R[i], n), n, Repeated(loc.R, i))
            /\ enc' = [enc EXCEPT !.hist = Meant(enc.R[i], n),
                                  !.R = [@ EXCEPT ![1] = enc.R[i], ![i] = enc.R[1]]]
      BY <1>2 DEF RepeatedMatch
    <2> DEFINE offset == enc.R[i]
               e1 == [enc EXCEPT !.hist = Meant(offset, n)]
               R == Repeated(enc.R, i)
    <2>2. /\ e1.R = enc.R /\ e1.frames = enc.frames /\ e1.synced = enc.synced
          /\ e1.hist = Meant(offset, n) /\ DOMAIN e1 = DOMAIN enc
      BY <1>0 DEF Encoders
    <2>3. R \in Offsets /\ offset \in 1 .. W /\ [enc.R EXCEPT ![1] = enc.R[i], ![i] = enc.R[1]] = R
      BY <1>0, RepeatedIs
    <2>4. enc' = [e1 EXCEPT !.R = R]
      BY <1>0, <2>1, <2>2, <2>3 DEF Encoders
    <2>5. Wrote(Copied(offset, n), n, R) /\ CanMatch(offset, n)
      BY <2>1
    <2> HIDE DEF e1, R, offset
    <2>6. /\ enc'.hist = Meant(offset, n) /\ enc'.R = R
          /\ enc'.frames = enc.frames /\ enc'.synced = enc.synced
      BY <1>0, <2>2, <2>4 DEF Encoders
    <2>7. enc'.hist = enc.hist \o Repeat(enc.hist, offset, n)
      BY <2>6, MeantIs
    <2>8. /\ n \in Nat \ {0} /\ loc.window_posn + n <= W /\ n <= loc.this_run
          /\ offset \in 1 .. Len(enc.hist)
          /\ Repeat(enc.hist, offset, n) \in Texts
          /\ Len(Repeat(enc.hist, offset, n)) = n
      BY <1>0, <2>5, MatchFacts
    <2>9. Matched(offset, n, R)
      BY <1>0, <2>5, <2>6, <2>7, <2>8 DEF Matched
    <2>10. QED
      BY <1>0, <2>3, <2>8, <2>9
  <1>3. QED
    BY <1>1, <1>2


-----------------------------------------------------------------------------
(* The text *)

\* Where the window stands, in a call and between two.
Posn == IF pc = "idle" THEN lzx.window_posn ELSE loc.window_posn

\* The window is the end of the text, and the offsets are the encoder's.
TextInv ==
    enc.synced =>
        /\ WindowIs(lzx.window, Posn, enc.hist)
        /\ (IF pc = "idle" THEN lzx.R ELSE loc.R) = enc.R

LEMMA WindowAround ==
    ASSUME NEW w, NEW h, WindowIs(w, W, h)
    PROVE  WindowIs(w, 0, h)
  <1> SUFFICES ASSUME NEW k \in 1 .. W, k <= Len(h)
               PROVE  w[(0 - k) % W] = h[Len(h) - k + 1]
    BY DEF WindowIs
  <1>1. w[(W - k) % W] = h[Len(h) - k + 1]
    BY DEF WindowIs
  <1>2. W \in Nat \ {0} /\ 0 \in 0 .. W /\ W \in 0 .. W
    BY WindowFacts
  <1>3. ((0 - k) % W) = Wrapped(0 - k) /\ ((W - k) % W) = Wrapped(W - k)
    BY <1>2, Back
  <1>4. Wrapped(0 - k) = Wrapped(W - k)
    BY <1>2 DEF Wrapped
  <1>5. QED
    BY <1>1, <1>3, <1>4

LEMMA StartRunText ==
    ASSUME TypeInv, PosnInv, TextInv, StartRun, enc.synced
    PROVE  TextInv'
  <1>1. PICK run \in 1 .. F, posn \in 0 .. W - 1 :
             /\ posn = IF loc.window_posn = W THEN 0 ELSE loc.window_posn
             /\ loc'.window_posn = posn /\ loc'.R = loc.R
             /\ lzx' = [lzx EXCEPT !.block_remaining = @ - run]
             /\ pc' = "tokens" /\ enc' = enc
    BY StartRunPlace
  <1>2. pc = "run" /\ lzx'.window = lzx.window
    BY <1>1 DEF StartRun, TypeInv, Decoders
  <1>3. WindowIs(lzx.window, loc.window_posn, enc.hist) /\ loc.R = enc.R
    BY <1>2 DEF TextInv, Posn
  <1>4. WindowIs(lzx.window, posn, enc.hist)
    BY <1>1, <1>3, WindowAround
  <1>5. QED
    BY <1>1, <1>2, <1>3, <1>4 DEF TextInv, Posn

LEMMA LiteralText ==
    ASSUME TypeInv, PosnInv, TextInv, Literal, enc.synced
    PROVE  PosnInv' /\ TextInv'
  <1>1. PICK c \in Chars, w \in Window :
             /\ w = [lzx.window EXCEPT ![loc.window_posn] = c]
             /\ Wrote(w, 1, loc.R) /\ loc.R \in Offsets /\ 1 <= loc.this_run
             /\ enc'.hist = enc.hist \o <<c>> /\ Len(enc'.hist) = Len(enc.hist) + 1
             /\ enc'.frames = enc.frames /\ enc'.R = enc.R /\ enc'.synced = enc.synced
             /\ pc = "tokens"
    BY LiteralPlace
  <1>2. 1 \in Nat \ {0}
    OBVIOUS
  <1>3. PosnInv' /\ loc'.window_posn = loc.window_posn + 1
    BY <1>1, <1>2, WrotePlace
  <1>4. WindowIs(lzx.window, loc.window_posn, enc.hist) /\ loc.R = enc.R
    BY <1>1 DEF TextInv, Posn
  <1>5. WindowIs(w, loc.window_posn + 1, enc.hist \o <<c>>)
    <2> DEFINE s == <<c>>
               posn == loc.window_posn
    <2>1. s \in Texts /\ Len(s) = 1 /\ s[1] = c
      BY DEF Texts
    <2>2. /\ posn \in 0 .. W /\ posn + 1 <= W /\ posn \in Nat
          /\ enc.hist \in Texts /\ lzx.window \in Window
      BY <1>1, WindowFacts, PosnTypes DEF TypeInv, Locals, Decoders
    <2> HIDE DEF s, posn
    <2>3. \A p \in 0 .. W - 1 :
            w[p] = IF p \in posn .. posn + Len(s) - 1 THEN s[p - posn + 1] ELSE lzx.window[p]
      <3> SUFFICES ASSUME NEW p \in 0 .. W - 1
                   PROVE w[p] = IF p \in posn .. posn + 1 - 1 THEN s[p - posn + 1]
                                ELSE lzx.window[p]
        BY <2>1
      <3>1. w = [lzx.window EXCEPT ![posn] = c]
        BY <1>1 DEF posn
      <3>2. CASE p = posn
        <4>1. p - posn + 1 = 1 /\ p \in posn .. posn + 1 - 1
          BY <2>2, <3>2
        <4>2. w[p] = c
          BY <2>2, <3>1, <3>2 DEF Window
        <4>3. QED
          BY <2>1, <4>1, <4>2
      <3>3. CASE p # posn
        <4>1. ~(p \in posn .. posn + 1 - 1)
          BY <2>2, <3>3
        <4>2. w[p] = lzx.window[p]
          BY <2>2, <3>1, <3>3 DEF Window
        <4>3. QED
          BY <4>1, <4>2
      <3>4. QED
        BY <3>2, <3>3
    <2>4. WindowIs(lzx.window, posn, enc.hist)
      BY <1>4 DEF posn
    <2>5. WindowIs(w, posn + Len(s), enc.hist \o s)
      BY <2>1, <2>2, <2>3, <2>4, WindowGrows
    <2>6. QED
      BY <2>1, <2>5 DEF s, posn
  <1>6. lzx'.window = w /\ loc'.R = loc.R /\ pc' # "idle"
    BY <1>1, WroteKeeps DEF TypeInv, Wrote, Locals
  <1>7. QED
    BY <1>1, <1>3, <1>4, <1>5, <1>6 DEF TextInv, Posn

LEMMA MatchText ==
    ASSUME TypeInv, PosnInv, TextInv, NewMatch \/ RepeatedMatch, enc.synced
    PROVE  PosnInv' /\ TextInv'
  <1>0. pc = "tokens"
    BY DEF NewMatch, RepeatedMatch
  <1>1. WindowIs(lzx.window, loc.window_posn, enc.hist) /\ loc.R = enc.R
    BY <1>0 DEF TextInv, Posn
  <1>2. PICK offset \in 1 .. W, n \in Nat \ {0}, R \in Offsets : Matched(offset, n, R)
    BY <1>1, MatchPlace
  <1> DEFINE s == Repeat(enc.hist, offset, n)
  <1>3. /\ Wrote(Copied(offset, n), n, R)
        /\ n <= loc.this_run /\ loc.window_posn + n <= W
        /\ offset <= Len(enc.hist)
        /\ s \in Texts /\ Len(s) = n
        /\ enc'.hist = enc.hist \o s /\ enc'.R = R
        /\ enc'.frames = enc.frames /\ enc'.synced = enc.synced
    BY <1>2 DEF Matched
  <1>4. lzx.window \in Window /\ loc.window_posn \in 0 .. W /\ enc.hist \in Texts
    BY DEF TypeInv, Decoders, Locals, Encoders
  <1>5. Copied(offset, n) \in Window
    BY <1>3, CopiedType
  <1>6. WindowIs(Copied(offset, n), loc.window_posn + n, enc.hist \o s)
    BY <1>1, <1>3, <1>4, MatchWrites
  <1> HIDE DEF s
  <1>7. Len(enc'.hist) = Len(enc.hist) + n
    BY <1>3, <1>4, LenConcat
  <1>8. PosnInv' /\ loc'.window_posn = loc.window_posn + n
    BY <1>0, <1>3, <1>5, <1>7, WrotePlace
  <1>9. lzx'.window = Copied(offset, n) /\ loc'.R = R /\ pc' # "idle"
    BY <1>3, WroteKeeps DEF TypeInv, Wrote, Locals
  <1>10. QED
    BY <1>3, <1>6, <1>8, <1>9 DEF TextInv, Posn

LEMMA CopyRunText ==
    ASSUME TypeInv, PosnInv, TextInv, CopyRun, enc.synced
    PROVE  PosnInv' /\ TextInv'
  <1>1. PICK s \in [1 .. loc.this_run -> Chars] :
             /\ Wrote(Pasted(s), loc.this_run, loc.R)
             /\ enc' = [enc EXCEPT !.hist = @ \o s]
             /\ Pasted(s) \in Window /\ s \in Texts /\ Len(s) = loc.this_run
             /\ loc.this_run \in Nat \ {0} /\ loc.window_posn + loc.this_run <= W
             /\ pc = "tokens" /\ loc.R \in Offsets
    BY CopyRunFacts
  <1>2. WindowIs(lzx.window, loc.window_posn, enc.hist) /\ loc.R = enc.R
    BY <1>1 DEF TextInv, Posn
  <1>3. /\ lzx.window \in Window /\ loc.window_posn \in 0 .. W /\ enc.hist \in Texts
        /\ enc \in Encoders
    BY DEF TypeInv, Decoders, Locals, Encoders
  <1>4. /\ enc'.hist = enc.hist \o s /\ enc'.R = enc.R
        /\ enc'.frames = enc.frames /\ enc'.synced = enc.synced
    BY <1>1, <1>3 DEF Encoders
  <1>5. Len(enc'.hist) = Len(enc.hist) + loc.this_run
    BY <1>1, <1>3, <1>4 DEF Texts
  <1>6. PosnInv' /\ loc'.window_posn = loc.window_posn + loc.this_run
    BY <1>1, <1>4, <1>5, PosnTypes, WrotePlace
  <1>7. WindowIs(Pasted(s), loc.window_posn + loc.this_run, enc.hist \o s)
    <2>1. \A p \in 0 .. W - 1 :
            Pasted(s)[p] = IF p \in loc.window_posn .. loc.window_posn + Len(s) - 1
                           THEN s[p - loc.window_posn + 1] ELSE lzx.window[p]
      BY <1>1 DEF Pasted
    <2>2. WindowIs(Pasted(s), loc.window_posn + Len(s), enc.hist \o s)
      BY <1>1, <1>2, <1>3, <2>1, WindowGrows
    <2>3. QED
      BY <1>1, <2>2
  <1>8. lzx'.window = Pasted(s) /\ loc'.R = loc.R /\ pc' # "idle"
    BY <1>1, WroteKeeps DEF TypeInv, Wrote, Locals
  <1>9. QED
    BY <1>2, <1>4, <1>6, <1>7, <1>8 DEF TextInv, Posn


LEMMA CallText ==
    ASSUME TypeInv, PosnInv, TextInv, Call
    PROVE  PosnInv' /\ TextInv'
  <1> SUFFICES ASSUME enc.synced PROVE PosnInv' /\ TextInv'
    BY CallKeeps DEF PosnInv, TextInv
  <1>1. /\ SameText /\ enc' = enc /\ pc = "idle" /\ pc' = "run"
        /\ loc'.togo = F /\ loc'.this_run = 0 /\ loc'.window_posn = lzx.window_posn
        /\ loc'.R = lzx.R
    BY CallKeeps
  <1>2. AtFrame(lzx.window_posn) /\ Len(enc.hist) = F * enc.frames
    BY <1>1 DEF PosnInv
  <1>3. InFrame'
    <2>1. CASE lzx.window_posn = W
      BY <1>1, <2>1 DEF InFrame
    <2>2. CASE lzx.window_posn # W
      <3>1. lzx.window_posn \in 0 .. W - 1 /\ lzx.window_posn \in 0 .. W
        BY <2>2, PosnTypes, WindowFacts
      <3>2. AtFrame(lzx.window_posn + F) /\ lzx.window_posn + F <= W
        BY <1>2, <3>1, AtFrameFacts
      <3>3. lzx.window_posn + 0 + F = lzx.window_posn + F /\ F <= lzx.window_posn + F
        BY <3>1, WindowFacts
      <3>4. QED
        BY <1>1, <3>2, <3>3 DEF InFrame
    <2>3. QED
      BY <2>1, <2>2
  <1>4. Len(enc.hist) + F + 0 = F * enc.frames + F
    BY <1>2, PosnTypes, WindowFacts
  <1>5. PosnInv'
    BY <1>1, <1>3, <1>4 DEF PosnInv
  <1>6. TextInv'
    BY <1>1 DEF TextInv, Posn, SameText
  <1>7. QED
    BY <1>5, <1>6

LEMMA CodeStepText ==
    ASSUME TypeInv, PosnInv, TextInv,
           CodedBlock \/ UncompressedBlock \/ ReadLength \/ ReadRun
             \/ ReadOverrun \/ CharsDone \/ LensDone
    PROVE  PosnInv' /\ TextInv'
  <1>1. /\ SameText /\ SamePlace
        /\ pc \in {"run", "lens"} /\ pc' \in {"run", "lens"}
        /\ (enc'.synced => enc.synced)
        /\ loc'.R = loc.R \/ loc'.R = enc.R
    BY CodeKeeps
  <1>2. PosnInv'
    BY <1>1 DEF PosnInv, InFrame, SameText, SamePlace
  <1>3. TextInv'
    BY <1>1 DEF TextInv, Posn, SameText, SamePlace
  <1>4. QED
    BY <1>2, <1>3

LEMMA FinishText ==
    ASSUME TypeInv, PosnInv, TextInv, Finish
    PROVE  PosnInv' /\ TextInv'
  <1> SUFFICES ASSUME enc.synced PROVE PosnInv' /\ TextInv'
    BY FinishKeeps DEF PosnInv, TextInv
  <1>1. /\ pc = "run" /\ pc' = "idle" /\ loc.togo = 0
        /\ lzx'.window = lzx.window /\ lzx'.window_posn = loc.window_posn
        /\ lzx'.R = loc.R
        /\ enc'.hist = enc.hist /\ enc'.R = enc.R /\ enc'.synced = enc.synced
        /\ enc'.frames = enc.frames + 1
    BY FinishKeeps
  <1>2. loc.this_run = 0 /\ InFrame /\ Len(enc.hist) + 0 + 0 = F * enc.frames + F
    BY <1>1 DEF PosnInv
  <1>3. AtFrame(loc.window_posn)
    <2>1. loc.togo # F
      BY <1>1, WindowFacts
    <2>2. loc.window_posn + 0 + 0 = loc.window_posn
      BY PosnTypes
    <2>3. QED
      BY <1>1, <1>2, <2>1, <2>2 DEF InFrame
  <1>4. Len(enc.hist) = F * (enc.frames + 1)
    BY <1>2, PosnTypes, WindowFacts
  <1>5. PosnInv'
    BY <1>1, <1>3, <1>4 DEF PosnInv
  <1>6. TextInv'
    BY <1>1 DEF TextInv, Posn
  <1>7. QED
    BY <1>5, <1>6

\* As lzx_init and lzx_reset leave it.
Started == lzx.window_posn = 0 /\ lzx.R = <<1, 1, 1>> /\ pc = "idle" /\ enc = AtStart

LEMMA StartText == Started => PosnInv /\ TextInv
  <1> SUFFICES ASSUME Started PROVE PosnInv /\ TextInv
    OBVIOUS
  <1>1. Len(enc.hist) = 0 /\ enc.frames = 0 /\ enc.R = <<1, 1, 1>>
    BY DEF AtStart, Started
  <1>2. F * 0 = 0
    BY WindowFacts
  <1>3. PosnInv
    BY <1>1, <1>2, AtFrameFacts DEF PosnInv, Started
  <1>4. WindowIs(lzx.window, 0, enc.hist)
    BY <1>1, WindowFacts DEF WindowIs
  <1>5. TextInv
    BY <1>1, <1>4 DEF TextInv, Posn, Started
  <1>6. QED
    BY <1>3, <1>5

LEMMA NextText == TypeInv /\ PosnInv /\ TextInv /\ [Next]_vars => PosnInv' /\ TextInv'
  <1> SUFFICES ASSUME TypeInv, PosnInv, TextInv, [Next]_vars
               PROVE  PosnInv' /\ TextInv'
    OBVIOUS
  <1>1. CASE Call
    BY <1>1, CallText
  <1>2. CASE CodedBlock \/ UncompressedBlock \/ ReadLength \/ ReadRun
               \/ ReadOverrun \/ CharsDone \/ LensDone
    BY <1>2, CodeStepText
  <1>3. CASE StartRun \/ Literal \/ NewMatch \/ RepeatedMatch \/ CopyRun
    <2>1. CASE ~enc.synced
      <3>1. ~enc'.synced
        BY <1>3, <2>1, RunKeeps
      <3>2. QED
        BY <3>1 DEF PosnInv, TextInv
    <2>2. CASE enc.synced
      <3>1. CASE StartRun
        BY <2>2, <3>1, StartRunPlace, StartRunText
      <3>2. QED
        BY <1>3, <2>2, <3>1, LiteralText, MatchText, CopyRunText
    <2>3. QED
      BY <2>1, <2>2
  <1>4. CASE Overrun \/ Refuse
    <2>1. ~enc'.synced
      BY <1>4, ReturnKeeps DEF Overrun, Refuse, TypeInv, Encoders
    <2>2. QED
      BY <2>1 DEF PosnInv, TextInv
  <1>5. CASE Finish
    BY <1>5, FinishText
  <1>6. CASE Reset
    <2>1. Started'
      BY <1>6 DEF Reset, ResetState, TypeInv, Decoders, Started
    <2>2. QED
      BY <2>1, StartText, PTL
  <1>7. CASE UNCHANGED vars
    BY <1>7 DEF vars, PosnInv, InFrame, TextInv, Posn
  <1>8. QED
    BY <1>1, <1>2, <1>3, <1>4, <1>5, <1>6, <1>7 DEF Next, Step

LEMMA InitText == Init => PosnInv /\ TextInv
  BY StartText DEF Init, Started

\* The window is the end of all bytes since the reset, wherever the decoder
\* stands in it and however often it has come around.
THEOREM WindowHoldsHistoryHolds == Spec => []WindowHoldsHistory
  <1>1. Init => TypeInv /\ PosnInv /\ TextInv
    BY InitTypeInv, InitText
  <1>2. TypeInv /\ PosnInv /\ TextInv /\ [Next]_vars => (TypeInv /\ PosnInv /\ TextInv)'
    BY NextTypeInv, NextText
  <1>3. TypeInv /\ TextInv => WindowHoldsHistory
    <2> SUFFICES ASSUME TypeInv, TextInv, enc.synced,
                        NEW k \in 1 .. Min({W, Len(enc.hist)})
                 PROVE  lzx.window[(Posn - k) % W] = enc.hist[Len(enc.hist) - k + 1]
      BY DEF WindowHoldsHistory, Posn
    <2>1. W \in Int /\ Len(enc.hist) \in Int
      BY WindowFacts, PosnTypes
    <2> DEFINE m == Min({W, Len(enc.hist)})
    <2>2. m \in {W, Len(enc.hist)} /\ m <= W /\ m <= Len(enc.hist) /\ k \in 1 .. m
      BY <2>1, MinOfTwo
    <2> HIDE DEF m
    <2>3. k \in 1 .. W /\ k <= Len(enc.hist)
      BY <2>1, <2>2
    <2>4. WindowIs(lzx.window, Posn, enc.hist)
      BY DEF TextInv
    <2>5. QED
      BY <2>3, <2>4 DEF WindowIs
  <1>4. QED
    BY <1>1, <1>2, <1>3, PTL DEF Spec


-----------------------------------------------------------------------------
(* The translation of calls *)

Has(h, v) == \E k \in 1 .. Len(h) : h[k] = v

\* There is no call among the bytes of a stream that calls are not looked for in.
CallsInv ==
    enc.synced =>
        /\ Has(enc.hist, E8) => lzx.intel_started
        /\ lzx.block_type = UNCOMPRESSED => lzx.intel_started
        /\ pc # "lens" /\ lzx.block_type = CODED /\ lzx.lens[E8] # 0 => lzx.intel_started

\* The position is that of the next frame, once the header has been read.
CurposInv ==
    enc.synced =>
        /\ ~lzx.header_read => enc.frames = 0 /\ lzx.intel_curpos = 0
        /\ lzx.header_read /\ lzx.intel_filesize # 0 => lzx.intel_curpos = F * enc.frames
        /\ pc # "idle" => lzx.header_read

\* A text that goes on with characters that were there, or that the code has.
LEMMA ConcatHas ==
    ASSUME NEW h \in Texts, NEW s \in Texts, NEW v,
           Has(h \o s, v)
    PROVE  Has(h, v) \/ Has(s, v)
  <1>1. PICK k \in 1 .. Len(h \o s) : (h \o s)[k] = v
    BY DEF Has
  <1>2. Len(h \o s) = Len(h) + Len(s) /\ Len(h) \in Nat /\ Len(s) \in Nat
    BY LenConcat DEF Texts
  <1>3. CASE k <= Len(h)
    <2>1. k \in 1 .. Len(h) /\ (h \o s)[k] = h[k]
      BY <1>2, <1>3 DEF Texts
    <2>2. QED
      BY <1>1, <2>1 DEF Has
  <1>4. CASE k > Len(h)
    <2>1. k - Len(h) \in 1 .. Len(s) /\ (h \o s)[k] = s[k - Len(h)]
      BY <1>2, <1>4 DEF Texts
    <2>2. QED
      BY <1>1, <2>1 DEF Has
  <1>5. QED
    BY <1>2, <1>3, <1>4

LEMMA RepeatHas ==
    ASSUME NEW h \in Texts, NEW offset \in 1 .. Len(h), NEW n \in Nat, NEW v,
           Has(Repeat(h, offset, n), v)
    PROVE  Has(h, v)
  <1>1. PICK k \in 1 .. n : Repeat(h, offset, n)[k] = v
    BY RepeatType DEF Has
  <1> DEFINE j == k - 1
             r == j % offset
  <1>2. Repeat(h, offset, n)[k] = h[Len(h) - offset + 1 + r]
    BY DEF Repeat
  <1>3. j \in Int /\ offset \in Nat \ {0} /\ Len(h) \in Nat /\ offset <= Len(h)
    BY DEF Texts
  <1> HIDE DEF j
  <1>4. r \in 0 .. offset - 1
    BY <1>3, ModRange
  <1> HIDE DEF r
  <1>5. Len(h) - offset + 1 + r \in 1 .. Len(h)
    BY <1>3, <1>4
  <1>6. QED
    BY <1>1, <1>2, <1>5 DEF Has

LEMMA RunCalls ==
    ASSUME TypeInv, PosnInv, TextInv, CallsInv,
           StartRun \/ Literal \/ NewMatch \/ RepeatedMatch \/ CopyRun
    PROVE  CallsInv'
  <1>0. SameCode /\ pc \in {"run", "tokens"} /\ pc' # "lens" /\ (enc'.synced => enc.synced)
    BY RunKeeps
  <1> SUFFICES ASSUME enc.synced PROVE CallsInv'
    BY <1>0 DEF CallsInv
  <1>1. /\ lzx.block_type = UNCOMPRESSED => lzx.intel_started
        /\ lzx.block_type = CODED /\ lzx.lens[E8] # 0 => lzx.intel_started
        /\ Has(enc.hist, E8) => lzx.intel_started
    BY <1>0 DEF CallsInv
  <1> SUFFICES ASSUME Has(enc'.hist, E8)
               PROVE  lzx.intel_started
    BY <1>0, <1>1 DEF CallsInv, SameCode
  <1>2. enc.hist \in Texts
    BY PosnTypes
  <1>3. CASE StartRun
    BY <1>1, <1>3, StartRunPlace
  <1>4. CASE Literal
    <2>1. PICK c \in Chars : Coding(c) /\ enc'.hist = enc.hist \o <<c>>
      BY <1>4, LiteralPlace
    <2>2. <<c>> \in Texts /\ Len(<<c>>) = 1 /\ <<c>>[1] = c
      BY DEF Texts
    <2>3. Has(enc.hist, E8) \/ c = E8
      <3> DEFINE s == <<c>>
      <3>1. s \in Texts /\ (Has(s, E8) => c = E8)
        BY <2>2 DEF Has
      <3>2. Has(enc.hist \o s, E8)
        BY <2>1
      <3> HIDE DEF s
      <3>3. QED
        BY <1>2, <3>1, <3>2, ConcatHas
    <2>4. QED
      BY <1>1, <2>1, <2>3 DEF Coding
  <1>5. CASE NewMatch \/ RepeatedMatch
    <2>1. loc.R = enc.R
      BY <1>0 DEF TextInv
    <2>2. PICK offset \in 1 .. W, n \in Nat \ {0} :
            /\ offset <= Len(enc.hist)
            /\ Repeat(enc.hist, offset, n) \in Texts
            /\ Len(Repeat(enc.hist, offset, n)) = n
            /\ enc'.hist = enc.hist \o Repeat(enc.hist, offset, n)
      BY <1>5, <2>1, MatchPlace DEF Matched
    <2>3. offset \in 1 .. Len(enc.hist)
      BY <2>2, PosnTypes
    <2>4. Has(enc.hist, E8) \/ Has(Repeat(enc.hist, offset, n), E8)
      BY <1>2, <2>2, ConcatHas
    <2>5. Has(enc.hist, E8)
      BY <1>2, <2>3, <2>4, RepeatHas
    <2>6. QED
      BY <1>1, <2>5
  <1>6. CASE CopyRun
    BY <1>1, <1>6 DEF CopyRun
  <1>7. QED
    BY <1>3, <1>4, <1>5, <1>6

LEMMA CodeStepCalls ==
    ASSUME TypeInv, CallsInv,
           CodedBlock \/ UncompressedBlock \/ ReadLength \/ ReadRun
             \/ ReadOverrun \/ CharsDone \/ LensDone
    PROVE  CallsInv'
  <1>0. /\ lzx \in Decoders /\ enc'.hist = enc.hist /\ (enc'.synced => enc.synced)
        /\ lzx.intel_started \in BOOLEAN
    BY CodeKeeps DEF SameText, TypeInv, Decoders
  <1>1. CASE CodedBlock
    <2>1. lzx'.intel_started = lzx.intel_started /\ lzx'.block_type = CODED /\ pc' = "lens"
      BY <1>0, <1>1 DEF CodedBlock, Decoders
    <2>2. QED
      BY <1>0, <2>1 DEF CallsInv, CODED, UNCOMPRESSED
  <1>2. CASE UncompressedBlock
    <2>1. lzx'.intel_started
      BY <1>0, <1>2 DEF UncompressedBlock, Decoders
    <2>2. QED
      BY <2>1 DEF CallsInv
  <1>3. CASE ReadLength \/ ReadRun \/ ReadOverrun \/ CharsDone
    <2>1. /\ lzx'.intel_started = lzx.intel_started /\ lzx'.block_type = lzx.block_type
          /\ pc' = "lens"
      BY <1>0, <1>3 DEF ReadLength, ReadRun, ReadOverrun, CharsDone, SetLens, Decoders
    <2>2. QED
      BY <1>0, <2>1 DEF CallsInv
  <1>4. CASE LensDone
    <2>1. /\ lzx'.intel_started = (lzx.intel_started \/ lzx.lens[E8] # 0)
          /\ lzx'.block_type = lzx.block_type /\ lzx'.lens = lzx.lens
      BY <1>0, <1>4 DEF LensDone, Decoders
    <2>2. QED
      BY <1>0, <2>1 DEF CallsInv
  <1>5. QED
    BY <1>1, <1>2, <1>3, <1>4

LEMMA NextCalls == TypeInv /\ PosnInv /\ TextInv /\ CallsInv /\ [Next]_vars => CallsInv'
  <1> SUFFICES ASSUME TypeInv, PosnInv, TextInv, CallsInv, [Next]_vars
               PROVE  CallsInv'
    OBVIOUS
  <1>1. CASE Call
    BY <1>1, CallKeeps DEF CallsInv, SameCode
  <1>2. CASE CodedBlock \/ UncompressedBlock \/ ReadLength \/ ReadRun
               \/ ReadOverrun \/ CharsDone \/ LensDone
    BY <1>2, CodeStepCalls
  <1>3. CASE StartRun \/ Literal \/ NewMatch \/ RepeatedMatch \/ CopyRun
    BY <1>3, RunCalls
  <1>4. CASE Overrun \/ Refuse
    <2>1. ~enc'.synced
      BY <1>4, ReturnKeeps DEF Overrun, Refuse, TypeInv, Encoders
    <2>2. QED
      BY <2>1 DEF CallsInv
  <1>5. CASE Finish
    <2>1. SameCode /\ pc = "run" /\ enc'.synced = enc.synced /\ enc'.hist = enc.hist
      BY <1>5, FinishKeeps
    <2>2. QED
      BY <2>1 DEF CallsInv, SameCode
  <1>6. CASE Reset
    <2>1. lzx'.block_type = INVALID /\ enc'.hist = <<>>
      BY <1>6 DEF Reset, ResetState, AtStart, TypeInv, Decoders
    <2>2. 1 .. Len(<<>>) = {}
      OBVIOUS
    <2>3. QED
      BY <2>1, <2>2 DEF CallsInv, Has, CODED, UNCOMPRESSED, INVALID
  <1>7. CASE UNCHANGED vars
    BY <1>7 DEF vars, CallsInv
  <1>8. QED
    BY <1>1, <1>2, <1>3, <1>4, <1>5, <1>6, <1>7 DEF Next, Step

LEMMA InitCalls == Init => CallsInv
  <1>1. 1 .. Len(<<>>) = {}
    OBVIOUS
  <1>2. QED
    BY <1>1 DEF Init, AtStart, CallsInv, Has, CODED, UNCOMPRESSED, INVALID

LEMMA NextCurpos == TypeInv /\ PosnInv /\ TextInv /\ CurposInv /\ [Next]_vars => CurposInv'
  <1> SUFFICES ASSUME TypeInv, PosnInv, TextInv, CurposInv, [Next]_vars
               PROVE  CurposInv'
    OBVIOUS
  <1>0. enc \in Encoders /\ F * 0 = 0
    BY WindowFacts DEF TypeInv
  <1>1. CASE Call
    BY <1>0, <1>1, CallKeeps DEF CurposInv
  <1>2. CASE CodedBlock \/ UncompressedBlock \/ ReadLength \/ ReadRun
               \/ ReadOverrun \/ CharsDone \/ LensDone
    <2>1. SameText /\ SameHeader /\ pc \in {"run", "lens"} /\ (enc'.synced => enc.synced)
      BY <1>2, CodeKeeps
    <2>2. QED
      BY <2>1 DEF CurposInv, SameText, SameHeader
  <1>3. CASE StartRun \/ Literal \/ NewMatch \/ RepeatedMatch \/ CopyRun
    <2>1. SameHeader /\ pc \in {"run", "tokens"} /\ (enc'.synced => enc.synced)
      BY <1>3, RunKeeps
    <2>2. enc.synced => enc'.frames = enc.frames
      <3>1. CASE StartRun
        BY <3>1, StartRunPlace
      <3>2. CASE Literal
        BY <1>0, <3>2 DEF Literal, Encoders
      <3>3. CASE NewMatch
        BY <1>0, <3>3 DEF NewMatch, Encoders
      <3>4. CASE RepeatedMatch
        BY <1>0, <3>4 DEF RepeatedMatch, Encoders
      <3>5. CASE CopyRun
        BY <1>0, <3>5 DEF CopyRun, Encoders
      <3>6. QED
        BY <1>3, <3>1, <3>2, <3>3, <3>4, <3>5
    <2>3. QED
      BY <2>1, <2>2 DEF CurposInv, SameHeader
  <1>4. CASE Overrun \/ Refuse
    <2>1. ~enc'.synced
      BY <1>4, ReturnKeeps DEF Overrun, Refuse, TypeInv, Encoders
    <2>2. QED
      BY <2>1 DEF CurposInv
  <1>5. CASE Finish
    <2>1. /\ pc = "run" /\ pc' = "idle" /\ lzx'.header_read = lzx.header_read
          /\ lzx'.intel_filesize = lzx.intel_filesize
          /\ lzx'.intel_curpos = IF Translates THEN Curpos ELSE lzx.intel_curpos
          /\ enc'.synced = enc.synced /\ enc'.frames = enc.frames + 1
      BY <1>5, FinishKeeps
    <2>2. enc.synced => lzx.header_read
      BY <2>1 DEF CurposInv
    <2>3. F * (enc.frames + 1) = F * enc.frames + F
      BY WindowFacts, PosnTypes
    <2>4. enc.synced /\ lzx.intel_filesize # 0 => lzx'.intel_curpos = F * (enc.frames + 1)
      BY <2>1, <2>2, <2>3 DEF CurposInv, Translates, Curpos
    <2>5. QED
      BY <2>1, <2>2, <2>4 DEF CurposInv
  <1>6. CASE Reset
    <2>1. /\ pc' = "idle" /\ ~lzx'.header_read /\ lzx'.intel_curpos = 0 /\ enc'.frames = 0
      BY <1>6 DEF Reset, ResetState, AtStart, TypeInv, Decoders
    <2>2. QED
      BY <2>1 DEF CurposInv
  <1>7. CASE UNCHANGED vars
    BY <1>7 DEF vars, CurposInv
  <1>8. QED
    BY <1>1, <1>2, <1>3, <1>4, <1>5, <1>6, <1>7 DEF Next, Step

LEMMA InitCurpos == Init => CurposInv
  BY DEF Init, AtStart, CurposInv


-----------------------------------------------------------------------------
(* What a call returns *)

\* The last F bytes of a text.
LastOf(h) == SubSeq(h, Len(h) - F + 1, Len(h))

LEMMA LastFacts ==
    ASSUME NEW h \in Texts, Len(h) >= F
    PROVE  /\ LastOf(h) = [k \in 1 .. F |-> h[Len(h) - F + k]]
           /\ \A k \in 1 .. F : LastOf(h)[k] = h[Len(h) - F + k]
  <1> DEFINE m == Len(h) - F + 1
             n == Len(h)
  <1>0. n \in Nat /\ F \in Nat \ {0} /\ m \in 1 .. n /\ n - m + 1 = F
    BY WindowFacts DEF Texts
  <1>1. SubSeq(h, m, n) = [k \in 1 .. (1 + n - m) |-> h[k + m - 1]]
    <2>1. /\ SubSeq(h, m, n) \in Seq(Chars) /\ Len(SubSeq(h, m, n)) = 1 + n - m
          /\ \A k \in 1 .. (1 + n - m) : SubSeq(h, m, n)[k] = h[k + m - 1]
      BY <1>0 DEF Texts
    <2>2. QED
      BY <2>1
  <1>2. 1 + n - m = F /\ \A k \in 1 .. F : k + m - 1 = n - F + k
    BY <1>0
  <1>3. LastOf(h) = [k \in 1 .. F |-> h[n - F + k]]
    BY <1>1, <1>2 DEF LastOf
  <1>4. QED
    BY <1>3

LEMMA OutputIs ==
    ASSUME TypeInv, PosnInv, TextInv, Finish, enc.synced
    PROVE  /\ Output = LastOf(enc.hist)
           /\ Len(enc.hist) = F * enc.frames + F
           /\ enc.hist \in Texts /\ Len(enc.hist) >= F
  <1>1. pc = "run" /\ loc.togo = 0
    BY DEF Finish
  <1>2. loc.this_run = 0 /\ InFrame /\ Len(enc.hist) + 0 + 0 = F * enc.frames + F
    BY <1>1 DEF PosnInv
  <1>3. Len(enc.hist) = F * enc.frames + F /\ Len(enc.hist) >= F
    BY <1>2, PosnTypes, WindowFacts
  <1> DEFINE posn == loc.window_posn
             h == enc.hist
  <1>4. F <= posn /\ posn \in 0 .. W /\ posn # 0
    <2>1. loc.togo # F
      BY <1>1, WindowFacts
    <2>2. posn + 0 + 0 = posn
      BY PosnTypes
    <2>3. F <= posn
      BY <1>1, <1>2, <2>1, <2>2 DEF InFrame
    <2>4. QED
      BY <2>3, PosnTypes, WindowFacts
  <1>5. WindowIs(lzx.window, posn, h) /\ h \in Texts
    BY <1>1, PosnTypes DEF TextInv, Posn
  <1>6. Output = [k \in 1 .. F |-> IF posn - F + k > 0 THEN lzx.window[posn - F + k - 1] ELSE Junk]
    BY <1>4 DEF Output
  <1> HIDE DEF posn, h
  <1>7. \A k \in 1 .. F :
          (IF posn - F + k > 0 THEN lzx.window[posn - F + k - 1] ELSE Junk) = h[Len(h) - F + k]
    <2> SUFFICES ASSUME NEW k \in 1 .. F
                 PROVE  /\ posn - F + k > 0
                        /\ lzx.window[posn - F + k - 1] = h[Len(h) - F + k]
      OBVIOUS
    <2> DEFINE j == F - k + 1
    <2>0. F \in Nat \ {0} /\ F <= W /\ W \in Nat /\ Len(h) \in Nat /\ F <= Len(h) /\ posn \in Nat
      BY <1>3, <1>4, WindowFacts, PosnTypes DEF h
    <2>1. /\ j \in 1 .. W /\ j <= Len(h) /\ posn - j = posn - F + k - 1 /\ posn - j >= 0
          /\ Len(h) - j + 1 = Len(h) - F + k /\ posn - F + k > 0
      BY <1>4, <2>0
    <2> HIDE DEF j
    <2>2. lzx.window[(posn - j) % W] = h[Len(h) - j + 1]
      BY <1>5, <2>1 DEF WindowIs
    <2>3. ((posn - j) % W) = posn - j
      <3>1. ((posn - j) % W) = Wrapped(posn - j)
        BY <1>4, <2>1, Back
      <3>2. Wrapped(posn - j) = posn - j
        BY <2>0, <2>1 DEF Wrapped
      <3>3. QED
        BY <3>1, <3>2
    <2>4. QED
      BY <2>1, <2>2, <2>3
  <1>8. Output = [k \in 1 .. F |-> h[Len(h) - F + k]]
    BY <1>6, <1>7
  <1>9. LastOf(h) = [k \in 1 .. F |-> h[Len(h) - F + k]]
    BY <1>3, <1>5, LastFacts DEF h
  <1>10. QED
    BY <1>3, <1>5, <1>8, <1>9 DEF h

\* Only a call that is through its frame returns a frame.
OutInv ==
    /\ pc # "idle" => out.ret # "DECR_OK"
    /\ ReturnsNextFrame
    /\ TranslatedAtPosition

LEMMA FinishOut ==
    ASSUME TypeInv, PosnInv, TextInv, CallsInv, CurposInv, Finish
    PROVE  OutInv'
  <1>1. /\ pc = "run" /\ pc' = "idle" /\ enc'.synced = enc.synced /\ enc'.hist = enc.hist
        /\ enc'.frames = enc.frames + 1
        /\ lzx'.intel_filesize = lzx.intel_filesize
    BY FinishKeeps
  <1>2. /\ out'.bytes = Output
        /\ out'.base = IF Translates /\ lzx.intel_started THEN lzx.intel_curpos ELSE NoBase
    BY DEF Finish
  <1> SUFFICES ASSUME enc.synced PROVE ReturnsNextFrame' /\ TranslatedAtPosition'
    BY <1>1 DEF OutInv, ReturnsNextFrame, TranslatedAtPosition
  <1>3. /\ Output = LastOf(enc.hist) /\ Len(enc.hist) = F * enc.frames + F
        /\ enc.hist \in Texts /\ Len(enc.hist) >= F
    BY OutputIs
  <1>4. Len(enc.hist) = F * (enc.frames + 1)
    BY <1>3, WindowFacts, PosnTypes
  <1>5. ReturnsNextFrame'
    BY <1>1, <1>2, <1>3, <1>4 DEF ReturnsNextFrame, LastOf
  <1>6. Translates => lzx.intel_curpos = Len(enc.hist) - F /\ lzx.intel_curpos # NoBase
    <2>1. Translates => lzx.intel_curpos = F * enc.frames
      BY <1>1 DEF CurposInv, Translates
    <2>2. F * enc.frames = Len(enc.hist) - F /\ F * enc.frames # NoBase
      BY <1>3, WindowFacts, PosnTypes DEF NoBase
    <2>3. QED
      BY <2>1, <2>2
  <1>7. (\E k \in 1 .. F : Output[k] = E8) => lzx.intel_started
    <2> SUFFICES ASSUME NEW k \in 1 .. F, Output[k] = E8
                 PROVE  Has(enc.hist, E8)
      BY <1>1 DEF CallsInv
    <2>1. enc.hist[Len(enc.hist) - F + k] = E8
      BY <1>3, LastFacts
    <2>2. Len(enc.hist) - F + k \in 1 .. Len(enc.hist)
      <3> DEFINE m == Len(enc.hist)
      <3>1. m \in Nat /\ m >= F /\ F \in Nat
        BY <1>3, WindowFacts, PosnTypes
      <3> HIDE DEF m
      <3>2. m - F + k \in 1 .. m
        BY <3>1
      <3>3. QED
        BY <3>2 DEF m
    <2>3. QED
      BY <2>1, <2>2 DEF Has
  <1>8. TranslatedAtPosition'
    BY <1>1, <1>2, <1>6, <1>7 DEF TranslatedAtPosition, Translates
  <1>9. QED
    BY <1>5, <1>8

LEMMA NextOut ==
    TypeInv /\ PosnInv /\ TextInv /\ CallsInv /\ CurposInv /\ OutInv /\ [Next]_vars => OutInv'
  <1> SUFFICES ASSUME TypeInv, PosnInv, TextInv, CallsInv, CurposInv, OutInv, [Next]_vars
               PROVE  OutInv'
    OBVIOUS
  <1>1. CASE out'.ret # "DECR_OK"
    BY <1>1 DEF OutInv, ReturnsNextFrame, TranslatedAtPosition
  <1>2. CASE Finish
    BY <1>2, FinishOut
  <1>3. CASE UNCHANGED vars
    BY <1>3 DEF vars, OutInv, ReturnsNextFrame, TranslatedAtPosition
  <1>4. CASE Call \/ Reset
    <2>1. out'.ret = "none"
      BY <1>4 DEF Call, Reset, NoOut
    <2>2. QED
      BY <1>1, <2>1
  <1>5. CASE CodedBlock \/ UncompressedBlock \/ ReadLength \/ ReadRun
               \/ ReadOverrun \/ CharsDone \/ LensDone
    BY <1>1, <1>5, CodeKeeps DEF OutInv
  <1>6. CASE StartRun \/ Literal \/ NewMatch \/ RepeatedMatch \/ Overrun \/ CopyRun
    <2>1. pc # "idle"
      BY <1>6, RunKeeps
    <2>2. out' = out \/ \E ret \in {"DECR_DATAFORMAT", "DECR_ILLEGALDATA"}, ok \in BOOLEAN :
                           Return(ret, ok)
      BY <1>6 DEF StartRun, Literal, NewMatch, RepeatedMatch, Overrun, CopyRun, Wrote
    <2>3. out'.ret # "DECR_OK"
      BY <2>1, <2>2, ReturnKeeps DEF OutInv
    <2>4. QED
      BY <1>1, <2>3
  <1>7. CASE Refuse
    <2>1. out'.ret = "DECR_ILLEGALDATA"
      BY <1>7, ReturnKeeps DEF Refuse
    <2>2. QED
      BY <1>1, <2>1
  <1>8. QED
    BY <1>2, <1>3, <1>4, <1>5, <1>6, <1>7 DEF Next, Step

LEMMA InitOut == Init => OutInv
  BY DEF Init, NoOut, OutInv, ReturnsNextFrame, TranslatedAtPosition

LEMMA OutAlways == Spec => []OutInv
  <1> DEFINE Inv == TypeInv /\ PosnInv /\ TextInv /\ CallsInv /\ CurposInv /\ OutInv
  <1>1. Init => Inv
    BY InitTypeInv, InitText, InitCalls, InitCurpos, InitOut
  <1>2. Inv /\ [Next]_vars => Inv'
    BY NextTypeInv, NextText, NextCalls, NextCurpos, NextOut
  <1>3. QED
    BY <1>1, <1>2, PTL DEF Spec

\* While the stream is whole a call returns the next frame of what the encoder
\* was given, for any window, frames, codes, blocks and matches.
THEOREM ReturnsNextFrameHolds == Spec => []ReturnsNextFrame
  <1>1. OutInv => ReturnsNextFrame
    BY DEF OutInv
  <1>2. QED
    BY <1>1, OutAlways, PTL

\* A frame is translated from its position since the reset, and one with a
\* call in it is translated.
THEOREM TranslatedAtPositionHolds == Spec => []TranslatedAtPosition
  <1>1. OutInv => TranslatedAtPosition
    BY DEF OutInv
  <1>2. QED
    BY <1>1, OutAlways, PTL

=============================================================================
