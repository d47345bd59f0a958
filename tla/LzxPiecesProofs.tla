---------------------------- MODULE LzxPiecesProofs ----------------------------
(***************************************************************************)
(* Theorems about the pieces of lzx_decompress: the decoding tables, the   *)
(* bit stream, the offsets of matches and the translation of calls, for    *)
(* every code, input, window and frame the modules' assumptions allow.     *)
(***************************************************************************)
EXTENDS LzxPieces, LzxTableProofs

-----------------------------------------------------------------------------
(* The bit stream *)

\* The buffer holds what the stream has from bit n on, as many bits as it
\* counts, and the input has been read word by word up to their end.
Holds(s, n) ==
    /\ s.bl \in 0 .. BufBits
    /\ s.bb = [k \in 1 .. BufBits |-> IF k <= s.bl THEN StreamBit(n + k - 1) ELSE Zero]
    /\ \E w \in Nat : s.ip = 2 * w /\ n + s.bl = WordBits * w

BlockInv ==
    /\ block \in [type : {"coded", "uncompressed"}, length : Nat, remaining : Nat]
    /\ block.remaining <= block.length
    /\ block.type = "coded" => block = CodedBlock

\* What connects the buffer with the stream: between coded blocks the buffer
\* holds the bits that are next; inside an uncompressed one the position is
\* that of the next byte, and its parity is that of the bytes copied.
BitsInv ==
    /\ BitsTypeOK
    /\ nread \in Nat
    /\ BlockInv
    /\ got.is = got.meant
    /\ block.type = "coded" => Holds(Buffer, nread)
    /\ block.type = "uncompressed" =>
         /\ inpos * ByteBits = nread
         /\ (inpos % 2) = ((block.length - block.remaining) % 2)
    /\ block.type = "uncompressed" /\ reading = "refused" =>
         inpos + block.remaining > inlen

LEMMA Sizes ==
    /\ ByteBits \in Nat \ {0} /\ WordBits \in Nat \ {0} /\ BufBits \in Nat \ {0}
    /\ WordBits = 2 * ByteBits /\ BufBits = 2 * WordBits
  BY BitsAssumption DEF WordBits, BufBits

\* Bit r of word w: the high byte of a word comes first.
LEMMA StreamBitAt ==
    ASSUME NEW w \in Nat, NEW r \in 0 .. WordBits - 1
    PROVE  /\ StreamBit(WordBits * w + r) = (IF r < ByteBits THEN <<2 * w + 1, r + 1>>
                                             ELSE <<2 * w, r - ByteBits + 1>>)
           /\ StreamBit(WordBits * w + r) = Word(2 * w)[r + 1]
  <1> DEFINE n == WordBits * w + r
  <1>1. WordBits * w \in Nat /\ n \in Nat
    BY Sizes
  <1> HIDE DEF n
  <1>2. n \div WordBits = w /\ (n % WordBits) = r
    BY <1>1, Sizes, DivUnique DEF n
  <1>3. StreamBit(n) = (IF r < ByteBits THEN <<2 * w + 1, r + 1>>
                        ELSE <<2 * w, r - ByteBits + 1>>)
    BY <1>2 DEF StreamBit
  <1>4. Word(2 * w)[r + 1] = (IF r < ByteBits THEN <<2 * w + 1, r + 1>>
                              ELSE <<2 * w, r - ByteBits + 1>>)
    <2>1. Len(Byte(2 * w + 1)) = ByteBits /\ Len(Byte(2 * w)) = ByteBits
          /\ Byte(2 * w + 1) \in Seq(Nat \X Nat) /\ Byte(2 * w) \in Seq(Nat \X Nat)
      BY Sizes DEF Byte
    <2> DEFINE high == Byte(2 * w + 1)
               low  == Byte(2 * w)
    <2>2. Word(2 * w) = high \o low
      BY DEF Word
    <2>3. /\ \A k \in 1 .. ByteBits : high[k] = <<2 * w + 1, k>>
          /\ \A k \in 1 .. ByteBits : low[k] = <<2 * w, k>>
      BY DEF Byte
    <2> HIDE DEF high, low
    <2>4. \A k \in 1 .. Len(high) + Len(low) :
             (high \o low)[k] = IF k <= Len(high) THEN high[k] ELSE low[k - Len(high)]
      BY <2>1 DEF high, low
    <2>5. r + 1 \in 1 .. ByteBits + ByteBits
      BY Sizes
    <2>6. (high \o low)[r + 1] = IF r + 1 <= ByteBits THEN high[r + 1]
                                 ELSE low[r + 1 - ByteBits]
      <3>1. Len(high) = ByteBits /\ Len(low) = ByteBits
        BY <2>1 DEF high, low
      <3>2. QED
        BY <2>4, <2>5, <3>1
    <2>7. CASE r < ByteBits
      <3>1. r + 1 \in 1 .. ByteBits /\ r + 1 <= ByteBits
        BY <2>7, Sizes
      <3>2. QED
        BY <2>2, <2>3, <2>6, <2>7, <3>1
    <2>8. CASE ~(r < ByteBits)
      <3>1. /\ r + 1 - ByteBits \in 1 .. ByteBits /\ ~(r + 1 <= ByteBits)
            /\ r + 1 - ByteBits = r - ByteBits + 1
        BY <2>8, Sizes
      <3>2. QED
        BY <2>2, <2>3, <2>6, <2>8, <3>1
    <2>9. QED
      BY <2>7, <2>8
  <1>5. QED
    BY <1>3, <1>4 DEF n

LEMMA StreamBitType ==
    ASSUME NEW n \in Nat
    PROVE  StreamBit(n) \in Nat \X (1 .. ByteBits)
  <1> DEFINE w == n \div WordBits
             r == n % WordBits
  <1>1. w \in Nat /\ r \in 0 .. WordBits - 1
    BY Sizes, DivModNat, ModRange
  <1>2. StreamBit(n) = (IF r < ByteBits THEN <<2 * w + 1, r + 1>>
                        ELSE <<2 * w, r - ByteBits + 1>>)
    BY DEF StreamBit
  <1> HIDE DEF w, r
  <1>3. QED
    BY <1>1, <1>2, Sizes

\* A word is read behind the bits the buffer has, while there is room for it.
LEMMA FilledHolds ==
    ASSUME NEW s, NEW n \in Nat, Holds(s, n), s.bl <= WordBits
    PROVE  Holds(Filled(s), n) /\ Filled(s).bl = s.bl + WordBits
  <1> DEFINE t == Filled(s)
  <1>1. PICK w \in Nat : s.ip = 2 * w /\ n + s.bl = WordBits * w
    BY DEF Holds
  <1>2. s.bl \in Nat /\ s.bb = [k \in 1 .. BufBits |-> IF k <= s.bl THEN StreamBit(n + k - 1) ELSE Zero]
    BY DEF Holds
  <1>3. t.bl = s.bl + WordBits /\ t.ip = s.ip + 2
        /\ t.bb = [k \in 1 .. BufBits |->
               IF k - s.bl \in 1 .. WordBits THEN Or(s.bb[k], Word(s.ip)[k - s.bl])
               ELSE s.bb[k]]
    BY DEF Filled
  <1> HIDE DEF t
  <1>4. ASSUME NEW k \in 1 .. BufBits
        PROVE  t.bb[k] = IF k <= t.bl THEN StreamBit(n + k - 1) ELSE Zero
    <2>0. t.bb[k] = IF k - s.bl \in 1 .. WordBits THEN Or(s.bb[k], Word(s.ip)[k - s.bl])
               ELSE s.bb[k]
      BY <1>3
    <2>00. s.bb[k] = IF k <= s.bl THEN StreamBit(n + k - 1) ELSE Zero
      BY <1>2
    <2>1. CASE k <= s.bl
      BY <2>0, <2>00, <2>1, <1>2, <1>3, Sizes
    <2>2. CASE k > s.bl /\ k <= s.bl + WordBits
      <3> DEFINE r == k - s.bl - 1
      <3>1. r \in 0 .. WordBits - 1 /\ r + 1 = k - s.bl /\ k - s.bl \in 1 .. WordBits
        BY <2>2, <1>2, Sizes
      <3>2. n + k - 1 = WordBits * w + r
        <4>1. WordBits * w \in Nat
          BY Sizes
        <4>2. QED
          BY <4>1, <1>1, <1>2
      <3> HIDE DEF r
      <3>3. t.bb[k] = Or(Zero, Word(2 * w)[r + 1])
        BY <2>0, <2>00, <2>2, <3>1, <1>1, <1>2
      <3>4. Or(Zero, Word(2 * w)[r + 1]) = Word(2 * w)[r + 1]
        BY DEF Or
      <3>5. Word(2 * w)[r + 1] = StreamBit(WordBits * w + r)
        BY <3>1, StreamBitAt
      <3>6. QED
        BY <3>2, <3>3, <3>4, <3>5, <2>2, <1>3
    <2>3. CASE k > s.bl + WordBits
      BY <2>0, <2>00, <2>3, <1>2, <1>3, Sizes
    <2>4. k <= s.bl \/ (k > s.bl /\ k <= s.bl + WordBits) \/ k > s.bl + WordBits
      BY <1>2, Sizes
    <2>5. QED
      BY <2>1, <2>2, <2>3, <2>4
  <1>5. t.bb = [k \in 1 .. BufBits |-> IF k <= t.bl THEN StreamBit(n + k - 1) ELSE Zero]
    BY <1>3, <1>4
  <1>6. t.bl \in 0 .. BufBits
    BY <1>2, <1>3, Sizes
  <1>7. t.ip = 2 * (w + 1) /\ n + t.bl = WordBits * (w + 1) /\ w + 1 \in Nat
    <2> DEFINE x == WordBits * w
    <2>1. WordBits * (w + 1) = x + WordBits /\ x \in Nat
      BY Sizes
    <2>2. t.ip = 2 * (w + 1)
      BY <1>1, <1>3
    <2>3. n + t.bl = x + WordBits
      <3>1. n + s.bl = x
        BY <1>1
      <3>2. t.bl = s.bl + WordBits /\ s.bl \in Nat /\ WordBits \in Nat
        BY <1>2, <1>3, Sizes
      <3> HIDE DEF x
      <3>3. QED
        BY <3>1, <3>2
    <2>4. QED
      BY <2>1, <2>2, <2>3
  <1>8. QED
    BY <1>3, <1>5, <1>6, <1>7 DEF Holds, t

\* ENSURE_BITS leaves as many bits as asked for, and the next ones in front.
LEMMA EnsuredHolds ==
    ASSUME NEW s, NEW n \in Nat, Holds(s, n), NEW m \in 1 .. WordBits + 1
    PROVE  LET t == Ensured(s, m)
           IN  /\ Holds(t, n)
               /\ t.bl >= m
               /\ s.bl < BufBits /\ m <= WordBits => t.bl < BufBits
  <1> DEFINE once == IF s.bl < m THEN Filled(s) ELSE s
             t == Ensured(s, m)
  <1>0. t = IF once.bl < m THEN Filled(once) ELSE once
    BY DEF Ensured
  <1>1. s.bl \in 0 .. BufBits
    BY DEF Holds
  <1>2. Holds(once, n) /\ once.bl \in 0 .. BufBits /\ (once.bl = s.bl \/ (s.bl < m /\ once.bl = s.bl + WordBits))
        /\ (once.bl >= WordBits \/ once.bl >= m)
    <2>1. CASE s.bl < m
      <3>1. s.bl <= WordBits
        BY <2>1, <1>1, Sizes
      <3>2. once = Filled(s)
        BY <2>1
      <3>3. Holds(Filled(s), n) /\ Filled(s).bl = s.bl + WordBits
        BY <3>1, FilledHolds
      <3> HIDE DEF once
      <3>4. QED
        BY <3>1, <3>2, <3>3, <1>1, <2>1, Sizes
    <2>2. CASE ~(s.bl < m)
      <3>1. once = s
        BY <2>2
      <3> HIDE DEF once
      <3>2. QED
        BY <3>1, <2>2, <1>1, Sizes
    <2>3. QED
      BY <2>1, <2>2
  <1> HIDE DEF once, t
  <1>3. CASE once.bl < m
    <2>1. once.bl = WordBits /\ m = WordBits + 1 /\ once.bl <= WordBits
      BY <1>2, <1>3, Sizes
    <2>2. Holds(Filled(once), n) /\ Filled(once).bl = once.bl + WordBits
      BY <1>2, <2>1, FilledHolds
    <2>3. t = Filled(once)
      BY <1>0, <1>3
    <2>4. Holds(t, n) /\ t.bl = once.bl + WordBits
      BY <2>2, <2>3
    <2>5. QED
      BY <2>1, <2>4, Sizes DEF t
  <1>4. CASE ~(once.bl < m)
    <2>1. t = once
      BY <1>0, <1>4
    <2>2. Holds(t, n) /\ t.bl >= m
      BY <2>1, <1>2, <1>4
    <2>3. s.bl < BufBits /\ m <= WordBits => t.bl < BufBits
      BY <2>1, <1>2, <1>1, Sizes
    <2>4. QED
      BY <2>2, <2>3 DEF t
  <1>5. QED
    BY <1>3, <1>4

\* PEEK_BITS shows the bits that are next, REMOVE_BITS leaves those behind.
LEMMA PeekedHolds ==
    ASSUME NEW s, NEW n \in Nat, Holds(s, n), NEW m \in 1 .. BufBits, m <= s.bl
    PROVE  Peeked(s, m) = [k \in 1 .. m |-> StreamBit(n + k - 1)]
  <1>1. s.bl \in 0 .. BufBits
        /\ s.bb = [k \in 1 .. BufBits |-> IF k <= s.bl THEN StreamBit(n + k - 1) ELSE Zero]
    BY DEF Holds
  <1>2. Peeked(s, m) = [k \in 1 .. m |-> s.bb[k]]
    BY Sizes DEF Peeked
  <1>3. \A k \in 1 .. m : s.bb[k] = StreamBit(n + k - 1)
    BY <1>1, Sizes
  <1>4. QED
    BY <1>2, <1>3

LEMMA RemovedHolds ==
    ASSUME NEW s, NEW n \in Nat, Holds(s, n), NEW m \in 1 .. BufBits, m <= s.bl,
           s = [bb |-> s.bb, bl |-> s.bl, ip |-> s.ip]
    PROVE  LET t == Removed(s, m)
           IN  Holds(t, n + m) /\ t.bl = s.bl - m
  <1> DEFINE t == Removed(s, m)
  <1>1. s.bl \in 0 .. BufBits
        /\ s.bb = [k \in 1 .. BufBits |-> IF k <= s.bl THEN StreamBit(n + k - 1) ELSE Zero]
    BY DEF Holds
  <1>2. PICK w \in Nat : s.ip = 2 * w /\ n + s.bl = WordBits * w
    BY DEF Holds
  <1>3. /\ t.bl = s.bl - m /\ t.ip = s.ip
        /\ t.bb = [k \in 1 .. BufBits |-> IF k + m <= BufBits THEN s.bb[k + m] ELSE Zero]
    BY DEF Removed
  <1>31. s.bl \in Nat /\ s.bl <= BufBits /\ m \in Nat
    <2>1. s.bl \in 0 .. BufBits
      BY <1>1
    <2>2. QED
      BY <2>1, Sizes
  <1>32. t.bl = s.bl - m
    BY <1>3
  <1>33. t.bl \in Nat /\ s.bl \in Nat /\ s.bl <= BufBits /\ t.bl + m = s.bl
    BY <1>31, <1>32
  <1> HIDE DEF t
  <1>4. ASSUME NEW k \in 1 .. BufBits
        PROVE  t.bb[k] = IF k <= t.bl THEN StreamBit(n + m + k - 1) ELSE Zero
    <2>1. t.bb[k] = IF k + m <= BufBits THEN s.bb[k + m] ELSE Zero
      BY <1>3
    <2>2. k + m <= BufBits =>
             s.bb[k + m] = IF k + m <= s.bl THEN StreamBit(n + (k + m) - 1) ELSE Zero
      <3>1. k + m <= BufBits => k + m \in 1 .. BufBits
        BY <1>31, Sizes
      <3> DEFINE x == k + m
      <3> HIDE DEF x
      <3>2. x \in 1 .. BufBits =>
               s.bb[x] = IF x <= s.bl THEN StreamBit(n + x - 1) ELSE Zero
        BY <1>1
      <3>3. QED
        BY <3>1, <3>2 DEF x
    <2>3. n + (k + m) - 1 = n + m + k - 1
      BY Sizes
    <2>4. QED
      BY <2>1, <2>2, <2>3, <1>33, Sizes
  <1>5. t.bb = [k \in 1 .. BufBits |-> IF k <= t.bl THEN StreamBit(n + m + k - 1) ELSE Zero]
    BY <1>3, <1>4
  <1>6. t.bl \in 0 .. BufBits
    BY <1>33, Sizes
  <1>7. n + m + t.bl = WordBits * w /\ t.ip = 2 * w
    <2>1. WordBits * w \in Nat
      BY Sizes
    <2>2. QED
      BY <2>1, <1>2, <1>3, <1>33, Sizes
  <1>8. Holds(t, n + m)
    BY <1>5, <1>6, <1>7 DEF Holds
  <1>9. QED
    BY <1>3, <1>8 DEF t

LEMMA EnsuredRecord ==
    ASSUME NEW s, s = [bb |-> s.bb, bl |-> s.bl, ip |-> s.ip], NEW m
    PROVE  Ensured(s, m) = [bb |-> Ensured(s, m).bb, bl |-> Ensured(s, m).bl,
                            ip |-> Ensured(s, m).ip]
  <1>1. ASSUME NEW t
        PROVE  Filled(t) = [bb |-> Filled(t).bb, bl |-> Filled(t).bl, ip |-> Filled(t).ip]
    BY DEF Filled
  <1>2. QED
    BY <1>1 DEF Ensured

\* What holds after bits have been looked at and removed.
LEMMA TakeBits ==
    ASSUME BitsInv, InBits, NEW m \in 1 .. WordBits + 1, NEW n \in 1 .. m,
           LET s == Ensured(Buffer, m)
           IN  Buffered(Removed(s, n)) /\ Understood(Peeked(s, n), n),
           UNCHANGED <<inlen, block, reading>>
    PROVE  /\ nread' = nread + n
           /\ Holds(Buffer, nread)'
           /\ bitsleft' < BufBits
           /\ got'.is = got'.meant
  <1> DEFINE s == Ensured(Buffer, m)
             t == Removed(s, n)
  <1>1. Holds(Buffer, nread) /\ nread \in Nat /\ bitsleft \in 0 .. BufBits - 1
    BY DEF BitsInv, InBits, BitsTypeOK
  <1>2. Buffer = [bb |-> Buffer.bb, bl |-> Buffer.bl, ip |-> Buffer.ip]
    BY DEF Buffer
  <1>3. Holds(s, nread) /\ s.bl >= m
    BY <1>1, EnsuredHolds
  <1>4. s = [bb |-> s.bb, bl |-> s.bl, ip |-> s.ip]
    BY <1>2, EnsuredRecord
  <1>5. Buffered(t) /\ Understood(Peeked(s, n), n)
    OBVIOUS
  <1>6. s.bl \in 0 .. BufBits
    BY <1>3 DEF Holds
  <1> HIDE DEF s
  <1>7. n \in 1 .. BufBits /\ n <= s.bl
    BY <1>3, <1>6, Sizes
  <1>8. Holds(t, nread + n) /\ t.bl = s.bl - n
    BY <1>1, <1>3, <1>4, <1>7, RemovedHolds
  <1>9. Peeked(s, n) = [k \in 1 .. n |-> StreamBit(nread + k - 1)]
    BY <1>1, <1>3, <1>7, PeekedHolds
  <1> HIDE DEF t
  <1>10. nread' = nread + n /\ got'.is = got'.meant
    BY <1>5, <1>9 DEF Understood, Upcoming
  <1>11. bitbuf' = t.bb /\ bitsleft' = t.bl /\ inpos' = t.ip
    BY <1>5 DEF Buffered
  <1>12. Buffer' = [bb |-> t.bb, bl |-> t.bl, ip |-> t.ip]
    BY <1>11 DEF Buffer
  <1>13. Holds(Buffer', nread')
    BY <1>8, <1>10, <1>12 DEF Holds
  <1>14. bitsleft' < BufBits
    BY <1>6, <1>7, <1>8, <1>11, Sizes
  <1>15. Holds(Buffer, nread)'
    BY <1>13 DEF Holds, Buffer
  <1>16. QED
    BY <1>10, <1>14, <1>15

\* A buffer that holds bits of the stream has the type it should have.
LEMMA HoldsType ==
    ASSUME NEW s, NEW n \in Nat, Holds(s, n)
    PROVE  /\ s.bb \in [1 .. BufBits -> {Zero} \union (Nat \X (1 .. ByteBits))]
           /\ s.bl \in Nat /\ s.ip \in Nat
  <1>1. ASSUME NEW k \in 1 .. BufBits
        PROVE  StreamBit(n + k - 1) \in Nat \X (1 .. ByteBits)
    <2>1. n + k - 1 \in Nat
      BY Sizes
    <2>2. QED
      BY <2>1, StreamBitType
  <1>2. s.bb = [k \in 1 .. BufBits |-> IF k <= s.bl THEN StreamBit(n + k - 1) ELSE Zero]
    BY DEF Holds
  <1>3. s.bb \in [1 .. BufBits -> {Zero} \union (Nat \X (1 .. ByteBits))]
    BY <1>1, <1>2
  <1>4. s.bl \in 0 .. BufBits /\ s.ip \in Nat
    BY DEF Holds
  <1>5. QED
    BY <1>3, <1>4, Sizes

LEMMA CodedStep ==
    ASSUME BitsInv, InBits, UNCHANGED <<inlen, block, reading>>,
           Holds(Buffer, nread)', bitsleft' < BufBits, nread' \in Nat,
           got'.is = got'.meant
    PROVE  BitsInv'
  <1>1. block' = block /\ inlen' = inlen /\ reading' = reading /\ block.type = "coded"
        /\ reading = "on"
    BY DEF InBits
  <1>2. BlockInv'
    BY <1>1 DEF BitsInv, BlockInv
  <1>3. Holds(Buffer', nread')
    BY DEF Holds, Buffer
  <1>4. /\ Buffer'.bb \in [1 .. BufBits -> {Zero} \union (Nat \X (1 .. ByteBits))]
        /\ Buffer'.bl \in Nat /\ Buffer'.ip \in Nat
    BY <1>3, HoldsType
  <1>5. bitbuf' \in [1 .. BufBits -> {Zero} \union (Nat \X (1 .. ByteBits))]
        /\ bitsleft' \in Nat /\ inpos' \in Nat
    BY <1>4 DEF Buffer
  <1>6. bitsleft' \in 0 .. BufBits - 1
    BY <1>5, Sizes
  <1>7. BitsTypeOK'
    BY <1>1, <1>5, <1>6 DEF BitsTypeOK, BitsInv, BufBits, WordBits
  <1>8. QED
    BY <1>1, <1>2, <1>7 DEF BitsInv

\* An empty buffer holds what comes at any word.
LEMMA EmptyHolds ==
    ASSUME NEW w \in Nat, NEW s, s.bb = NoBits, s.bl = 0, s.ip = 2 * w
    PROVE  Holds(s, WordBits * w)
  <1>1. s.bl \in 0 .. BufBits
    BY Sizes
  <1>2. s.bb = [k \in 1 .. BufBits |-> IF k <= s.bl THEN StreamBit(WordBits * w + k - 1) ELSE Zero]
    BY Sizes DEF NoBits
  <1>3. WordBits * w + s.bl = WordBits * w
    BY Sizes
  <1>4. QED
    BY <1>1, <1>2, <1>3 DEF Holds

LEMMA BitsInitHolds ==
    ASSUME NEW S \in SUBSET Inlen, BitsInit(S)
    PROVE  BitsInv
  <1>1. inlen \in Inlen /\ inpos = 0 /\ bitbuf = NoBits /\ bitsleft = 0
        /\ block = CodedBlock /\ reading = "on" /\ nread = 0
        /\ got = [is |-> <<>>, meant |-> <<>>]
    BY DEF BitsInit
  <1>2. Buffer.bb = NoBits /\ Buffer.bl = 0 /\ Buffer.ip = 2 * 0
    BY <1>1 DEF Buffer
  <1>3. Holds(Buffer, WordBits * 0) /\ WordBits * 0 = 0
    BY <1>2, EmptyHolds, Sizes
  <1>4. bitbuf \in [1 .. BufBits -> {Zero} \union (Nat \X (1 .. ByteBits))]
    BY <1>1 DEF NoBits
  <1>5. BitsTypeOK
    BY <1>1, <1>4, Sizes DEF BitsTypeOK
  <1>6. BlockInv /\ block.type = "coded"
    BY <1>1 DEF BlockInv, CodedBlock
  <1>7. QED
    BY <1>1, <1>3, <1>5, <1>6 DEF BitsInv

LEMMA ReadBitsHolds ==
    ASSUME BitsInv, ReadBits
    PROVE  BitsInv'
  <1>1. PICK n \in Reads : LET s == Ensured(Buffer, n)
                           IN  Buffered(Removed(s, n)) /\ Understood(Peeked(s, n), n)
    BY DEF ReadBits
  <1>2. InBits /\ UNCHANGED <<inlen, block, reading>>
    BY DEF ReadBits
  <1>3. n \in 1 .. WordBits + 1 /\ n \in 1 .. n /\ nread \in Nat
    BY BitsAssumption, Sizes DEF BitsInv
  <1>4. /\ nread' = nread + n
        /\ Holds(Buffer, nread)'
        /\ bitsleft' < BufBits
        /\ got'.is = got'.meant
    BY <1>1, <1>2, <1>3, TakeBits
  <1>5. nread' \in Nat
    BY <1>3, <1>4
  <1>6. QED
    BY <1>2, <1>4, <1>5, CodedStep

LEMMA ReadHuffsymHolds ==
    ASSUME BitsInv, ReadHuffsym
    PROVE  BitsInv'
  <1>1. PICK n \in CodeLens : LET s == Ensured(Buffer, WordBits)
                              IN  Buffered(Removed(s, n)) /\ Understood(Peeked(s, n), n)
    BY DEF ReadHuffsym
  <1>2. InBits /\ UNCHANGED <<inlen, block, reading>>
    BY DEF ReadHuffsym
  <1>3. WordBits \in 1 .. WordBits + 1 /\ n \in 1 .. WordBits /\ nread \in Nat /\ n \in Nat
    BY BitsAssumption, Sizes DEF BitsInv
  <1>4. /\ nread' = nread + n
        /\ Holds(Buffer, nread)'
        /\ bitsleft' < BufBits
        /\ got'.is = got'.meant
    BY <1>1, <1>2, <1>3, TakeBits
  <1>5. nread' \in Nat
    BY <1>3, <1>4
  <1>6. QED
    BY <1>2, <1>4, <1>5, CodedStep

\* The padding runs to the end of the word the next bit lies in.
LEMMA AlignedAt ==
    ASSUME NEW s, NEW n \in Nat, Holds(s, n), s.bl >= WordBits, s.bl < BufBits
    PROVE  \E v \in Nat : /\ Aligned(s) = 2 * v
                          /\ (n \div WordBits + 1) * WordBits = WordBits * v
  <1>1. PICK w \in Nat : s.ip = 2 * w /\ n + s.bl = WordBits * w
    BY DEF Holds
  <1>2. s.bl \in 0 .. BufBits
    BY DEF Holds
  <1>3. w >= 1
    <2>1. w = 0 => WordBits * w = 0
      BY Sizes
    <2>2. QED
      BY <2>1, <1>1, <1>2, Sizes
  <1>4. CASE s.bl > WordBits
    <2> DEFINE r == BufBits - s.bl
    <2>1. r \in 0 .. WordBits - 1 /\ s.bl = 2 * WordBits - r
      BY <1>2, <1>4, Sizes
    <2>2. w >= 2
      <3>1. w = 1 => WordBits * w = WordBits
        BY Sizes
      <3>2. QED
        BY <3>1, <1>1, <1>2, <1>3, <1>4, Sizes
    <2>3. n = WordBits * (w - 2) + r
      <3>1. WordBits * (w - 2) = WordBits * w - 2 * WordBits /\ WordBits * w \in Nat
        BY Sizes
      <3> HIDE DEF r
      <3>2. QED
        BY <3>1, <2>1, <1>1, Sizes
    <2> HIDE DEF r
    <2>4. n \div WordBits = w - 2
      <3>1. w - 2 \in Int /\ n \in Int
        OBVIOUS
      <3>2. QED
        BY <3>1, <2>1, <2>3, Sizes, DivUnique
    <2>5. (n \div WordBits + 1) * WordBits = WordBits * (w - 1)
      <3>1. n \div WordBits + 1 = w - 1
        BY <2>4
      <3>2. (w - 1) * WordBits = WordBits * (w - 1)
        BY Sizes
      <3>3. QED
        BY <3>1, <3>2
    <2>6. Aligned(s) = 2 * (w - 1) /\ w - 1 \in Nat
      BY <1>1, <1>4, <2>2 DEF Aligned
    <2>7. QED
      BY <2>5, <2>6
  <1>5. CASE ~(s.bl > WordBits)
    <2>1. s.bl = WordBits
      BY <1>2, <1>5, Sizes
    <2>3. n = WordBits * (w - 1) + 0
      <3>1. WordBits * (w - 1) = WordBits * w - WordBits /\ WordBits * w \in Nat
        BY Sizes
      <3>2. QED
        BY <3>1, <2>1, <1>1, Sizes
    <2>4. n \div WordBits = w - 1
      <3>1. w - 1 \in Int /\ n \in Int /\ 0 \in 0 .. WordBits - 1
        BY Sizes
      <3>2. QED
        BY <3>1, <2>3, Sizes, DivUnique
    <2>5. (n \div WordBits + 1) * WordBits = WordBits * w
      <3>1. n \div WordBits + 1 = w
        BY <2>4
      <3>2. w * WordBits = WordBits * w
        BY Sizes
      <3>3. QED
        BY <3>1, <3>2
    <2>6. Aligned(s) = 2 * w
      BY <1>1, <1>5 DEF Aligned
    <2>7. QED
      BY <2>5, <2>6
  <1>6. QED
    BY <1>4, <1>5

LEMMA UncompressedStartsHolds ==
    ASSUME BitsInv, UncompressedStarts
    PROVE  BitsInv'
  <1> DEFINE s == Ensured(Buffer, WordBits)
  <1>1. PICK n \in RawLens :
          /\ block' = [type |-> "uncompressed", length |-> n, remaining |-> n]
          /\ nread' = (nread \div WordBits + 1) * WordBits + RBytes * ByteBits
    BY DEF UncompressedStarts
  <1>2. /\ InBits /\ UNCHANGED <<inlen, reading, got>>
        /\ bitbuf' = s.bb /\ bitsleft' = s.bl /\ inpos' = Aligned(s) + RBytes
    <2>1. InBits /\ UNCHANGED <<inlen, reading, got>>
          /\ Buffered([s EXCEPT !.ip = Aligned(s) + RBytes])
      BY DEF UncompressedStarts
    <2>2. Buffer = [bb |-> Buffer.bb, bl |-> Buffer.bl, ip |-> Buffer.ip]
      BY DEF Buffer
    <2>3. s = [bb |-> s.bb, bl |-> s.bl, ip |-> s.ip]
      BY <2>2, EnsuredRecord
    <2> HIDE DEF s
    <2>4. [s EXCEPT !.ip = Aligned(s) + RBytes] = [bb |-> s.bb, bl |-> s.bl, ip |-> Aligned(s) + RBytes]
      BY <2>3
    <2>5. QED
      BY <2>1, <2>4 DEF Buffered
  <1>3. Holds(Buffer, nread) /\ nread \in Nat /\ Buffer.bl = bitsleft
        /\ bitsleft \in 0 .. BufBits - 1
    BY <1>2 DEF BitsInv, InBits, BitsTypeOK, Buffer
  <1>4. Holds(s, nread) /\ s.bl >= WordBits /\ s.bl < BufBits
    <2>1. WordBits \in 1 .. WordBits + 1 /\ Buffer.bl < BufBits
      BY <1>3, Sizes
    <2>2. QED
      BY <1>3, <2>1, EnsuredHolds, Sizes
  <1>5. PICK v \in Nat : Aligned(s) = 2 * v
                         /\ (nread \div WordBits + 1) * WordBits = WordBits * v
    BY <1>3, <1>4, AlignedAt
  <1>6. /\ s.bb \in [1 .. BufBits -> {Zero} \union (Nat \X (1 .. ByteBits))]
        /\ s.bl \in Nat
    BY <1>3, <1>4, HoldsType
  <1> HIDE DEF s
  <1>7. inpos' = 2 * v + RBytes /\ inpos' \in Nat /\ nread' = WordBits * v + RBytes * ByteBits
        /\ RBytes \in Nat /\ (RBytes % 2) = 0
    BY <1>1, <1>2, <1>5, BitsAssumption
  <1>8. inpos' * ByteBits = nread' /\ nread' \in Nat
    <2>1. (2 * v + RBytes) * ByteBits = (2 * ByteBits) * v + RBytes * ByteBits
          /\ (2 * v + RBytes) * ByteBits \in Nat
      BY <1>7, Sizes
    <2>2. QED
      BY <2>1, <1>7, Sizes
  <1>9. (inpos' % 2) = 0
    BY <1>7
  <1>10. BitsTypeOK'
    BY <1>2, <1>4, <1>6, <1>7, Sizes DEF BitsTypeOK, BitsInv
  <1>11. n \in Nat /\ n - n = 0
    BY BitsAssumption
  <1>12. BlockInv' /\ block'.type = "uncompressed" /\ block'.length - block'.remaining = 0
    BY <1>1, <1>11 DEF BlockInv
  <1>13. reading' = "on" /\ got'.is = got'.meant
    BY <1>2 DEF InBits, BitsInv
  <1>14. (0 % 2) = 0
    OBVIOUS
  <1>15. QED
    BY <1>8, <1>9, <1>10, <1>12, <1>13, <1>14 DEF BitsInv

LEMMA CopyRunHolds ==
    ASSUME BitsInv, CopyRun
    PROVE  BitsInv'
  <1>1. /\ reading = "on" /\ block.type = "uncompressed"
        /\ UNCHANGED <<inlen, bitbuf, bitsleft, got>>
    BY DEF CopyRun
  <1>2. PICK n \in 1 .. block.remaining :
         IF inpos + n > inlen
         THEN /\ reading' = "refused"
              /\ UNCHANGED <<inpos, block, nread>>
         ELSE /\ inpos' = inpos + n
              /\ nread' = nread + n * ByteBits
              /\ block' = [block EXCEPT !.remaining = @ - n]
              /\ UNCHANGED reading
    BY DEF CopyRun
  <1>3. /\ block.remaining \in Nat /\ block.length \in Nat /\ block.remaining <= block.length
        /\ inpos \in Nat /\ nread \in Nat /\ inlen \in Inlen /\ inlen \in Nat
    BY BitsAssumption DEF BitsInv, BlockInv, BitsTypeOK
  <1>4. n \in Nat /\ n <= block.remaining
    BY <1>3
  <1>5. CASE inpos + n > inlen
    <2>1. reading' = "refused" /\ UNCHANGED <<inpos, block, nread>>
      BY <1>2, <1>5
    <2>2. BitsTypeOK'
      BY <1>1, <2>1 DEF BitsInv, BitsTypeOK, BufBits, WordBits
    <2>3. BlockInv'
      BY <2>1 DEF BitsInv, BlockInv
    <2>4. inpos + block.remaining > inlen
      BY <1>3, <1>4, <1>5
    <2>5. QED
      BY <1>1, <2>1, <2>2, <2>3, <2>4 DEF BitsInv
  <1>6. CASE ~(inpos + n > inlen)
    <2>1. /\ inpos' = inpos + n /\ nread' = nread + n * ByteBits
          /\ block' = [block EXCEPT !.remaining = block.remaining - n] /\ reading' = reading
      BY <1>2, <1>6
    <2>2. BitsTypeOK'
      BY <1>1, <1>3, <1>4, <2>1 DEF BitsInv, BitsTypeOK, BufBits, WordBits
    <2>3. /\ BlockInv' /\ block'.type = "uncompressed"
          /\ block'.length = block.length /\ block'.remaining = block.remaining - n
      BY <1>1, <1>3, <1>4, <2>1 DEF BitsInv, BlockInv
    <2>4. inpos' * ByteBits = nread' /\ nread' \in Nat
      <3>1. (inpos + n) * ByteBits = inpos * ByteBits + n * ByteBits /\ n * ByteBits \in Nat
        BY <1>3, <1>4, Sizes
      <3>2. QED
        BY <3>1, <2>1, <1>1, <1>3 DEF BitsInv
    <2>5. (inpos' % 2) = ((block'.length - block'.remaining) % 2)
      <3> DEFINE a == block.length - block.remaining
      <3>1. (inpos % 2) = (a % 2) /\ a \in Nat
        BY <1>1, <1>3 DEF BitsInv
      <3>2. block'.length - block'.remaining = a + n
        BY <2>3, <1>3, <1>4
      <3> HIDE DEF a
      <3>3. ((inpos + n) % 2) = ((a + n) % 2)
        BY <3>1, <1>3, <1>4
      <3>4. QED
        BY <3>2, <3>3, <2>1
    <2>6. QED
      BY <1>1, <2>1, <2>2, <2>3, <2>4, <2>5 DEF BitsInv
  <1>7. QED
    BY <1>5, <1>6

LEMMA EvenHalf ==
    ASSUME NEW a \in Nat, (a % 2) = 0
    PROVE  \E w \in Nat : a = 2 * w
  <1>1. a \div 2 \in Nat /\ a = 2 * (a \div 2)
    OBVIOUS
  <1>2. QED
    BY <1>1

LEMMA WholeWords ==
    ASSUME NEW a \in Nat
    PROVE  \E v \in Nat : a - (a % 2) = 2 * v /\ 2 * v <= a /\ a <= 2 * v + 1
  <1>1. /\ a \div 2 \in Nat
        /\ (a % 2) \in 0 .. 1
        /\ a = 2 * (a \div 2) + (a % 2)
    OBVIOUS
  <1>2. QED
    BY <1>1

\* The stream starts afresh where the position is even.
LEMMA RestartHolds ==
    ASSUME BitsTypeOK, INIT_BITSTREAM, inpos' \in Nat, (inpos' % 2) = 0, inlen' \in Inlen,
           reading' = "on", nread' = inpos' * ByteBits
    PROVE  BitsTypeOK' /\ Holds(Buffer, nread)' /\ nread' \in Nat
  <1>1. bitbuf' = NoBits /\ bitsleft' = 0
    BY DEF INIT_BITSTREAM
  <1>2. bitbuf' \in [1 .. BufBits -> {Zero} \union (Nat \X (1 .. ByteBits))]
        /\ bitsleft' \in 0 .. BufBits - 1
    BY <1>1, Sizes DEF NoBits
  <1>3. BitsTypeOK'
    BY <1>2 DEF BitsTypeOK, BufBits, WordBits
  <1>4. PICK w \in Nat : inpos' = 2 * w
    BY EvenHalf
  <1>5. (2 * w) * ByteBits = WordBits * w
    BY Sizes
  <1>6. WordBits * w \in Nat
    BY Sizes
  <1>7. nread' = WordBits * w
    BY <1>4, <1>5
  <1>8. Buffer' = [bb |-> NoBits, bl |-> 0, ip |-> 2 * w]
    BY <1>1, <1>4 DEF Buffer
  <1>9. Holds(Buffer', WordBits * w)
    BY <1>8, EmptyHolds
  <1>10. Holds(Buffer', nread')
    BY <1>7, <1>9
  <1>11. Holds(Buffer, nread)'
    BY <1>10 DEF Holds, Buffer
  <1>12. QED
    BY <1>3, <1>6, <1>7, <1>11

LEMMA UncompressedEndsHolds ==
    ASSUME BitsInv, UncompressedEnds
    PROVE  BitsInv'
  <1>1. /\ reading = "on" /\ block.type = "uncompressed" /\ block.remaining = 0
        /\ inpos' = inpos + (block.length % 2)
        /\ nread' = nread + (block.length % 2) * ByteBits
        /\ INIT_BITSTREAM
        /\ block' = CodedBlock
        /\ UNCHANGED <<inlen, reading, got>>
    BY DEF UncompressedEnds
  <1>2. /\ block.length \in Nat /\ inpos \in Nat /\ nread \in Nat /\ inlen \in Inlen
        /\ inpos * ByteBits = nread
        /\ (inpos % 2) = ((block.length - block.remaining) % 2)
    BY <1>1 DEF BitsInv, BlockInv, BitsTypeOK
  <1> DEFINE r == block.length % 2
  <1>3. (inpos % 2) = r /\ r \in Nat
    BY <1>1, <1>2
  <1>4. ((inpos + r) % 2) = 0
    BY <1>2, <1>3
  <1>5. inpos' = inpos + r /\ nread' = nread + r * ByteBits
    BY <1>1
  <1> HIDE DEF r
  <1>6. (inpos + r) * ByteBits = inpos * ByteBits + r * ByteBits
    BY <1>2, <1>3, Sizes
  <1>7. nread' = inpos' * ByteBits /\ inpos' \in Nat /\ (inpos' % 2) = 0
    BY <1>2, <1>3, <1>4, <1>5, <1>6
  <1>8. BitsTypeOK' /\ Holds(Buffer, nread)' /\ nread' \in Nat
    BY <1>1, <1>2, <1>7, RestartHolds DEF BitsInv
  <1>9. BlockInv' /\ block'.type = "coded"
    BY <1>1 DEF BlockInv, CodedBlock
  <1>10. QED
    BY <1>1, <1>8, <1>9 DEF BitsInv

LEMMA RefuseHolds ==
    ASSUME BitsInv, Refuse
    PROVE  BitsInv'
  <1>1. /\ InBits /\ reading' = "refused"
        /\ UNCHANGED <<inlen, inpos, bitbuf, bitsleft, block, nread, got>>
    BY DEF Refuse
  <1>2. BitsTypeOK'
    BY <1>1 DEF BitsInv, BitsTypeOK, BufBits, WordBits
  <1>3. BlockInv' /\ block'.type = "coded"
    BY <1>1 DEF BitsInv, BlockInv, InBits
  <1>4. Holds(Buffer, nread)'
    <2>1. Holds(Buffer, nread)
      BY <1>1 DEF BitsInv, InBits
    <2>2. Buffer' = Buffer /\ nread' = nread
      BY <1>1 DEF Buffer
    <2>3. Holds(Buffer', nread')
      BY <2>1, <2>2
    <2>4. QED
      BY <2>3 DEF Holds, Buffer
  <1>5. QED
    BY <1>1, <1>2, <1>3, <1>4 DEF BitsInv

LEMMA NextFrameHolds ==
    ASSUME BitsInv, NextFrame
    PROVE  BitsInv'
  <1>1. /\ reading = "on" /\ ((block.length - block.remaining) % 2) = 0
        /\ inlen' \in Inlen /\ inpos' = 0 /\ INIT_BITSTREAM /\ nread' = 0
        /\ UNCHANGED <<block, reading, got>>
    BY DEF NextFrame
  <1>2. 0 * ByteBits = 0 /\ (0 % 2) = 0
    BY Sizes
  <1>3. BitsTypeOK' /\ Holds(Buffer, nread)' /\ nread' \in Nat
    BY <1>1, <1>2, RestartHolds DEF BitsInv
  <1>4. BlockInv'
    BY <1>1 DEF BitsInv, BlockInv
  <1>5. QED
    BY <1>1, <1>2, <1>3, <1>4 DEF BitsInv

LEMMA BitsStutterHolds ==
    ASSUME BitsInv, UNCHANGED bitsVars
    PROVE  BitsInv'
  <1>1. UNCHANGED <<inlen, inpos, bitbuf, bitsleft, block, reading, nread, got>>
    BY DEF bitsVars
  <1>2. BitsTypeOK'
    BY <1>1 DEF BitsInv, BitsTypeOK, BufBits, WordBits
  <1>3. BlockInv'
    BY <1>1 DEF BitsInv, BlockInv
  <1>4. Buffer' = Buffer
    BY <1>1 DEF Buffer
  <1>5. ASSUME Holds(Buffer, nread) PROVE Holds(Buffer, nread)'
    <2>1. Holds(Buffer', nread')
      BY <1>1, <1>4, <1>5
    <2>2. QED
      BY <2>1 DEF Holds, Buffer
  <1>6. QED
    BY <1>1, <1>2, <1>3, <1>5 DEF BitsInv

LEMMA BitsNextHolds ==
    ASSUME BitsInv, BitsNext
    PROVE  BitsInv'
  BY ReadBitsHolds, ReadHuffsymHolds, UncompressedStartsHolds, CopyRunHolds,
     UncompressedEndsHolds, RefuseHolds, NextFrameHolds DEF BitsNext

\* More words have been fetched than the bits that are used need, but two at
\* most: whether the input is exhausted can be told from the position.
LEMMA ExhaustedExactly ==
    ASSUME BitsInv, InBits
    PROVE  Exhausted <=> nread > ByteBits * (inlen - (inlen % 2))
  <1> DEFINE whole == inlen - (inlen % 2)
  <1>1. PICK w \in Nat : inpos = 2 * w /\ nread + bitsleft = WordBits * w
    BY DEF BitsInv, InBits, Holds, Buffer
  <1>2. inlen \in Nat /\ bitsleft \in 0 .. BufBits - 1 /\ nread \in Nat
    BY BitsAssumption DEF BitsInv, BitsTypeOK
  <1>3. PICK v \in Nat : whole = 2 * v /\ 2 * v <= inlen /\ inlen <= 2 * v + 1
    BY <1>2, WholeWords
  <1> SUFFICES Exhausted <=> nread > ByteBits * whole
    OBVIOUS
  <1> HIDE DEF whole
  <1>4. ByteBits * whole = WordBits * v /\ WordBits * v \in Nat /\ WordBits * w \in Nat
    BY <1>3, Sizes
  <1>5. CASE w <= v
    <2>1. WordBits * w <= WordBits * v
      BY <1>5, Sizes
    <2>2. nread <= ByteBits * whole
      BY <2>1, <1>1, <1>2, <1>4, Sizes
    <2>3. ~Exhausted
      BY <1>1, <1>2, <1>3, <1>5 DEF Exhausted
    <2>4. QED
      BY <2>2, <2>3, <1>2, <1>4
  <1>6. CASE w = v + 1
    <2>1. WordBits * w = WordBits * v + WordBits
      BY <1>6, Sizes
    <2>2. nread > ByteBits * whole <=> bitsleft < WordBits
      <3>1. ASSUME NEW n \in Nat, NEW b \in Nat, NEW c \in Nat, NEW d \in Nat,
                   n + b = c + d
            PROVE  n > c <=> b < d
        BY <3>1
      <3>2. nread + bitsleft = ByteBits * whole + WordBits
        BY <2>1, <1>1, <1>4
      <3>3. bitsleft \in Nat /\ ByteBits * whole \in Nat /\ WordBits \in Nat
        BY <1>2, <1>4, Sizes
      <3>4. QED
        BY <3>1, <3>2, <3>3, <1>2
    <2>3. Exhausted <=> bitsleft < WordBits
      BY <1>1, <1>2, <1>3, <1>6 DEF Exhausted
    <2>4. QED
      BY <2>2, <2>3
  <1>7. CASE w >= v + 2
    <2>1. WordBits * w >= WordBits * v + 2 * WordBits
      <3>1. WordBits * (v + 2) = WordBits * v + 2 * WordBits
        BY Sizes
      <3>2. WordBits * (v + 2) <= WordBits * w
        BY <1>7, Sizes
      <3>3. QED
        BY <3>1, <3>2
    <2>2. nread > ByteBits * whole
      BY <2>1, <1>1, <1>2, <1>4, Sizes
    <2>3. Exhausted
      BY <1>1, <1>2, <1>3, <1>7 DEF Exhausted
    <2>4. QED
      BY <2>2, <2>3
  <1>8. w <= v \/ w = v + 1 \/ w >= v + 2
    OBVIOUS
  <1>9. QED
    BY <1>5, <1>6, <1>7, <1>8

LEMMA StreamIsRead ==
    ASSUME BitsInv
    PROVE  ReadsTheStream
  <1>1. InBits => (Exhausted <=> nread > ByteBits * (inlen - (inlen % 2)))
    BY ExhaustedExactly
  <1>2. ASSUME reading = "refused", block.type = "uncompressed"
        PROVE  nread + block.remaining * ByteBits > ByteBits * inlen
    <2>1. /\ inpos \in Nat /\ block.remaining \in Nat /\ inlen \in Nat
          /\ inpos * ByteBits = nread /\ inpos + block.remaining > inlen
      BY <1>2, BitsAssumption DEF BitsInv, BitsTypeOK, BlockInv
    <2>2. (inpos + block.remaining) * ByteBits = inpos * ByteBits + block.remaining * ByteBits
      BY <2>1, Sizes
    <2>3. (inpos + block.remaining) * ByteBits > ByteBits * inlen
      BY <2>1, Sizes
    <2>4. QED
      BY <2>1, <2>2, <2>3
  <1>3. block.type = "uncompressed" /\ reading = "on" => inpos * ByteBits = nread
    BY DEF BitsInv
  <1>4. got.is = got.meant
    BY DEF BitsInv
  <1>5. QED
    BY <1>1, <1>2, <1>3, <1>4 DEF ReadsTheStream

-----------------------------------------------------------------------------
(* Match offsets *)

\* The two tables, entry by entry.
LEMMA Bases ==
    /\ position_base[0] = 0 /\ position_base[1] = 1 /\ position_base[2] = 2
    /\ position_base[3] = 3 /\ position_base[4] = 4 /\ position_base[5] = 6
    /\ position_base[6] = 8 /\ position_base[7] = 12 /\ position_base[8] = 16
    /\ position_base[9] = 24 /\ position_base[10] = 32
    /\ position_base[11] = 48 /\ position_base[12] = 64
    /\ position_base[13] = 96 /\ position_base[14] = 128
    /\ position_base[15] = 192 /\ position_base[16] = 256
    /\ position_base[17] = 384 /\ position_base[18] = 512
    /\ position_base[19] = 768 /\ position_base[20] = 1024
    /\ position_base[21] = 1536 /\ position_base[22] = 2048
    /\ position_base[23] = 3072 /\ position_base[24] = 4096
    /\ position_base[25] = 6144 /\ position_base[26] = 8192
    /\ position_base[27] = 12288 /\ position_base[28] = 16384
    /\ position_base[29] = 24576 /\ position_base[30] = 32768
    /\ position_base[31] = 49152 /\ position_base[32] = 65536
    /\ position_base[33] = 98304 /\ position_base[34] = 131072
    /\ position_base[35] = 196608 /\ position_base[36] = 262144
    /\ position_base[37] = 393216 /\ position_base[38] = 524288
    /\ position_base[39] = 655360 /\ position_base[40] = 786432
    /\ position_base[41] = 917504 /\ position_base[42] = 1048576
    /\ position_base[43] = 1179648 /\ position_base[44] = 1310720
    /\ position_base[45] = 1441792 /\ position_base[46] = 1572864
    /\ position_base[47] = 1703936 /\ position_base[48] = 1835008
    /\ position_base[49] = 1966080 /\ position_base[50] = 2097152
  BY DEF position_base, Slot

LEMMA Extras ==
    /\ extra_bits[0] = 0 /\ extra_bits[1] = 0 /\ extra_bits[2] = 0
    /\ extra_bits[3] = 0 /\ extra_bits[4] = 1 /\ extra_bits[5] = 1
    /\ extra_bits[6] = 2 /\ extra_bits[7] = 2 /\ extra_bits[8] = 3
    /\ extra_bits[9] = 3 /\ extra_bits[10] = 4 /\ extra_bits[11] = 4
    /\ extra_bits[12] = 5 /\ extra_bits[13] = 5 /\ extra_bits[14] = 6
    /\ extra_bits[15] = 6 /\ extra_bits[16] = 7 /\ extra_bits[17] = 7
    /\ extra_bits[18] = 8 /\ extra_bits[19] = 8 /\ extra_bits[20] = 9
    /\ extra_bits[21] = 9 /\ extra_bits[22] = 10 /\ extra_bits[23] = 10
    /\ extra_bits[24] = 11 /\ extra_bits[25] = 11 /\ extra_bits[26] = 12
    /\ extra_bits[27] = 12 /\ extra_bits[28] = 13 /\ extra_bits[29] = 13
    /\ extra_bits[30] = 14 /\ extra_bits[31] = 14 /\ extra_bits[32] = 15
    /\ extra_bits[33] = 15 /\ extra_bits[34] = 16 /\ extra_bits[35] = 16
    /\ extra_bits[36] = 17 /\ extra_bits[37] = 17 /\ extra_bits[38] = 17
    /\ extra_bits[39] = 17 /\ extra_bits[40] = 17 /\ extra_bits[41] = 17
    /\ extra_bits[42] = 17 /\ extra_bits[43] = 17 /\ extra_bits[44] = 17
    /\ extra_bits[45] = 17 /\ extra_bits[46] = 17 /\ extra_bits[47] = 17
    /\ extra_bits[48] = 17 /\ extra_bits[49] = 17 /\ extra_bits[50] = 17
  BY DEF extra_bits, Slot

LEMMA SlotTypes ==
    ASSUME NEW s \in Slot
    PROVE  position_base[s] \in Nat /\ extra_bits[s] \in 0 .. 17
  <1>1. position_base[s] \in Nat
    BY DEF position_base, Slot
  <1>2. extra_bits[s] \in 0 .. 17
    BY DEF extra_bits, Slot
  <1>3. QED
    BY <1>1, <1>2

\* Every slot ends where the next one begins.
LEMMA SlotsAdjoin ==
    ASSUME NEW s \in 0 .. 49
    PROVE  position_base[s + 1] = position_base[s] + 2 ^ extra_bits[s]
  <1>1. CASE s \in 0 .. 9
    <2>1. CASE s = 0
      BY <2>1, Bases, Extras
    <2>2. CASE s = 1
      BY <2>2, Bases, Extras
    <2>3. CASE s = 2
      BY <2>3, Bases, Extras
    <2>4. CASE s = 3
      BY <2>4, Bases, Extras
    <2>5. CASE s = 4
      BY <2>5, Bases, Extras
    <2>6. CASE s = 5
      BY <2>6, Bases, Extras
    <2>7. CASE s = 6
      BY <2>7, Bases, Extras
    <2>8. CASE s = 7
      BY <2>8, Bases, Extras
    <2>9. CASE s = 8
      BY <2>9, Bases, Extras
    <2>10. CASE s = 9
      BY <2>10, Bases, Extras
    <2>11. QED
      BY <1>1, <2>1, <2>2, <2>3, <2>4, <2>5, <2>6, <2>7, <2>8, <2>9, <2>10
  <1>2. CASE s \in 10 .. 19
    <2>1. CASE s = 10
      BY <2>1, Bases, Extras
    <2>2. CASE s = 11
      BY <2>2, Bases, Extras
    <2>3. CASE s = 12
      BY <2>3, Bases, Extras
    <2>4. CASE s = 13
      BY <2>4, Bases, Extras
    <2>5. CASE s = 14
      BY <2>5, Bases, Extras
    <2>6. CASE s = 15
      BY <2>6, Bases, Extras
    <2>7. CASE s = 16
      BY <2>7, Bases, Extras
    <2>8. CASE s = 17
      BY <2>8, Bases, Extras
    <2>9. CASE s = 18
      BY <2>9, Bases, Extras
    <2>10. CASE s = 19
      BY <2>10, Bases, Extras
    <2>11. QED
      BY <1>2, <2>1, <2>2, <2>3, <2>4, <2>5, <2>6, <2>7, <2>8, <2>9, <2>10
  <1>3. CASE s \in 20 .. 29
    <2>1. CASE s = 20
      BY <2>1, Bases, Extras
    <2>2. CASE s = 21
      BY <2>2, Bases, Extras
    <2>3. CASE s = 22
      BY <2>3, Bases, Extras
    <2>4. CASE s = 23
      BY <2>4, Bases, Extras
    <2>5. CASE s = 24
      BY <2>5, Bases, Extras
    <2>6. CASE s = 25
      BY <2>6, Bases, Extras
    <2>7. CASE s = 26
      BY <2>7, Bases, Extras
    <2>8. CASE s = 27
      BY <2>8, Bases, Extras
    <2>9. CASE s = 28
      BY <2>9, Bases, Extras
    <2>10. CASE s = 29
      BY <2>10, Bases, Extras
    <2>11. QED
      BY <1>3, <2>1, <2>2, <2>3, <2>4, <2>5, <2>6, <2>7, <2>8, <2>9, <2>10
  <1>4. CASE s \in 30 .. 39
    <2>1. CASE s = 30
      BY <2>1, Bases, Extras
    <2>2. CASE s = 31
      BY <2>2, Bases, Extras
    <2>3. CASE s = 32
      BY <2>3, Bases, Extras
    <2>4. CASE s = 33
      BY <2>4, Bases, Extras
    <2>5. CASE s = 34
      BY <2>5, Bases, Extras
    <2>6. CASE s = 35
      BY <2>6, Bases, Extras
    <2>7. CASE s = 36
      BY <2>7, Bases, Extras
    <2>8. CASE s = 37
      BY <2>8, Bases, Extras
    <2>9. CASE s = 38
      BY <2>9, Bases, Extras
    <2>10. CASE s = 39
      BY <2>10, Bases, Extras
    <2>11. QED
      BY <1>4, <2>1, <2>2, <2>3, <2>4, <2>5, <2>6, <2>7, <2>8, <2>9, <2>10
  <1>5. CASE s \in 40 .. 49
    <2>1. CASE s = 40
      BY <2>1, Bases, Extras
    <2>2. CASE s = 41
      BY <2>2, Bases, Extras
    <2>3. CASE s = 42
      BY <2>3, Bases, Extras
    <2>4. CASE s = 43
      BY <2>4, Bases, Extras
    <2>5. CASE s = 44
      BY <2>5, Bases, Extras
    <2>6. CASE s = 45
      BY <2>6, Bases, Extras
    <2>7. CASE s = 46
      BY <2>7, Bases, Extras
    <2>8. CASE s = 47
      BY <2>8, Bases, Extras
    <2>9. CASE s = 48
      BY <2>9, Bases, Extras
    <2>10. CASE s = 49
      BY <2>10, Bases, Extras
    <2>11. QED
      BY <1>5, <2>1, <2>2, <2>3, <2>4, <2>5, <2>6, <2>7, <2>8, <2>9, <2>10
  <1>6. QED
    BY <1>1, <1>2, <1>3, <1>4, <1>5

\* The slots rise, and those of a window end where it does.
LEMMA SlotsRise ==
    ASSUME NEW s \in 0 .. 49
    PROVE  position_base[s] < position_base[s + 1]
  <1> USE Bases
  <1>1. CASE s \in 0 .. 24
    BY <1>1
  <1>2. CASE s \in 25 .. 49
    BY <1>2
  <1>3. QED
    BY <1>1, <1>2

LEMMA WindowEnds ==
    ASSUME NEW w \in Windows
    PROVE  posn_slots(w) \in 30 .. 50 /\ position_base[posn_slots(w)] = 2 ^ w
  <1>1. w = 15 \/ w = 16 \/ w = 17 \/ w = 18 \/ w = 19 \/ w = 20 \/ w = 21
    BY DEF Windows
  <1>2. CASE w = 15
    BY <1>2, Bases DEF posn_slots
  <1>3. CASE w = 16
    BY <1>3, Bases DEF posn_slots
  <1>4. CASE w = 17
    BY <1>4, Bases DEF posn_slots
  <1>5. CASE w = 18
    BY <1>5, Bases DEF posn_slots
  <1>6. CASE w = 19
    BY <1>6, Bases DEF posn_slots
  <1>7. CASE w = 20
    BY <1>7, Bases DEF posn_slots
  <1>8. CASE w = 21
    BY <1>8, Bases DEF posn_slots
  <1>9. QED
    BY <1>1, <1>2, <1>3, <1>4, <1>5, <1>6, <1>7, <1>8

LEMMA SlotsMonotone ==
    ASSUME NEW s \in Slot, NEW t \in Slot, s <= t
    PROVE  position_base[s] <= position_base[t]
  <1> DEFINE Wrong == {n \in Nat : n <= 50 - s /\ ~(position_base[s] <= position_base[s + n])}
  <1>1. s \in Nat /\ t \in Nat /\ s <= 50 /\ t <= 50
    BY DEF Slot
  <1>2. ASSUME Wrong # {} PROVE FALSE
    <2>1. Wrong \in SUBSET Nat
      OBVIOUS
    <2> HIDE DEF Wrong
    <2>2. PICK n \in Wrong : \A m \in Wrong : n <= m
      BY <1>2, <2>1, LeastNat
    <2>3. n \in Nat /\ n <= 50 - s /\ ~(position_base[s] <= position_base[s + n])
      BY <2>2 DEF Wrong
    <2>4. n # 0
      <3>1. n = 0 => s + n = s
        BY <1>1
      <3>2. position_base[s] \in Nat
        BY SlotTypes
      <3>3. QED
        BY <2>3, <3>1, <3>2
    <2>5. n - 1 \in Nat /\ n - 1 <= 50 - s /\ ~(n <= n - 1)
      BY <1>1, <2>3, <2>4
    <2>6. position_base[s] <= position_base[s + (n - 1)]
      BY <2>2, <2>5 DEF Wrong
    <2>7. s + (n - 1) \in 0 .. 49 /\ (s + (n - 1)) + 1 = s + n /\ s + n \in Slot
          /\ s + (n - 1) \in Slot
      BY <1>1, <2>3, <2>5 DEF Slot
    <2>8. position_base[s + (n - 1)] < position_base[s + n]
      BY <2>7, SlotsRise
    <2>9. position_base[s] \in Nat /\ position_base[s + n] \in Nat
          /\ position_base[s + (n - 1)] \in Nat
      BY <2>7, SlotTypes
    <2>10. QED
      BY <2>3, <2>6, <2>8, <2>9
  <1>3. t - s \in Nat /\ t - s <= 50 - s /\ s + (t - s) = t
    BY <1>1
  <1>4. QED
    BY <1>2, <1>3

\* The slot of an offset is the only one it lies in.
LEMMA SlotFound ==
    ASSUME NEW m \in Nat
    PROVE  LET S == {s \in Slot : position_base[s] <= m}
               s == Max(S)
           IN  s \in Slot /\ position_base[s] <= m /\ \A t \in Slot : position_base[t] <= m => t <= s
  <1> DEFINE S == {s \in Slot : position_base[s] <= m}
             D == {50 - s : s \in S}
  <1>1. 0 \in S
    BY Bases DEF Slot
  <1>2. D \in SUBSET Nat /\ D # {}
    BY <1>1 DEF Slot
  <1>3. PICK d \in D : \A e \in D : d <= e
    <2> HIDE DEF D
    <2>1. QED
      BY <1>2, LeastNat
  <1>4. PICK s \in S : d = 50 - s
    BY <1>3
  <1>5. \A t \in S : s >= t
    <2> TAKE t \in S
    <2>1. 50 - t \in D
      OBVIOUS
    <2>2. 50 - s <= 50 - t
      BY <1>3, <1>4, <2>1
    <2>3. s \in Nat /\ t \in Nat
      BY DEF Slot
    <2>4. QED
      BY <2>2, <2>3
  <1> HIDE DEF S
  <1>6. Max(S) \in S /\ \A t \in S : Max(S) >= t
    BY <1>5 DEF Max
  <1>7. QED
    BY <1>6 DEF S, Slot

\* The offset of a match comes back, in a slot the window has.
LEMMA OffsetComesBack ==
    ASSUME NEW w \in Windows, NEW offset \in 1 .. 2 ^ w - 3
    PROVE  LET slot   == SlotOf(offset)
               footer == offset + 2 - position_base[slot]
           IN  /\ slot \in 3 .. posn_slots(w) - 1
               /\ footer < 2 ^ extra_bits[slot]
               /\ VerbatimOffset(slot, footer) = offset
               /\ AlignedOffset(slot, footer) = offset
  <1> DEFINE s == SlotOf(offset)
             footer == offset + 2 - position_base[s]
             top == posn_slots(w)
             extra == extra_bits[s]
  <1>0. top \in 30 .. 50 /\ position_base[top] = 2 ^ w
    BY WindowEnds
  <1>1. offset \in Nat /\ offset + 2 \in Nat /\ offset >= 1 /\ offset + 2 < position_base[top]
    <2>1. position_base[top] \in Nat
      BY <1>0, SlotTypes DEF Slot
    <2>2. QED
      BY <1>0, <2>1
  <1> HIDE DEF top
  <1>2. /\ s \in Slot /\ position_base[s] <= offset + 2
        /\ \A t \in Slot : position_base[t] <= offset + 2 => t <= s
    BY <1>1, SlotFound DEF SlotOf
  <1> HIDE DEF s
  <1>3. s >= 3
    BY <1>1, <1>2, Bases DEF Slot
  <1>4. s < top
    <2>1. top \in Slot /\ position_base[s] \in Nat /\ position_base[top] \in Nat
      BY <1>0, <1>2, SlotTypes DEF Slot
    <2>2. top <= s => position_base[top] <= position_base[s]
      BY <1>2, <2>1, SlotsMonotone
    <2>3. QED
      BY <1>0, <1>1, <1>2, <2>1, <2>2 DEF Slot
  <1>5. footer \in Nat /\ footer < 2 ^ extra /\ extra \in 0 .. 17
    <2>1. s \in 0 .. 49 /\ s + 1 \in Slot
      BY <1>0, <1>2, <1>4 DEF Slot
    <2>2. position_base[s + 1] = position_base[s] + 2 ^ extra
      BY <2>1, SlotsAdjoin
    <2>3. ~(s + 1 <= s)
      BY <2>1
    <2>4. ~(position_base[s + 1] <= offset + 2)
      BY <1>2, <2>1, <2>3
    <2>5. position_base[s] \in Nat /\ position_base[s + 1] \in Nat /\ extra \in 0 .. 17
      BY <1>2, <2>1, SlotTypes
    <2> DEFINE p == 2 ^ extra
    <2>6. p = position_base[s + 1] - position_base[s] /\ p \in Int
      <3>1. 2 ^ extra \in Int
        BY <2>5
      <3> HIDE DEF p, extra
      <3>2. QED
        BY <2>2, <2>5, <3>1 DEF p
    <2> HIDE DEF p, extra
    <2>7. footer \in Nat /\ footer < p
      BY <1>1, <1>2, <2>4, <2>5, <2>6
    <2>8. QED
      BY <2>5, <2>7 DEF p
  <1>6. (s = 3) <=> (extra = 0)
    <2>1. s \in 0 .. 50 /\ extra = IF s < 4 THEN 0 ELSE IF s < 36 THEN s \div 2 - 1 ELSE 17
      BY <1>2 DEF extra_bits, Slot
    <2>2. QED
      BY <2>1, <1>3
  <1>7. position_base[s] - 2 + footer = offset
    BY <1>1, <1>2, SlotTypes
  <1>8. s = 3 => offset = 1
    <2>1. ASSUME s = 3 PROVE offset = 1
      <3>1. extra = 0
        BY <1>6, <2>1
      <3>2. 2 ^ extra = 1
        BY <3>1
      <3>3. position_base[s] = 3
        BY <2>1, Bases
      <3>4. QED
        BY <1>1, <1>5, <1>7, <3>2, <3>3
    <2>2. QED
      BY <2>1
  <1> HIDE DEF footer, extra
  <1>9. VerbatimOffset(s, footer) = offset
    BY <1>7, <1>8 DEF VerbatimOffset
  <1>10. AlignedOffset(s, footer) = offset
    <2>1. AlignedOffset(s, footer) =
            CASE extra > 3 -> position_base[s] - 2 + (footer \div 8) * 8 + (footer % 8)
              [] extra = 3 -> position_base[s] - 2 + (footer % 8)
              [] extra \in {1, 2} -> position_base[s] - 2 + footer
              [] extra = 0 -> 1
      BY DEF AlignedOffset, extra
    <2>2. CASE extra > 3
      <3>1. (footer \div 8) * 8 + (footer % 8) = footer
        BY <1>5
      <3>2. AlignedOffset(s, footer) = position_base[s] - 2 + (footer \div 8) * 8 + (footer % 8)
        BY <2>1, <2>2, <1>5
      <3>3. position_base[s] \in Nat /\ footer \in Nat
        BY <1>2, <1>5, SlotTypes
      <3>4. position_base[s] - 2 + (footer \div 8) * 8 + (footer % 8)
              = position_base[s] - 2 + ((footer \div 8) * 8 + (footer % 8))
        BY <3>3
      <3>5. QED
        BY <1>7, <3>1, <3>2, <3>4
    <2>3. CASE extra = 3
      <3>1. 2 ^ extra = 8
        BY <2>3
      <3>2. (footer % 8) = footer
        BY <1>5, <3>1
      <3>3. AlignedOffset(s, footer) = position_base[s] - 2 + (footer % 8)
        BY <2>1, <2>3
      <3>4. QED
        BY <1>7, <3>2, <3>3
    <2>4. CASE extra \in {1, 2}
      <3>1. AlignedOffset(s, footer) = position_base[s] - 2 + footer
        BY <2>1, <2>4
      <3>2. QED
        BY <1>7, <3>1
    <2>5. CASE extra = 0
      <3>1. AlignedOffset(s, footer) = 1
        BY <2>1, <2>5
      <3>2. QED
        BY <1>6, <1>8, <2>5, <3>1
    <2>6. extra > 3 \/ extra = 3 \/ extra \in {1, 2} \/ extra = 0
      BY <1>5
    <2>7. QED
      BY <2>2, <2>3, <2>4, <2>5, <2>6
  <1>11. s \in 3 .. top - 1
    BY <1>0, <1>2, <1>3, <1>4 DEF Slot
  <1>12. QED
    BY <1>5, <1>9, <1>10, <1>11 DEF s, footer, top, extra

LEMMA OffsetsInitHolds ==
    ASSUME OffsetsInit
    PROVE  OffsetsReadBack
  BY DEF OffsetsInit, OffsetsReadBack

LEMMA OffsetsNextHolds ==
    ASSUME OffsetsReadBack, OffsetsNext
    PROVE  OffsetsReadBack'
  <1>1. PICK aligned \in BOOLEAN : ReadOffset(aligned)
    BY DEF OffsetsNext
  <1>11. PICK window \in Windows : \E offset \in Offsets[window] :
         LET slot   == SlotOf(offset)
             footer == offset + 2 - position_base[slot]
         IN  match' = [window |-> window, meant |-> offset, slot |-> slot,
                       read |-> IF aligned THEN AlignedOffset(slot, footer)
                                ELSE VerbatimOffset(slot, footer)]
    BY <1>1 DEF ReadOffset
  <1>2. PICK offset \in Offsets[window] :
         LET slot   == SlotOf(offset)
             footer == offset + 2 - position_base[slot]
         IN  match' = [window |-> window, meant |-> offset, slot |-> slot,
                       read |-> IF aligned THEN AlignedOffset(slot, footer)
                                ELSE VerbatimOffset(slot, footer)]
    BY <1>11
  <1> DEFINE s == SlotOf(offset)
             footer == offset + 2 - position_base[s]
  <1>3. offset \in 1 .. 2 ^ window - 3
    BY OffsetsAssumption
  <1>4. /\ s \in 3 .. posn_slots(window) - 1
        /\ footer < 2 ^ extra_bits[s]
        /\ VerbatimOffset(s, footer) = offset
        /\ AlignedOffset(s, footer) = offset
    BY <1>3, OffsetComesBack
  <1>5. match' = [window |-> window, meant |-> offset, slot |-> s,
                  read |-> IF aligned THEN AlignedOffset(s, footer)
                           ELSE VerbatimOffset(s, footer)]
    BY <1>2
  <1> HIDE DEF s
  <1>6. match'.read = offset /\ match'.meant = offset /\ match'.slot = s /\ match'.window = window
    BY <1>4, <1>5
  <1>7. QED
    BY <1>4, <1>6 DEF OffsetsReadBack

-----------------------------------------------------------------------------
(* The translation of calls *)

LEMMA CallsSizes ==
    /\ Values \in Nat \ {0} /\ Values >= 2
    /\ AddrLen \in Nat \ {0} /\ Outlen \in Nat /\ NotLooked \in Nat
    /\ NotLooked > AddrLen /\ Outlen > NotLooked
    /\ DataEnd \in Nat /\ DataEnd > 0 /\ DataEnd + AddrLen < Outlen
    /\ CallByte \in 0 .. Values - 1
  <1>1. /\ Values \in Nat \ {0} /\ (Values % 2) = 0 /\ CallByte \in 0 .. Values - 1
        /\ AddrLen \in Nat \ {0} /\ Outlen \in Nat /\ NotLooked \in Nat
        /\ NotLooked > AddrLen /\ Outlen > NotLooked
    BY CallsAssumption
  <1>2. Values >= 2
    BY <1>1
  <1>3. QED
    BY <1>1, <1>2 DEF DataEnd

IsWeight(w) == w = [k \in 0 .. AddrLen |-> IF k = 0 THEN 1 ELSE Values * w[k - 1]]

LEMMA Weights ==
    /\ weight[0] = 1
    /\ \A k \in 0 .. AddrLen : weight[k] \in Nat \ {0}
    /\ \A k \in 1 .. AddrLen : weight[k] = Values * weight[k - 1]
  <1> DEFINE S == Nat \ {0}
             base == 1
             step == [x \in (1 .. AddrLen) \X S |-> Values * x[2]]
  <1>1. step \in [(1 .. AddrLen) \X S -> S]
    <2>1. \A y \in S : Values * y \in S
      BY CallsSizes
    <2>2. QED
      BY <2>1
  <1>2. base \in S
    OBVIOUS
  <1> HIDE DEF S
  <1>3. PICK g \in [0 .. AddrLen -> S] :
              /\ g[0] = base
              /\ \A k \in 1 .. AddrLen : g[k] = step[<<k, g[k - 1]>>]
    <2>1. AddrLen \in Nat
      BY CallsSizes
    <2> HIDE DEF step, base
    <2>2. \E g : Iterates(g, AddrLen, S, base, step)
      BY <1>1, <1>2, <2>1, IterationExists
    <2>3. QED
      BY <2>2 DEF Iterates
  <1>4. \A k \in 1 .. AddrLen : g[k] = Values * g[k - 1]
    <2> TAKE k \in 1 .. AddrLen
    <2>1. k - 1 \in 0 .. AddrLen
      BY CallsSizes
    <2>2. g[k - 1] \in S
      BY <1>3, <2>1
    <2>3. step[<<k, g[k - 1]>>] = Values * g[k - 1]
      BY <2>2
    <2>4. QED
      BY <1>3, <2>3
  <1>5. IsWeight(g)
    <2>1. ASSUME NEW k \in 0 .. AddrLen
          PROVE  g[k] = IF k = 0 THEN 1 ELSE Values * g[k - 1]
      <3>1. k = 0 \/ k \in 1 .. AddrLen
        BY CallsSizes
      <3>2. CASE k = 0
        BY <1>3, <3>2
      <3>3. CASE k \in 1 .. AddrLen
        <4>1. g[k] = Values * g[k - 1] /\ k # 0
          BY <1>4, <3>3
        <4>2. QED
          BY <4>1
      <3>4. QED
        BY <3>1, <3>2, <3>3
    <2>2. QED
      BY <1>3, <2>1 DEF IsWeight
  <1>6. IsWeight(weight)
    <2>1. weight = CHOOSE w : IsWeight(w)
      BY DEF weight, IsWeight
    <2>2. QED
      BY <1>5, <2>1
  <1>7. 0 \in 0 .. AddrLen /\ \A k \in 1 .. AddrLen : k \in 0 .. AddrLen /\ k # 0
    BY CallsSizes
  <1>8. weight[0] = 1 /\ \A k \in 1 .. AddrLen : weight[k] = Values * weight[k - 1]
    BY <1>6, <1>7 DEF IsWeight
  <1> DEFINE T == {k \in 0 .. AddrLen : weight[k] \in Nat \ {0}}
  <1>9. 0 \in T
    BY <1>7, <1>8
  <1>10. ASSUME NEW k \in 0 .. AddrLen - 1, k \in T
         PROVE  k + 1 \in T
    <2>1. k + 1 \in 1 .. AddrLen /\ (k + 1) - 1 = k /\ k + 1 \in 0 .. AddrLen
      BY CallsSizes
    <2>2. weight[k + 1] = Values * weight[k] /\ weight[k] \in Nat \ {0}
      BY <1>8, <1>10, <2>1
    <2> DEFINE x == weight[k]
    <2> HIDE DEF x
    <2>3. x \in Nat \ {0} /\ weight[k + 1] = Values * x
      BY <2>2 DEF x
    <2>4. Values * x \in Nat \ {0}
      BY <2>3, CallsSizes
    <2>5. QED
      BY <2>1, <2>3, <2>4
  <1> HIDE DEF T
  <1>11. AddrLen \in Nat
    BY CallsSizes
  <1>12. \A k \in 0 .. AddrLen : k \in T
    BY <1>9, <1>10, <1>11, UpTo
  <1>13. QED
    BY <1>8, <1>12 DEF T

\* v sums up what the bytes d count.
Adds(v, d) ==
    /\ v \in [0 .. AddrLen -> Nat]
    /\ v[0] = 0
    /\ \A k \in 1 .. AddrLen : v[k] = v[k - 1] + d[k - 1] * weight[k - 1]

BytesOfAddress == [0 .. AddrLen - 1 -> 0 .. Values - 1]

LEMMA NonlinearFacts ==
    ASSUME NEW x \in Nat, NEW w \in Nat \ {0}, x < w, NEW n \in Nat \ {0}, NEW b \in 0 .. n - 1
    PROVE  b * w \in Nat /\ x + b * w < n * w
  <1>1. b * w \in Nat
    OBVIOUS
  <1>2. (n - 1) * w = n * w - w /\ n * w \in Nat
    OBVIOUS
  <1>3. b * w <= (n - 1) * w
    OBVIOUS
  <1> DEFINE y == b * w
             z == n * w
  <1> HIDE DEF y, z
  <1>4. x + y < z
    BY <1>1, <1>2, <1>3 DEF y, z
  <1>5. QED
    BY <1>1, <1>4 DEF y, z

\* One step of the sum, with names for its parts.
LEMMA AddsStep ==
    ASSUME NEW d \in BytesOfAddress, NEW v, Adds(v, d), NEW k \in 0 .. AddrLen - 1
    PROVE  /\ v[k + 1] = v[k] + d[k] * weight[k]
           /\ weight[k + 1] = Values * weight[k]
           /\ v[k] \in Nat /\ d[k] \in 0 .. Values - 1 /\ weight[k] \in Nat \ {0}
           /\ k + 1 \in 1 .. AddrLen /\ k \in 0 .. AddrLen /\ k + 1 \in 0 .. AddrLen
  <1>1. k + 1 \in 1 .. AddrLen /\ (k + 1) - 1 = k /\ k \in 0 .. AddrLen /\ k + 1 \in 0 .. AddrLen
    BY CallsSizes
  <1>2. v[k + 1] = v[k] + d[k] * weight[k] /\ v[k] \in Nat
    BY <1>1 DEF Adds
  <1>3. weight[k + 1] = Values * weight[k] /\ weight[k] \in Nat \ {0}
    BY <1>1, Weights
  <1>4. d[k] \in 0 .. Values - 1
    BY DEF BytesOfAddress
  <1>5. QED
    BY <1>1, <1>2, <1>3, <1>4

LEMMA SumsBelowWeight ==
    ASSUME NEW d \in BytesOfAddress, NEW v, Adds(v, d), NEW k \in 0 .. AddrLen
    PROVE  v[k] < weight[k]
  <1> DEFINE T == {j \in 0 .. AddrLen : v[j] < weight[j]}
  <1>1. 0 \in T
    <2>1. 0 \in 0 .. AddrLen /\ v[0] = 0 /\ weight[0] = 1
      BY Weights, CallsSizes DEF Adds
    <2>2. QED
      BY <2>1
  <1>2. ASSUME NEW j \in 0 .. AddrLen - 1, j \in T
        PROVE  j + 1 \in T
    <2>1. /\ v[j + 1] = v[j] + d[j] * weight[j]
          /\ weight[j + 1] = Values * weight[j]
          /\ v[j] \in Nat /\ d[j] \in 0 .. Values - 1 /\ weight[j] \in Nat \ {0}
          /\ j + 1 \in 0 .. AddrLen
      BY AddsStep
    <2>2. v[j] < weight[j]
      BY <1>2
    <2>3. v[j] + d[j] * weight[j] < Values * weight[j]
      BY <2>1, <2>2, CallsSizes, NonlinearFacts
    <2>4. QED
      BY <2>1, <2>3
  <1> HIDE DEF T
  <1>3. AddrLen \in Nat
    BY CallsSizes
  <1>4. \A j \in 0 .. AddrLen : j \in T
    BY <1>1, <1>2, <1>3, UpTo
  <1>5. QED
    BY <1>4 DEF T

\* What is added behind byte j counts whole multiples of the next weight.
LEMMA SumsAgree ==
    ASSUME NEW d \in BytesOfAddress, NEW v, Adds(v, d), NEW j \in 0 .. AddrLen
    PROVE  \A n \in 0 .. AddrLen - j :
             \E m \in Nat, q \in Nat : /\ weight[j + n] = weight[j] * q
                                       /\ v[j + n] = weight[j] * m + v[j]
  <1> DEFINE T == {n \in 0 .. AddrLen - j :
             \E m \in Nat, q \in Nat : /\ weight[j + n] = weight[j] * q
                                       /\ v[j + n] = weight[j] * m + v[j]}
  <1>0. AddrLen - j \in Nat /\ weight[j] \in Nat \ {0} /\ v[j] \in Nat
    BY CallsSizes, Weights DEF Adds
  <1>1. 0 \in T
    <2>1. j + 0 = j /\ 0 \in 0 .. AddrLen - j
      BY <1>0
    <2>2. weight[j] = weight[j] * 1 /\ v[j] = weight[j] * 0 + v[j]
      BY <1>0
    <2>3. QED
      BY <2>1, <2>2
  <1>2. ASSUME NEW n \in 0 .. (AddrLen - j) - 1, n \in T
        PROVE  n + 1 \in T
    <2>1. PICK m \in Nat, q \in Nat : /\ weight[j + n] = weight[j] * q
                                      /\ v[j + n] = weight[j] * m + v[j]
      BY <1>2
    <2>2. j + n \in 0 .. AddrLen - 1 /\ (j + n) + 1 = j + (n + 1) /\ n + 1 \in 0 .. AddrLen - j
      BY <1>0, CallsSizes
    <2>3. /\ v[j + (n + 1)] = v[j + n] + d[j + n] * weight[j + n]
          /\ weight[j + (n + 1)] = Values * weight[j + n]
          /\ d[j + n] \in 0 .. Values - 1
      BY <2>2, AddsStep
    <2> DEFINE w == weight[j]
               b == d[j + n]
               a == v[j]
    <2>4. w \in Nat /\ b \in Nat /\ a \in Nat /\ Values \in Nat
      BY <1>0, <2>3, CallsSizes
    <2> HIDE DEF w, b, a
    <2>5. /\ v[j + (n + 1)] = (w * m + a) + b * (w * q)
          /\ weight[j + (n + 1)] = Values * (w * q)
      BY <2>1, <2>3 DEF w, b, a
    <2>6. (w * m + a) + b * (w * q) = w * (m + b * q) + a /\ m + b * q \in Nat
      BY <2>4
    <2>7. Values * (w * q) = w * (Values * q) /\ Values * q \in Nat
      BY <2>4
    <2>8. /\ v[j + (n + 1)] = w * (m + b * q) + a
          /\ weight[j + (n + 1)] = w * (Values * q)
      BY <2>5, <2>6, <2>7
    <2>9. QED
      BY <2>2, <2>6, <2>7, <2>8 DEF w, a
  <1> HIDE DEF T
  <1>3. \A n \in 0 .. AddrLen - j : n \in T
    BY <1>0, <1>1, <1>2, UpTo
  <1>4. QED
    BY <1>3 DEF T

\* The bytes of a sum are those that were summed up.
LEMMA DigitsRead ==
    ASSUME NEW d \in BytesOfAddress, NEW v, Adds(v, d), NEW j \in 0 .. AddrLen - 1
    PROVE  (v[AddrLen] \div weight[j]) % Values = d[j]
  <1>1. /\ v[j + 1] = v[j] + d[j] * weight[j]
        /\ weight[j + 1] = Values * weight[j]
        /\ v[j] \in Nat /\ d[j] \in 0 .. Values - 1 /\ weight[j] \in Nat \ {0}
        /\ j + 1 \in 0 .. AddrLen /\ j \in 0 .. AddrLen
    BY AddsStep
  <1>2. v[j] < weight[j]
    BY <1>1, SumsBelowWeight
  <1>3. AddrLen - (j + 1) \in 0 .. AddrLen - (j + 1) /\ (j + 1) + (AddrLen - (j + 1)) = AddrLen
    BY CallsSizes
  <1>4. PICK m \in Nat : v[AddrLen] = weight[j + 1] * m + v[j + 1]
    BY <1>1, <1>3, SumsAgree
  <1> DEFINE w == weight[j]
             a == v[j]
             b == d[j]
             x == v[AddrLen]
  <1>5. x \in Nat /\ w \in Nat \ {0} /\ a \in 0 .. w - 1 /\ b \in 0 .. Values - 1
    <2>1. AddrLen \in 0 .. AddrLen
      BY CallsSizes
    <2>2. QED
      BY <1>1, <1>2, <2>1 DEF Adds
  <1>6. x = (Values * w) * m + (a + b * w)
    BY <1>1, <1>4
  <1> HIDE DEF w, a, b, x
  <1>7. Values \in Nat \ {0}
    BY CallsSizes
  <1> DEFINE n == Values
  <1>8. n \in Nat \ {0} /\ b \in 0 .. n - 1 /\ x = (n * w) * m + (a + b * w)
    BY <1>5, <1>6, <1>7
  <1> HIDE DEF n
  <1>9. (n * w) * m + (a + b * w) = w * (n * m + b) + a
    BY <1>5, <1>8
  <1>10. n * m \in Nat /\ n * m + b \in Nat
    BY <1>8
  <1> DEFINE q == n * m + b
  <1>11. x = w * q + a /\ q \in Int /\ q = n * m + b
    BY <1>8, <1>9, <1>10
  <1> HIDE DEF q
  <1>12. x \div w = q
    BY <1>5, <1>11, DivUnique
  <1>13. (q % n) = b
    BY <1>8, <1>11, DivUnique
  <1>14. QED
    BY <1>12, <1>13 DEF w, b, x, n

LEMMA RestOfNumber ==
    ASSUME NEW A \in Nat, NEW w \in Nat \ {0}, NEW n \in Nat \ {0}
    PROVE  A % (n * w) = (A % w) + ((A \div w) % n) * w
  <1> DEFINE q == A \div w
             r == A % w
             c == q \div n
             b == q % n
  <1>1. A = w * q + r /\ q \in Nat /\ r \in 0 .. w - 1
    <2>1. A \in Int
      OBVIOUS
    <2>2. A = w * (A \div w) + (A % w) /\ A % w \in 0 .. w - 1
      BY <2>1, DivFacts
    <2>3. A \div w \in Nat
      BY DivModNat
    <2>4. QED
      BY <2>2, <2>3
  <1>2. q = n * c + b /\ c \in Nat /\ b \in 0 .. n - 1
    <2> HIDE DEF q
    <2>1. q \in Int /\ q \in Nat
      BY <1>1
    <2>2. q = n * (q \div n) + (q % n) /\ q % n \in 0 .. n - 1
      BY <2>1, DivFacts
    <2>3. q \div n \in Nat
      BY <2>1, DivModNat
    <2>4. QED
      BY <2>2, <2>3
  <1> HIDE DEF q, r, c, b
  <1>3. A = w * (n * c + b) + r
    BY <1>1, <1>2
  <1>4. w * (n * c + b) + r = (n * w) * c + (r + b * w)
    BY <1>1, <1>2
  <1>5. b * w \in Nat /\ r + b * w < n * w
    BY <1>1, <1>2, NonlinearFacts
  <1>6. n * w \in Nat \ {0}
    OBVIOUS
  <1> DEFINE z == n * w
             x == r + b * w
  <1>7. x \in 0 .. z - 1 /\ z \in Nat \ {0} /\ A = z * c + x
    <2>1. r + b * w \in Nat
      BY <1>1, <1>5
    <2> DEFINE y == b * w
    <2>2. QED
      BY <1>3, <1>4, <1>5, <1>6, <2>1
  <1> HIDE DEF z, x
  <1>8. (A % z) = x
    BY <1>2, <1>7, DivUnique
  <1>9. QED
    BY <1>8 DEF z, x, r, b, q

\* The sum of the bytes of a number is the number.
LEMMA DigitsWritten ==
    ASSUME NEW d \in BytesOfAddress, NEW v, Adds(v, d), NEW A \in 0 .. AddrRange - 1,
           \A j \in 0 .. AddrLen - 1 : d[j] = (A \div weight[j]) % Values
    PROVE  v[AddrLen] = A
  <1> DEFINE T == {k \in 0 .. AddrLen : v[k] = A % weight[k]}
  <1>0. AddrLen \in Nat /\ AddrLen \in 0 .. AddrLen /\ 0 \in 0 .. AddrLen
    BY CallsSizes
  <1>1. AddrRange \in Nat \ {0} /\ A \in Nat
    BY <1>0, Weights DEF AddrRange
  <1>2. 0 \in T
    <2>1. (A % 1) = 0
      BY <1>1
    <2>2. QED
      BY <1>0, <2>1, Weights DEF Adds
  <1>3. ASSUME NEW k \in 0 .. AddrLen - 1, k \in T
        PROVE  k + 1 \in T
    <2>1. /\ v[k + 1] = v[k] + d[k] * weight[k]
          /\ weight[k + 1] = Values * weight[k]
          /\ weight[k] \in Nat \ {0} /\ k + 1 \in 0 .. AddrLen
      BY AddsStep
    <2>2. v[k] = A % weight[k] /\ d[k] = (A \div weight[k]) % Values
      BY <1>3
    <2>3. A % (Values * weight[k]) = (A % weight[k]) + ((A \div weight[k]) % Values) * weight[k]
      BY <1>1, <2>1, CallsSizes, RestOfNumber
    <2>4. v[k + 1] = A % weight[k + 1]
      BY <2>1, <2>2, <2>3
    <2>5. QED
      BY <2>1, <2>4
  <1> HIDE DEF T
  <1>4. \A k \in 0 .. AddrLen : k \in T
    BY <1>0, <1>2, <1>3, UpTo
  <1>5. v[AddrLen] = A % weight[AddrLen]
    BY <1>0, <1>4 DEF T
  <1>6. (A % AddrRange) = A
    BY <1>1, ModSmall
  <1>7. QED
    BY <1>5, <1>6 DEF AddrRange

IsSum(v, f, p) ==
    v = [k \in 0 .. AddrLen |->
            IF k = 0 THEN 0 ELSE v[k - 1] + f[p + k - 1] * weight[k - 1]]

BytesAt(f, p) == [j \in 0 .. AddrLen - 1 |-> f[p + j]]

LEMMA SumExists ==
    ASSUME NEW f, NEW p \in Nat, BytesAt(f, p) \in BytesOfAddress
    PROVE  \E v : IsSum(v, f, p) /\ Adds(v, BytesAt(f, p))
  <1> DEFINE d == BytesAt(f, p)
             S == Nat
             base == 0
             step == [x \in (1 .. AddrLen) \X S |-> x[2] + d[x[1] - 1] * weight[x[1] - 1]]
  <1>1. AddrLen \in Nat /\ base \in S
    BY CallsSizes
  <1>2. ASSUME NEW k \in 1 .. AddrLen
        PROVE  /\ k - 1 \in 0 .. AddrLen - 1 /\ k - 1 \in 0 .. AddrLen
               /\ d[k - 1] * weight[k - 1] \in Nat /\ d[k - 1] = f[p + k - 1]
    <2>1. k - 1 \in 0 .. AddrLen - 1 /\ k - 1 \in 0 .. AddrLen /\ p + (k - 1) = p + k - 1
      BY <1>1
    <2>2. weight[k - 1] \in Nat
      BY <2>1, Weights
    <2>3. d[k - 1] \in 0 .. Values - 1
      BY <2>1 DEF BytesOfAddress
    <2>4. d[k - 1] = f[p + (k - 1)]
      BY <2>1 DEF BytesAt
    <2>5. d[k - 1] \in Nat
      BY <2>3, CallsSizes
    <2> HIDE DEF d
    <2>6. d[k - 1] * weight[k - 1] \in Nat
      BY <2>2, <2>5
    <2>7. QED
      BY <2>1, <2>4, <2>6
  <1> HIDE DEF d
  <1>3. step \in [(1 .. AddrLen) \X S -> S]
    <2>1. \A x \in (1 .. AddrLen) \X S : x[1] \in 1 .. AddrLen /\ x[2] \in Nat
      OBVIOUS
    <2>2. \A x \in (1 .. AddrLen) \X S : d[x[1] - 1] * weight[x[1] - 1] \in Nat
      BY <1>2, <2>1
    <2>3. \A x \in (1 .. AddrLen) \X S : x[2] + d[x[1] - 1] * weight[x[1] - 1] \in S
      BY <2>1, <2>2
    <2>4. QED
      BY <2>3
  <1>4. PICK g : Iterates(g, AddrLen, S, base, step)
    <2> HIDE DEF S, base, step
    <2>1. QED
      BY <1>1, <1>3, IterationExists
  <1>5. g \in [0 .. AddrLen -> Nat] /\ g[0] = 0
    BY <1>4 DEF Iterates
  <1>6. ASSUME NEW k \in 1 .. AddrLen
        PROVE  g[k] = g[k - 1] + d[k - 1] * weight[k - 1]
    <2>1. k - 1 \in 0 .. AddrLen /\ g[k - 1] \in S
      BY <1>2, <1>5
    <2>2. g[k] = step[<<k, g[k - 1]>>]
      BY <1>4 DEF Iterates
    <2>3. <<k, g[k - 1]>> \in (1 .. AddrLen) \X S
      BY <2>1
    <2>4. step[<<k, g[k - 1]>>] = g[k - 1] + d[k - 1] * weight[k - 1]
      BY <2>3
    <2>5. QED
      BY <2>2, <2>4
  <1>7. Adds(g, d)
    BY <1>5, <1>6 DEF Adds
  <1>8. IsSum(g, f, p)
    <2>1. ASSUME NEW k \in 0 .. AddrLen
          PROVE  g[k] = IF k = 0 THEN 0 ELSE g[k - 1] + f[p + k - 1] * weight[k - 1]
      <3>1. CASE k = 0
        BY <1>5, <3>1
      <3>2. CASE k # 0
        <4>1. k \in 1 .. AddrLen
          BY <1>1, <3>2
        <4>2. g[k] = g[k - 1] + d[k - 1] * weight[k - 1] /\ d[k - 1] = f[p + k - 1]
          BY <1>2, <1>6, <4>1
        <4>3. QED
          BY <3>2, <4>2
      <3>3. QED
        BY <3>1, <3>2
    <2>2. QED
      BY <1>5, <2>1 DEF IsSum
  <1>9. QED
    BY <1>7, <1>8 DEF d

\* A sum is what its definition says, whichever function CHOOSE takes.
LEMMA SumAdds ==
    ASSUME NEW f, NEW p \in Nat, BytesAt(f, p) \in BytesOfAddress, NEW v, IsSum(v, f, p)
    PROVE  Adds(v, BytesAt(f, p))
  <1> DEFINE d == BytesAt(f, p)
             T == {k \in 0 .. AddrLen : v[k] \in Nat}
  <1>1. AddrLen \in Nat /\ 0 \in 0 .. AddrLen
    BY CallsSizes
  <1>2. v[0] = 0
    BY <1>1 DEF IsSum
  <1>3. ASSUME NEW k \in 1 .. AddrLen
        PROVE  /\ v[k] = v[k - 1] + d[k - 1] * weight[k - 1]
               /\ d[k - 1] * weight[k - 1] \in Nat
    <2>1. k - 1 \in 0 .. AddrLen - 1 /\ k - 1 \in 0 .. AddrLen /\ p + (k - 1) = p + k - 1
          /\ k \in 0 .. AddrLen /\ k # 0
      BY <1>1
    <2>2. v[k] = v[k - 1] + f[p + k - 1] * weight[k - 1]
      BY <2>1 DEF IsSum
    <2>3. weight[k - 1] \in Nat
      BY <2>1, Weights
    <2>4. d[k - 1] \in 0 .. Values - 1
      BY <2>1 DEF BytesOfAddress
    <2>5. d[k - 1] = f[p + (k - 1)]
      BY <2>1 DEF BytesAt
    <2>6. d[k - 1] \in Nat
      BY <2>4, CallsSizes
    <2> HIDE DEF d
    <2>7. d[k - 1] * weight[k - 1] \in Nat
      BY <2>3, <2>6
    <2>8. QED
      BY <2>1, <2>2, <2>5, <2>7
  <1>4. 0 \in T
    BY <1>1, <1>2
  <1>5. ASSUME NEW k \in 0 .. AddrLen - 1, k \in T
        PROVE  k + 1 \in T
    <2>1. k + 1 \in 1 .. AddrLen /\ (k + 1) - 1 = k /\ k + 1 \in 0 .. AddrLen
      BY <1>1
    <2> DEFINE z == d[k] * weight[k]
    <2>2. v[k + 1] = v[k] + z /\ z \in Nat
      BY <1>3, <2>1
    <2> HIDE DEF z
    <2>3. v[k] \in Nat
      BY <1>5
    <2>4. QED
      BY <2>1, <2>2, <2>3
  <1> HIDE DEF T
  <1>6. \A k \in 0 .. AddrLen : k \in T
    BY <1>1, <1>4, <1>5, UpTo
  <1>7. v \in [0 .. AddrLen -> Nat]
    <2>1. \A k \in 0 .. AddrLen : v[k] \in Nat
      BY <1>6 DEF T
    <2>2. v = [k \in 0 .. AddrLen |->
            IF k = 0 THEN 0 ELSE v[k - 1] + f[p + k - 1] * weight[k - 1]]
      BY DEF IsSum
    <2>3. DOMAIN v = 0 .. AddrLen /\ v = [k \in DOMAIN v |-> v[k]]
      BY <2>2
    <2>4. QED
      BY <2>1, <2>3
  <1> HIDE DEF d
  <1>8. Adds(v, d)
    BY <1>2, <1>3, <1>7 DEF Adds
  <1>9. QED
    BY <1>8 DEF d

LEMMA AddressIsSum ==
    ASSUME NEW f, NEW p \in Nat, BytesAt(f, p) \in BytesOfAddress
    PROVE  \E v : /\ Adds(v, BytesAt(f, p))
                  /\ v[AddrLen] \in 0 .. AddrRange - 1
                  /\ AddressAt(f, p) = IF 2 * v[AddrLen] >= AddrRange
                                       THEN v[AddrLen] - AddrRange ELSE v[AddrLen]
  <1> DEFINE v == CHOOSE x : IsSum(x, f, p)
  <1>1. IsSum(v, f, p)
    BY SumExists
  <1>2. AddressAt(f, p) = IF 2 * v[AddrLen] >= AddrRange
                          THEN v[AddrLen] - AddrRange ELSE v[AddrLen]
    BY DEF AddressAt, IsSum
  <1> HIDE DEF v
  <1>3. Adds(v, BytesAt(f, p))
    BY <1>1, SumAdds
  <1>4. AddrLen \in 0 .. AddrLen
    BY CallsSizes
  <1>5. v[AddrLen] < AddrRange /\ v[AddrLen] \in Nat /\ AddrRange \in Nat
    BY <1>3, <1>4, SumsBelowWeight, Weights DEF AddrRange, Adds
  <1>6. QED
    BY <1>2, <1>3, <1>5

LEMMA RangeType == AddrRange \in Nat \ {0}
  <1>1. AddrLen \in 0 .. AddrLen
    BY CallsSizes
  <1>2. QED
    BY <1>1, Weights DEF AddrRange

\* An address depends on its bytes alone.
LEMMA SameBytes ==
    ASSUME NEW f, NEW g, NEW p \in Nat,
           \A j \in 0 .. AddrLen - 1 : f[p + j] = g[p + j]
    PROVE  AddressAt(f, p) = AddressAt(g, p)
  <1>1. ASSUME NEW v PROVE IsSum(v, f, p) <=> IsSum(v, g, p)
    <2>1. ASSUME NEW k \in 0 .. AddrLen
          PROVE  (IF k = 0 THEN 0 ELSE v[k - 1] + f[p + k - 1] * weight[k - 1])
                   = (IF k = 0 THEN 0 ELSE v[k - 1] + g[p + k - 1] * weight[k - 1])
      <3>1. CASE k = 0
        BY <3>1
      <3>2. CASE k # 0
        <4>1. k - 1 \in 0 .. AddrLen - 1 /\ p + (k - 1) = p + k - 1
          BY <3>2, CallsSizes
        <4>2. f[p + k - 1] = g[p + k - 1]
          BY <4>1
        <4>3. QED
          BY <4>2
      <3>3. QED
        BY <3>1, <3>2
    <2>2. QED
      BY <2>1 DEF IsSum
  <1> DEFINE v == CHOOSE x : IsSum(x, f, p)
             w == CHOOSE x : IsSum(x, g, p)
  <1>2. v = w
    BY <1>1
  <1>3. /\ AddressAt(f, p) = IF 2 * v[AddrLen] >= AddrRange
                             THEN v[AddrLen] - AddrRange ELSE v[AddrLen]
        /\ AddressAt(g, p) = IF 2 * w[AddrLen] >= AddrRange
                             THEN w[AddrLen] - AddrRange ELSE w[AddrLen]
    BY DEF AddressAt, IsSum
  <1> HIDE DEF v, w
  <1>4. QED
    BY <1>2, <1>3

Signed(a) == a \in Int /\ - AddrRange <= 2 * a /\ 2 * a < AddrRange

\* An address is read as a signed number whose bytes are those it was read
\* from.
LEMMA AddressRead ==
    ASSUME NEW f, NEW p \in Nat, BytesAt(f, p) \in BytesOfAddress
    PROVE  /\ Signed(AddressAt(f, p))
           /\ \A j \in 0 .. AddrLen - 1 :
                ((AddressAt(f, p) % AddrRange) \div weight[j]) % Values = f[p + j]
  <1> DEFINE a == AddressAt(f, p)
             r == AddrRange
  <1>1. PICK v : /\ Adds(v, BytesAt(f, p))
                 /\ v[AddrLen] \in 0 .. AddrRange - 1
                 /\ AddressAt(f, p) = IF 2 * v[AddrLen] >= AddrRange
                                       THEN v[AddrLen] - AddrRange ELSE v[AddrLen]
    BY AddressIsSum
  <1> DEFINE x == v[AddrLen]
  <1>2. r \in Nat \ {0}
    BY RangeType
  <1>3. x \in 0 .. r - 1 /\ a = IF 2 * x >= r THEN x - r ELSE x
    BY <1>1
  <1> HIDE DEF x, a, r
  <1>4. a \in Int /\ - r <= 2 * a /\ 2 * a < r
    BY <1>2, <1>3
  <1>5. (x % r) = x
    BY <1>2, <1>3, ModSmall
  <1>6. ((x - r) % r) = (x % r)
    <2>1. x \in Int
      BY <1>2, <1>3
    <2>2. QED
      BY <1>2, <2>1, ModOfSum
  <1>7. (a % r) = x
    BY <1>3, <1>5, <1>6
  <1>8. ASSUME NEW j \in 0 .. AddrLen - 1
        PROVE  ((a % r) \div weight[j]) % Values = f[p + j]
    <2>1. ((x \div weight[j]) % Values) = BytesAt(f, p)[j]
      BY <1>1, DigitsRead DEF x
    <2>2. BytesAt(f, p)[j] = f[p + j]
      BY DEF BytesAt
    <2>3. QED
      BY <1>7, <2>1, <2>2
  <1>9. QED
    BY <1>4, <1>8 DEF a, r, Signed

Frames == [0 .. Outlen - 1 -> 0 .. Values - 1]

LEMMA BytesOfFrame ==
    ASSUME NEW f \in Frames, NEW p \in Nat, p + AddrLen <= Outlen
    PROVE  BytesAt(f, p) \in BytesOfAddress
  <1>1. \A j \in 0 .. AddrLen - 1 : p + j \in 0 .. Outlen - 1
    BY CallsSizes
  <1>2. QED
    BY <1>1 DEF BytesAt, BytesOfAddress, Frames

LEMMA FramesWithAddress ==
    ASSUME NEW f \in Frames, NEW p \in Nat, p + AddrLen <= Outlen, NEW a \in Int
    PROVE  /\ WithAddress(f, p, a) \in Frames
           /\ \A q \in 0 .. Outlen - 1 :
                WithAddress(f, p, a)[q] =
                  IF q - p \in 0 .. AddrLen - 1
                  THEN ((a % AddrRange) \div weight[q - p]) % Values ELSE f[q]
  <1> DEFINE g == WithAddress(f, p, a)
             x == a % AddrRange
  <1>1. DOMAIN f = 0 .. Outlen - 1 /\ \A q \in 0 .. Outlen - 1 : f[q] \in 0 .. Values - 1
    BY DEF Frames
  <1>2. g = [q \in 0 .. Outlen - 1 |-> IF q - p \in 0 .. AddrLen - 1
                  THEN (x \div weight[q - p]) % Values ELSE f[q]]
    BY <1>1 DEF WithAddress
  <1>3. x \in Nat
    BY RangeType, ModRange
  <1> HIDE DEF x, g
  <1>4. ASSUME NEW j \in 0 .. AddrLen - 1
        PROVE  (x \div weight[j]) % Values \in 0 .. Values - 1
    <2>1. weight[j] \in Nat \ {0}
      BY Weights, CallsSizes
    <2> DEFINE y == x \div weight[j]
    <2>2. y \in Int
      BY <1>3, <2>1, DivModNat
    <2> HIDE DEF y
    <2>3. y % Values \in 0 .. Values - 1
      BY <2>2, CallsSizes, ModRange
    <2>4. QED
      BY <2>3 DEF y
  <1>5. \A q \in 0 .. Outlen - 1 : g[q] = IF q - p \in 0 .. AddrLen - 1
                  THEN (x \div weight[q - p]) % Values ELSE f[q]
    BY <1>2
  <1>6. \A q \in 0 .. Outlen - 1 : g[q] \in 0 .. Values - 1
    BY <1>1, <1>4, <1>5
  <1>7. g \in Frames
    BY <1>2, <1>6 DEF Frames
  <1>8. QED
    BY <1>5, <1>7 DEF g, x

LEMMA AddressElsewhere ==
    ASSUME NEW f \in Frames, NEW p \in Nat, p + AddrLen <= Outlen, NEW a, Signed(a)
    PROVE  \A q \in 0 .. Outlen - 1 :
              ~(q - p \in 0 .. AddrLen - 1) => WithAddress(f, p, a)[q] = f[q]
  <1>1. a \in Int
    BY DEF Signed
  <1>2. QED
    BY <1>1, FramesWithAddress

\* What is written is what is read.
LEMMA AddressWritten ==
    ASSUME NEW f \in Frames, NEW p \in Nat, p + AddrLen <= Outlen, NEW a, Signed(a)
    PROVE  AddressAt(WithAddress(f, p, a), p) = a
  <1> DEFINE g == WithAddress(f, p, a)
             r == AddrRange
             x == a % r
  <1>0. a \in Int /\ - r <= 2 * a /\ 2 * a < r /\ r \in Nat \ {0}
    BY RangeType DEF Signed
  <1>1. g \in Frames /\ \A q \in 0 .. Outlen - 1 : g[q] =
                  IF q - p \in 0 .. AddrLen - 1
                  THEN (x \div weight[q - p]) % Values ELSE f[q]
    BY <1>0, FramesWithAddress
  <1> HIDE DEF g
  <1>2. BytesAt(g, p) \in BytesOfAddress
    BY <1>1, BytesOfFrame
  <1>3. PICK v : /\ Adds(v, BytesAt(g, p))
                 /\ v[AddrLen] \in 0 .. AddrRange - 1
                 /\ AddressAt(g, p) = IF 2 * v[AddrLen] >= AddrRange
                                       THEN v[AddrLen] - AddrRange ELSE v[AddrLen]
    BY <1>2, AddressIsSum
  <1>4. x \in 0 .. AddrRange - 1
    BY <1>0, ModRange
  <1>5. ASSUME NEW j \in 0 .. AddrLen - 1
        PROVE  BytesAt(g, p)[j] = (x \div weight[j]) % Values
    <2>1. p + j \in 0 .. Outlen - 1 /\ (p + j) - p = j /\ (p + j) - p \in 0 .. AddrLen - 1
      BY CallsSizes
    <2>2. g[p + j] = (x \div weight[j]) % Values
      BY <1>1, <2>1
    <2>3. QED
      BY <2>2 DEF BytesAt
  <1> HIDE DEF x
  <1>6. v[AddrLen] = x
    BY <1>2, <1>3, <1>4, <1>5, DigitsWritten
  <1>7. AddressAt(g, p) = IF 2 * x >= r THEN x - r ELSE x
    BY <1>3, <1>6
  <1> HIDE DEF r
  <1>8. x = IF a >= 0 THEN a ELSE a + r
    <2>1. CASE a >= 0
      <3>1. a \in 0 .. r - 1
        BY <1>0, <2>1
      <3>2. QED
        BY <1>0, <2>1, <3>1, ModSmall DEF x
    <2>2. CASE ~(a >= 0)
      <3>1. a + r \in 0 .. r - 1
        BY <1>0, <2>2
      <3>2. ((a + r) % r) = a + r
        BY <1>0, <3>1, ModSmall
      <3>3. ((a + r) % r) = (a % r)
        BY <1>0, ModOfSum
      <3>4. QED
        BY <2>2, <3>2, <3>3 DEF x
    <2>3. QED
      BY <2>1, <2>2
  <1>9. AddressAt(g, p) = a
    BY <1>0, <1>7, <1>8
  <1>10. QED
    BY <1>9 DEF g

-----------------------------------------------------------------------------
(* Encoder and decoder *)

LEMMA OffsetRoundTrip ==
    ASSUME NEW a, Signed(a), NEW posn \in Nat, 2 * posn <= AddrRange,
           filesize \in Nat \ {0}, 2 * filesize < AddrRange
    PROVE  LET A == Absolute(a, posn)
           IN  /\ Signed(A)
               /\ A >= - posn /\ A < filesize =>
                     (IF A >= 0 THEN A - posn ELSE A + filesize) = a
               /\ ~(A >= - posn /\ A < filesize) => A = a
  <1> DEFINE r == AddrRange
             A == Absolute(a, posn)
             size == filesize
  <1>1. /\ a \in Int /\ - r <= 2 * a /\ 2 * a < r /\ r \in Nat
        /\ size \in Nat \ {0} /\ 2 * size < r /\ 2 * posn <= r
    BY RangeType DEF Signed
  <1>2. A = IF a >= - posn /\ a < size
            THEN IF a + posn < size THEN a + posn ELSE a - size ELSE a
    BY DEF Absolute
  <1> HIDE DEF A, r, size
  <1>3. A \in Int /\ - r <= 2 * A /\ 2 * A < r
    BY <1>1, <1>2
  <1>4. A >= - posn /\ A < size => (IF A >= 0 THEN A - posn ELSE A + size) = a
    BY <1>1, <1>2
  <1>5. ~(A >= - posn /\ A < size) => A = a
    BY <1>1, <1>2
  <1>6. QED
    BY <1>3, <1>4, <1>5 DEF A, r, size, Signed

EncStep(s) ==
    IF s.at >= Outlen - NotLooked THEN s
    ELSE IF s.f[s.at] # CallByte THEN [s EXCEPT !.at = @ + 1]
    ELSE [f |-> WithAddress(s.f, s.at + 1,
                   Absolute(AddressAt(s.f, s.at + 1), start + s.at)),
          at |-> s.at + 1 + AddrLen]

IsEncoding(u) ==
    u = [k \in 0 .. Outlen |->
            IF k = 0 THEN [f |-> original, at |-> 0]
            ELSE LET s == u[k - 1]
                 IN  IF s.at >= Outlen - NotLooked THEN s
                     ELSE IF s.f[s.at] # CallByte THEN [s EXCEPT !.at = @ + 1]
                     ELSE [f |-> WithAddress(s.f, s.at + 1,
                                    Absolute(AddressAt(s.f, s.at + 1), start + s.at)),
                           at |-> s.at + 1 + AddrLen]]

EncStates == [f : Frames, at : 0 .. Outlen - 1]

CallsParams ==
    /\ original \in Frames
    /\ start \in Nat /\ \A k \in 0 .. DataEnd - 1 : 2 * (start + k) <= AddrRange
    /\ filesize \in Nat \ {0} /\ 2 * filesize < AddrRange

\* What the encoder does to one byte or one call.
LEMMA EncStepDoes ==
    ASSUME CallsParams, NEW s \in EncStates
    PROVE  /\ EncStep(s) \in EncStates
           /\ s.at >= DataEnd => EncStep(s) = s
           /\ s.at < DataEnd /\ s.f[s.at] # CallByte =>
                 EncStep(s).f = s.f /\ EncStep(s).at = s.at + 1
           /\ s.at < DataEnd /\ s.f[s.at] = CallByte =>
                 /\ EncStep(s).at = s.at + 1 + AddrLen
                 /\ EncStep(s).f = WithAddress(s.f, s.at + 1,
                        Absolute(AddressAt(s.f, s.at + 1), start + s.at))
                 /\ Signed(AddressAt(s.f, s.at + 1))
                 /\ Signed(Absolute(AddressAt(s.f, s.at + 1), start + s.at))
                 /\ 2 * (start + s.at) <= AddrRange
                 /\ \A j \in 0 .. AddrLen - 1 :
                      ((AddressAt(s.f, s.at + 1) % AddrRange) \div weight[j]) % Values
                        = s.f[s.at + 1 + j]
  <1>0. /\ s.f \in Frames /\ s.at \in 0 .. Outlen - 1 /\ s.at \in Nat
        /\ s = [f |-> s.f, at |-> s.at] /\ DataEnd = Outlen - NotLooked /\ DataEnd \in Nat
    BY CallsSizes DEF EncStates, DataEnd
  <1>1. CASE s.at >= DataEnd
    BY <1>0, <1>1 DEF EncStep
  <1>2. CASE s.at < DataEnd /\ s.f[s.at] # CallByte
    <2>1. EncStep(s) = [f |-> s.f, at |-> s.at + 1]
      BY <1>0, <1>2 DEF EncStep
    <2>2. s.at + 1 \in 0 .. Outlen - 1
      BY <1>0, <1>2, CallsSizes
    <2>3. QED
      BY <1>0, <1>2, <2>1, <2>2 DEF EncStates
  <1>3. CASE s.at < DataEnd /\ s.f[s.at] = CallByte
    <2> DEFINE p == s.at + 1
               a == AddressAt(s.f, p)
               posn == start + s.at
               A == Absolute(a, posn)
    <2>1. p \in Nat /\ p + AddrLen <= Outlen /\ s.at + 1 + AddrLen \in 0 .. Outlen - 1
      BY <1>0, <1>3, CallsSizes
    <2>2. EncStep(s) = [f |-> WithAddress(s.f, p, A), at |-> s.at + 1 + AddrLen]
      BY <1>0, <1>3 DEF EncStep
    <2>3. BytesAt(s.f, p) \in BytesOfAddress
      BY <1>0, <2>1, BytesOfFrame
    <2>4. Signed(a) /\ \A j \in 0 .. AddrLen - 1 :
                ((a % AddrRange) \div weight[j]) % Values = s.f[p + j]
      BY <2>1, <2>3, AddressRead
    <2>5. posn \in Nat /\ 2 * posn <= AddrRange
      <3>1. s.at \in 0 .. DataEnd - 1
        BY <1>0, <1>3, CallsSizes
      <3>2. QED
        BY <1>0, <3>1 DEF CallsParams
    <2> HIDE DEF a, posn
    <2>6. Signed(A)
      BY <2>4, <2>5, OffsetRoundTrip DEF CallsParams
    <2> HIDE DEF A, p
    <2>7. WithAddress(s.f, p, A) \in Frames
      BY <1>0, <2>1, <2>6, FramesWithAddress DEF Signed
    <2>8. EncStep(s) \in EncStates
      BY <2>1, <2>2, <2>7 DEF EncStates
    <2>9. EncStep(s).at = s.at + 1 + AddrLen /\ EncStep(s).f = WithAddress(s.f, p, A)
      BY <2>2
    <2>10. ~(s.at >= DataEnd)
      BY <1>0, <1>3, CallsSizes
    <2>11. QED
      BY <1>3, <2>4, <2>5, <2>6, <2>8, <2>9, <2>10 DEF p, a, posn, A
  <1>4. s.at >= DataEnd \/ s.at < DataEnd
    BY <1>0, CallsSizes
  <1>5. QED
    BY <1>1, <1>2, <1>3, <1>4

LEMMA EncodingSteps ==
    ASSUME NEW u, IsEncoding(u)
    PROVE  /\ u[0] = [f |-> original, at |-> 0]
           /\ \A k \in 1 .. Outlen : u[k] = EncStep(u[k - 1])
  <1>1. 0 \in 0 .. Outlen /\ \A k \in 1 .. Outlen : k \in 0 .. Outlen /\ k # 0
    BY CallsSizes
  <1>2. u[0] = [f |-> original, at |-> 0]
    BY <1>1 DEF IsEncoding
  <1>3. ASSUME NEW k \in 1 .. Outlen PROVE u[k] = EncStep(u[k - 1])
    BY <1>1 DEF IsEncoding, EncStep
  <1>4. QED
    BY <1>2, <1>3

LEMMA EncodingExists ==
    ASSUME CallsParams
    PROVE  \E u : IsEncoding(u)
  <1> DEFINE S == EncStates
             base == [f |-> original, at |-> 0]
             step == [x \in (1 .. Outlen) \X S |-> EncStep(x[2])]
  <1>1. base \in S
    <2>1. 0 \in 0 .. Outlen - 1
      BY CallsSizes
    <2>2. QED
      BY <2>1 DEF EncStates, CallsParams
  <1>2. step \in [(1 .. Outlen) \X S -> S]
    <2>1. \A s \in S : EncStep(s) \in S
      BY EncStepDoes
    <2>2. QED
      BY <2>1
  <1>3. Outlen \in Nat
    BY CallsSizes
  <1>4. PICK g : Iterates(g, Outlen, S, base, step)
    <2> HIDE DEF S, base, step
    <2>1. QED
      BY <1>1, <1>2, <1>3, IterationExists
  <1>5. g \in [0 .. Outlen -> S] /\ g[0] = base
    BY <1>4 DEF Iterates
  <1>6. ASSUME NEW k \in 1 .. Outlen
        PROVE  g[k] = EncStep(g[k - 1])
    <2>1. k - 1 \in 0 .. Outlen
      BY <1>3
    <2>2. <<k, g[k - 1]>> \in (1 .. Outlen) \X S
      BY <1>5, <2>1
    <2>3. g[k] = step[<<k, g[k - 1]>>]
      BY <1>4 DEF Iterates
    <2>4. step[<<k, g[k - 1]>>] = EncStep(g[k - 1])
      <3> HIDE DEF S
      <3>1. QED
        BY <2>2
    <2>5. QED
      BY <2>3, <2>4
  <1>7. ASSUME NEW k \in 0 .. Outlen
        PROVE  g[k] = IF k = 0 THEN base ELSE EncStep(g[k - 1])
    <2>1. k = 0 \/ k \in 1 .. Outlen
      BY <1>3
    <2>2. k \in 1 .. Outlen => k # 0
      BY <1>3
    <2> HIDE DEF base
    <2>3. QED
      BY <1>5, <1>6, <2>1, <2>2
  <1>8. g = [k \in 0 .. Outlen |-> IF k = 0 THEN base ELSE EncStep(g[k - 1])]
    <2> HIDE DEF base, S
    <2>1. QED
      BY <1>5, <1>7
  <1>9. IsEncoding(g)
    BY <1>8 DEF IsEncoding, EncStep
  <1>10. QED
    BY <1>9

\* The encoder at step k: behind its place nothing has changed, and what lies
\* before it stays as it is.
LEMMA EncodingInvariant ==
    ASSUME CallsParams, NEW u, IsEncoding(u)
    PROVE  \A k \in 0 .. Outlen :
              /\ u[k] \in EncStates
              /\ \A q \in 0 .. Outlen - 1 : q >= u[k].at => u[k].f[q] = original[q]
              /\ u[k].at >= k \/ u[k].at >= DataEnd
  <1> DEFINE Good(k) ==
              /\ u[k] \in EncStates
              /\ \A q \in 0 .. Outlen - 1 : q >= u[k].at => u[k].f[q] = original[q]
              /\ u[k].at >= k \/ u[k].at >= DataEnd
             T == {k \in 0 .. Outlen : Good(k)}
  <1>0. Outlen \in Nat /\ 0 \in 0 .. Outlen
    BY CallsSizes
  <1>1. 0 \in T
    <2>1. u[0] = [f |-> original, at |-> 0]
      BY EncodingSteps
    <2>2. u[0] \in EncStates
      BY <2>1, CallsSizes DEF EncStates, CallsParams
    <2>3. QED
      BY <1>0, <2>1, <2>2
  <1>2. ASSUME NEW k \in 0 .. Outlen - 1, k \in T
        PROVE  k + 1 \in T
    <2> DEFINE s == u[k]
               t == u[k + 1]
    <2>1. k + 1 \in 0 .. Outlen /\ k + 1 \in 1 .. Outlen /\ (k + 1) - 1 = k
      BY <1>0
    <2>2. t = EncStep(s)
      BY <2>1, EncodingSteps
    <2>3. s \in EncStates /\ \A q \in 0 .. Outlen - 1 : q >= s.at => s.f[q] = original[q]
      BY <1>2
    <2>4. s.at >= k \/ s.at >= DataEnd
      BY <1>2
    <2> HIDE DEF s, t
    <2>5. t \in EncStates
      BY <2>2, <2>3, EncStepDoes
    <2>6. s.at \in Nat /\ s.f \in Frames /\ s.at \in 0 .. Outlen - 1
      BY <1>0, <2>3 DEF EncStates
    <2>7. CASE s.at >= DataEnd
      <3>1. t = s
        BY <2>2, <2>3, <2>7, EncStepDoes
      <3>2. QED
        BY <2>1, <2>3, <2>7, <3>1 DEF s, t
    <2>8. CASE s.at < DataEnd /\ s.f[s.at] # CallByte
      <3>1. t.f = s.f /\ t.at = s.at + 1
        BY <2>2, <2>3, <2>8, EncStepDoes
      <3>2. \A q \in 0 .. Outlen - 1 : q >= t.at => t.f[q] = original[q]
        BY <2>3, <2>6, <3>1
      <3>3. t.at >= k + 1
        BY <2>4, <2>6, <2>8, <3>1, CallsSizes
      <3>4. QED
        BY <2>1, <2>5, <3>2, <3>3 DEF t
    <2>9. CASE s.at < DataEnd /\ s.f[s.at] = CallByte
      <3> DEFINE p == s.at + 1
                 A == Absolute(AddressAt(s.f, p), start + s.at)
      <3>1. t.at = s.at + 1 + AddrLen /\ t.f = WithAddress(s.f, p, A) /\ Signed(A)
        BY <2>2, <2>3, <2>9, EncStepDoes
      <3>2. p \in Nat /\ p + AddrLen <= Outlen
        BY <2>6, <2>9, CallsSizes
      <3> HIDE DEF A, p
      <3>3. \A q \in 0 .. Outlen - 1 : ~(q - p \in 0 .. AddrLen - 1) => t.f[q] = s.f[q]
        BY <2>6, <3>1, <3>2, AddressElsewhere
      <3>4. \A q \in 0 .. Outlen - 1 : q >= t.at => ~(q - p \in 0 .. AddrLen - 1) /\ q >= s.at
        BY <2>6, <3>1, CallsSizes DEF p
      <3>5. \A q \in 0 .. Outlen - 1 : q >= t.at => t.f[q] = original[q]
        BY <2>3, <3>3, <3>4
      <3>6. t.at >= k + 1
        BY <2>4, <2>6, <2>9, <3>1, CallsSizes
      <3>7. QED
        BY <2>1, <2>5, <3>5, <3>6 DEF t
    <2>10. s.at >= DataEnd \/ s.at < DataEnd
      BY <2>6, CallsSizes
    <2>11. QED
      BY <2>7, <2>8, <2>9, <2>10
  <1> HIDE DEF T
  <1>3. \A k \in 0 .. Outlen : k \in T
    BY <1>0, <1>1, <1>2, UpTo
  <1>4. QED
    BY <1>3 DEF T

\* What lies before the encoder's place is final.
LEMMA EncodingFinal ==
    ASSUME CallsParams, NEW u, IsEncoding(u), NEW k \in 0 .. Outlen
    PROVE  /\ \A q \in 0 .. Outlen - 1 : q < u[k].at => u[Outlen].f[q] = u[k].f[q]
           /\ u[k].at >= DataEnd => u[Outlen] = u[k]
  <1> DEFINE Good(m) ==
              /\ u[m].at >= u[k].at
              /\ \A q \in 0 .. Outlen - 1 : q < u[k].at => u[m].f[q] = u[k].f[q]
              /\ u[k].at >= DataEnd => u[m] = u[k]
             T == {n \in 0 .. Outlen - k : Good(k + n)}
  <1>0. Outlen \in Nat /\ k \in Nat /\ Outlen - k \in Nat /\ k + 0 = k /\ k + (Outlen - k) = Outlen
    BY CallsSizes
  <1>00. u[k] \in EncStates /\ u[k].at \in Nat
    BY EncodingInvariant DEF EncStates
  <1>1. 0 \in T
    <2>1. Good(k)
      BY <1>00
    <2>2. QED
      BY <1>0, <2>1
  <1>2. ASSUME NEW n \in 0 .. (Outlen - k) - 1, n \in T
        PROVE  n + 1 \in T
    <2> DEFINE m == k + n
               s == u[m]
               t == u[m + 1]
    <2>1. /\ m \in 0 .. Outlen /\ m + 1 \in 1 .. Outlen /\ (m + 1) - 1 = m
          /\ k + (n + 1) = m + 1 /\ n + 1 \in 0 .. Outlen - k
      BY <1>0
    <2>2. s \in EncStates /\ t = EncStep(s)
      BY <2>1, EncodingSteps, EncodingInvariant
    <2>3. Good(m)
      BY <1>2
    <2>4. /\ s.at >= u[k].at
          /\ \A q \in 0 .. Outlen - 1 : q < u[k].at => s.f[q] = u[k].f[q]
          /\ u[k].at >= DataEnd => s = u[k]
      BY <2>3
    <2>5. s.at \in Nat /\ s.f \in Frames /\ s.at \in 0 .. Outlen - 1
      BY <1>0, <2>2 DEF EncStates
    <2> HIDE DEF s, t, m
    <2>6. t.at >= s.at /\ \A q \in 0 .. Outlen - 1 : q < s.at => t.f[q] = s.f[q]
      <3>1. CASE s.at >= DataEnd
        BY <2>2, <2>5, <3>1, EncStepDoes
      <3>2. CASE s.at < DataEnd /\ s.f[s.at] # CallByte
        <4>1. t.f = s.f /\ t.at = s.at + 1
          BY <2>2, <3>2, EncStepDoes
        <4>2. QED
          BY <2>5, <4>1
      <3>3. CASE s.at < DataEnd /\ s.f[s.at] = CallByte
        <4> DEFINE p == s.at + 1
                   A == Absolute(AddressAt(s.f, p), start + s.at)
        <4>1. t.at = s.at + 1 + AddrLen /\ t.f = WithAddress(s.f, p, A) /\ Signed(A)
          BY <2>2, <3>3, EncStepDoes
        <4>2. p \in Nat /\ p + AddrLen <= Outlen
          BY <2>5, <3>3, CallsSizes
        <4> HIDE DEF A, p
        <4>3. \A q \in 0 .. Outlen - 1 : ~(q - p \in 0 .. AddrLen - 1) => t.f[q] = s.f[q]
          BY <2>5, <4>1, <4>2, AddressElsewhere
        <4>4. \A q \in 0 .. Outlen - 1 : q < s.at => ~(q - p \in 0 .. AddrLen - 1)
          BY <2>5, CallsSizes DEF p
        <4>5. t.at >= s.at
          BY <2>5, <4>1, CallsSizes
        <4>6. QED
          BY <4>3, <4>4, <4>5
      <3>4. s.at >= DataEnd \/ s.at < DataEnd
        BY <2>5, CallsSizes
      <3>5. QED
        BY <3>1, <3>2, <3>3, <3>4
    <2>7. u[k].at >= DataEnd => t = u[k]
      <3>1. u[k].at >= DataEnd => t = s
        BY <2>2, <2>4, EncStepDoes
      <3>2. QED
        BY <2>4, <3>1
    <2>8. t.at \in Nat
      <3>1. t \in EncStates
        BY <2>2, EncStepDoes
      <3>2. QED
        BY <1>0, <3>1 DEF EncStates
    <2>9. t.at >= u[k].at
      BY <1>00, <2>4, <2>5, <2>6, <2>8
    <2>10. \A q \in 0 .. Outlen - 1 : q < u[k].at => t.f[q] = u[k].f[q]
      BY <1>00, <2>4, <2>5, <2>6
    <2>11. Good(m + 1)
      BY <2>7, <2>9, <2>10 DEF t
    <2>12. QED
      BY <2>1, <2>11
  <1> HIDE DEF T
  <1>3. \A n \in 0 .. Outlen - k : n \in T
    BY <1>0, <1>1, <1>2, UpTo
  <1>4. Outlen - k \in T
    BY <1>0, <1>3
  <1>5. Good(Outlen)
    BY <1>0, <1>4 DEF T
  <1>6. QED
    BY <1>5

\* The frame where the decoder stands at d: the original up to there, and what
\* the encoder made from there on.
Half(u, d) == [q \in 0 .. Outlen - 1 |-> IF q < d THEN original[q] ELSE u[Outlen].f[q]]

\* The decoder stands where the encoder stood after some of its steps.
CallsInv ==
    /\ CallsParams
    /\ data \in Nat
    /\ curpos = start + data
    /\ \E u : /\ IsEncoding(u)
              /\ frame = Half(u, data)
              /\ \E k \in 0 .. Outlen : u[k].at = data

LEMMA CallsInitHolds ==
    ASSUME NEW C \in SUBSET Contents, CallsInit(C)
    PROVE  CallsInv
  <1>1. /\ original \in Contents /\ start \in Positions /\ filesize \in Filesizes
        /\ frame = Encoded /\ data = 0 /\ curpos = start
    BY DEF CallsInit
  <1>2. CallsParams
    BY <1>1, CallsAssumption, WidthAssumption DEF CallsParams, Frames, DataEnd
  <1>3. data \in Nat /\ curpos = start + data
    BY <1>1, CallsAssumption
  <1> DEFINE u == CHOOSE x : IsEncoding(x)
  <1>4. IsEncoding(u)
    BY <1>2, EncodingExists
  <1>5. Encoded = u[Outlen].f
    BY DEF Encoded, IsEncoding
  <1> HIDE DEF u
  <1>6. 0 \in 0 .. Outlen /\ Outlen \in 0 .. Outlen
    BY CallsSizes
  <1>7. u[0].at = data
    BY <1>1, <1>4, EncodingSteps
  <1>8. frame = Half(u, data)
    <2>1. u[Outlen].f \in Frames
      BY <1>2, <1>4, <1>6, EncodingInvariant DEF EncStates
    <2>2. \A q \in 0 .. Outlen - 1 : ~(q < data)
      BY <1>1
    <2>3. Half(u, data) = [q \in 0 .. Outlen - 1 |-> u[Outlen].f[q]]
      BY <2>2 DEF Half
    <2>4. QED
      BY <1>1, <1>5, <2>1, <2>3 DEF Frames
  <1>9. QED
    BY <1>2, <1>3, <1>4, <1>6, <1>7, <1>8 DEF CallsInv

\* Where the decoder stands, the frame has what the encoder left there.
LEMMA Standing ==
    ASSUME CallsParams, NEW u, IsEncoding(u), NEW k \in 0 .. Outlen, u[k].at < DataEnd
    PROVE  LET s == u[k]
               t == u[k + 1]
           IN  /\ k + 1 \in 0 .. Outlen /\ t = EncStep(s)
               /\ s \in EncStates /\ t \in EncStates
               /\ \A q \in 0 .. Outlen - 1 : q >= s.at => s.f[q] = original[q]
               /\ \A q \in 0 .. Outlen - 1 : q < t.at => u[Outlen].f[q] = t.f[q]
  <1> DEFINE s == u[k]
             t == u[k + 1]
  <1>0. Outlen \in Nat /\ DataEnd \in Nat /\ DataEnd < Outlen
    BY CallsSizes
  <1>1. /\ s \in EncStates /\ (s.at >= k \/ s.at >= DataEnd)
        /\ \A q \in 0 .. Outlen - 1 : q >= s.at => s.f[q] = original[q]
    BY EncodingInvariant
  <1>2. s \in EncStates
    BY EncodingInvariant
  <1>3. s.at \in Nat
    BY <1>0, <1>2 DEF EncStates
  <1>4. k < DataEnd
    <2> HIDE DEF s
    <2>1. s.at < DataEnd
      BY DEF s
    <2>2. s.at >= k
      BY <1>0, <1>1, <1>3, <2>1
    <2>3. QED
      BY <1>0, <1>3, <2>1, <2>2
  <1>5. k + 1 \in 0 .. Outlen /\ k + 1 \in 1 .. Outlen /\ (k + 1) - 1 = k
    BY <1>0, <1>4
  <1>6. t = EncStep(s)
    BY <1>5, EncodingSteps
  <1>7. t \in EncStates
    BY <1>5, EncodingInvariant
  <1>8. \A q \in 0 .. Outlen - 1 : q < t.at => u[Outlen].f[q] = t.f[q]
    BY <1>5, EncodingFinal
  <1>9. QED
    BY <1>1, <1>2, <1>5, <1>6, <1>7, <1>8

LEMMA HalfAt ==
    ASSUME NEW u, NEW d \in Nat, NEW q \in 0 .. Outlen - 1
    PROVE  Half(u, d)[q] = IF q < d THEN original[q] ELSE u[Outlen].f[q]
  BY DEF Half

LEMMA NoCallHolds ==
    ASSUME CallsInv, NoCall
    PROVE  CallsInv'
  <1>1. /\ data < DataEnd /\ frame[data] # CallByte /\ data' = data + 1
        /\ curpos' = curpos + 1 /\ UNCHANGED <<original, start, filesize, frame>>
    BY DEF NoCall
  <1>2. PICK u : IsEncoding(u) /\ frame = Half(u, data) /\ \E k \in 0 .. Outlen : u[k].at = data
    BY DEF CallsInv
  <1>3. PICK k \in 0 .. Outlen : u[k].at = data
    BY <1>2
  <1>4. CallsParams /\ data \in Nat /\ curpos = start + data /\ start \in Nat
    BY DEF CallsInv, CallsParams
  <1>5. data \in 0 .. Outlen - 1 /\ data + 1 \in Nat
    BY <1>1, <1>4, CallsSizes
  <1> DEFINE s == u[k]
             t == u[k + 1]
  <1>6. /\ k + 1 \in 0 .. Outlen /\ t = EncStep(s)
        /\ s \in EncStates /\ t \in EncStates
        /\ \A q \in 0 .. Outlen - 1 : q >= s.at => s.f[q] = original[q]
        /\ \A q \in 0 .. Outlen - 1 : q < t.at => u[Outlen].f[q] = t.f[q]
    BY <1>1, <1>2, <1>3, <1>4, Standing
  <1>7. s.at = data
    BY <1>3
  <1> HIDE DEF s, t
  <1>8. frame[data] = u[Outlen].f[data]
    BY <1>2, <1>4, <1>5, HalfAt
  <1>9. s.f[data] # CallByte
    <2>1. ASSUME s.f[data] = CallByte PROVE FALSE
      <3> DEFINE p == s.at + 1
                 A == Absolute(AddressAt(s.f, p), start + s.at)
      <3>1. t.at = s.at + 1 + AddrLen /\ t.f = WithAddress(s.f, p, A) /\ Signed(A)
        BY <1>1, <1>4, <1>6, <1>7, <2>1, EncStepDoes
      <3>2. p \in Nat /\ p + AddrLen <= Outlen /\ s.f \in Frames
        BY <1>1, <1>4, <1>6, <1>7, CallsSizes DEF EncStates
      <3>3. ~(data - p \in 0 .. AddrLen - 1) /\ data < t.at
        BY <1>4, <1>7, <3>1, CallsSizes
      <3> HIDE DEF A, p
      <3>4. t.f[data] = s.f[data]
        BY <1>5, <3>1, <3>2, <3>3, AddressElsewhere
      <3>5. u[Outlen].f[data] = t.f[data]
        BY <1>5, <1>6, <3>3
      <3>6. QED
        BY <1>1, <1>8, <2>1, <3>4, <3>5
    <2>2. QED
      BY <2>1
  <1>10. t.f = s.f /\ t.at = data + 1
    BY <1>1, <1>4, <1>6, <1>7, <1>9, EncStepDoes
  <1>11. u[Outlen].f[data] = original[data]
    <2>1. data < t.at
      BY <1>4, <1>10
    <2>2. u[Outlen].f[data] = t.f[data]
      BY <1>5, <1>6, <2>1
    <2>3. s.f[data] = original[data]
      BY <1>4, <1>5, <1>6, <1>7
    <2>4. QED
      BY <1>10, <2>2, <2>3
  <1>12. Half(u, data) = Half(u, data + 1)
    <2>1. ASSUME NEW q \in 0 .. Outlen - 1
          PROVE  (IF q < data THEN original[q] ELSE u[Outlen].f[q])
                   = (IF q < data + 1 THEN original[q] ELSE u[Outlen].f[q])
      <3>1. CASE q = data
        BY <1>4, <1>11, <3>1
      <3>2. CASE q # data
        BY <1>4, <3>2
      <3>3. QED
        BY <3>1, <3>2
    <2>2. QED
      BY <2>1 DEF Half
  <1>13. CallsParams'
    BY <1>1, <1>4 DEF CallsParams
  <1>14. IsEncoding(u)'
    BY <1>1, <1>2 DEF IsEncoding, Absolute
  <1>15. (frame = Half(u, data))'
    <2>1. frame' = Half(u, data + 1)
      BY <1>1, <1>2, <1>12
    <2>2. QED
      BY <1>1, <2>1 DEF Half
  <1>16. (\E j \in 0 .. Outlen : u[j].at = data)'
    BY <1>1, <1>6, <1>10 DEF t
  <1>17. data' \in Nat /\ curpos' = start' + data'
    BY <1>1, <1>4
  <1>18. QED
    BY <1>13, <1>14, <1>15, <1>16, <1>17 DEF CallsInv

LEMMA TranslateCallHolds ==
    ASSUME CallsInv, TranslateCall
    PROVE  CallsInv'
  <1>1. /\ data < DataEnd /\ frame[data] = CallByte
        /\ frame' = IF AddressAt(frame, data + 1) >= - curpos
                       /\ AddressAt(frame, data + 1) < filesize
                    THEN WithAddress(frame, data + 1, Relative(AddressAt(frame, data + 1)))
                    ELSE frame
        /\ data' = data + 1 + AddrLen
        /\ curpos' = curpos + 1 + AddrLen /\ UNCHANGED <<original, start, filesize>>
    BY DEF TranslateCall
  <1>2. PICK u : IsEncoding(u) /\ frame = Half(u, data) /\ \E k \in 0 .. Outlen : u[k].at = data
    BY DEF CallsInv
  <1>3. PICK k \in 0 .. Outlen : u[k].at = data
    BY <1>2
  <1>4. CallsParams /\ data \in Nat /\ curpos = start + data /\ start \in Nat
        /\ original \in Frames /\ filesize \in Nat
    BY DEF CallsInv, CallsParams
  <1>5. data \in 0 .. Outlen - 1 /\ data + 1 \in Nat /\ (data + 1) + AddrLen <= Outlen
    BY <1>1, <1>4, CallsSizes
  <1> DEFINE s == u[k]
             t == u[k + 1]
             e == u[Outlen].f
             p == data + 1
  <1>6. /\ k + 1 \in 0 .. Outlen /\ t = EncStep(s)
        /\ s \in EncStates /\ t \in EncStates
        /\ \A q \in 0 .. Outlen - 1 : q >= s.at => s.f[q] = original[q]
        /\ \A q \in 0 .. Outlen - 1 : q < t.at => e[q] = t.f[q]
    BY <1>1, <1>2, <1>3, <1>4, Standing
  <1>60. e \in Frames
    <2>1. Outlen \in 0 .. Outlen
      BY CallsSizes
    <2>2. QED
      BY <1>2, <1>4, <2>1, EncodingInvariant DEF EncStates
  <1>7. s.at = data /\ s.f \in Frames
    BY <1>3, <1>6 DEF EncStates
  <1>8. \A q \in 0 .. Outlen - 1 : frame[q] = IF q < data THEN original[q] ELSE e[q]
    BY <1>2, <1>4, HalfAt
  <1>80. frame \in Frames
    <2>1. \A q \in 0 .. Outlen - 1 : (IF q < data THEN original[q] ELSE e[q]) \in 0 .. Values - 1
      BY <1>4, <1>60 DEF Frames
    <2>2. QED
      BY <1>2, <2>1 DEF Half, Frames
  <1> HIDE DEF s, t, e
  <1>9. s.f[data] = CallByte
    <2>1. ASSUME s.f[data] # CallByte PROVE FALSE
      <3>1. t.f = s.f /\ t.at = data + 1
        BY <1>1, <1>4, <1>6, <1>7, <2>1, EncStepDoes
      <3>2. e[data] = t.f[data]
        BY <1>4, <1>5, <1>6, <3>1
      <3>3. QED
        BY <1>1, <1>4, <1>5, <1>8, <2>1, <3>1, <3>2
    <2>2. QED
      BY <2>1
  <1> DEFINE a == AddressAt(s.f, p)
             A == Absolute(a, curpos)
  <1>10. /\ t.at = p + AddrLen /\ t.f = WithAddress(s.f, p, A)
         /\ Signed(a) /\ Signed(A) /\ 2 * curpos <= AddrRange
         /\ \A j \in 0 .. AddrLen - 1 :
              ((a % AddrRange) \div weight[j]) % Values = s.f[p + j]
    BY <1>1, <1>4, <1>6, <1>7, <1>9, EncStepDoes
  <1> DEFINE R == IF A >= 0 THEN A - curpos ELSE A + filesize
  <1>11. /\ A >= - curpos /\ A < filesize => R = a
         /\ ~(A >= - curpos /\ A < filesize) => A = a
    <2>1. curpos \in Nat /\ filesize \in Nat \ {0} /\ 2 * filesize < AddrRange
      BY <1>4 DEF CallsParams
    <2>2. QED
      BY <1>10, <2>1, OffsetRoundTrip
  <1>12. R = Relative(A)
    BY DEF Relative
  <1> HIDE DEF a, A, R, p
  <1>13. p \in Nat /\ p + AddrLen <= Outlen /\ p = data + 1
    BY <1>5 DEF p
  <1>14. AddressAt(frame, p) = A
    <2>1. AddressAt(t.f, p) = A
      BY <1>7, <1>10, <1>13, AddressWritten
    <2>2. t.f \in Frames
      BY <1>6 DEF EncStates
    <2>3. \A j \in 0 .. AddrLen - 1 : frame[p + j] = t.f[p + j]
      <3> TAKE j \in 0 .. AddrLen - 1
      <3>1. p + j \in 0 .. Outlen - 1 /\ ~(p + j < data) /\ p + j < t.at
        BY <1>4, <1>10, <1>13, CallsSizes
      <3>2. QED
        BY <1>6, <1>8, <3>1
    <2>4. BytesAt(frame, p) = BytesAt(t.f, p)
      BY <2>3 DEF BytesAt
    <2>5. AddressAt(frame, p) = AddressAt(t.f, p)
      BY <2>3, <1>13, SameBytes
    <2>6. QED
      BY <2>1, <2>5
  <1>15. \A j \in 0 .. AddrLen - 1 : s.f[p + j] = original[p + j]
    <2> TAKE j \in 0 .. AddrLen - 1
    <2>1. p + j \in 0 .. Outlen - 1 /\ p + j >= s.at
      BY <1>4, <1>7, <1>13, CallsSizes
    <2>2. QED
      BY <1>6, <2>1
  <1>16. A >= - curpos /\ A < filesize => frame' = WithAddress(frame, p, a)
    BY <1>1, <1>11, <1>12, <1>13, <1>14
  <1>17. ~(A >= - curpos /\ A < filesize) => frame' = frame /\ A = a
    BY <1>1, <1>11, <1>13, <1>14
  <1>18. ASSUME NEW q \in 0 .. Outlen - 1
         PROVE  frame'[q] = IF q < data + 1 + AddrLen THEN original[q] ELSE e[q]
    <2>1. a \in Int
      BY <1>10 DEF Signed
    <2>2. WithAddress(frame, p, a)[q] =
                  IF q - p \in 0 .. AddrLen - 1
                  THEN ((a % AddrRange) \div weight[q - p]) % Values ELSE frame[q]
      BY <1>13, <1>80, <2>1, FramesWithAddress
    <2>3. CASE q - p \in 0 .. AddrLen - 1
      <3>0. p + (q - p) = q
        BY <1>13
      <3>1. ((a % AddrRange) \div weight[q - p]) % Values = original[q]
        BY <1>10, <1>15, <2>3, <3>0
      <3>2. q < data + 1 + AddrLen /\ q < t.at /\ ~(q < data)
        BY <1>4, <1>10, <1>13, <2>3, CallsSizes
      <3>3. CASE A >= - curpos /\ A < filesize
        <4>1. frame'[q] = original[q]
          BY <1>16, <2>2, <2>3, <3>1, <3>3
        <4>2. QED
          BY <3>2, <4>1
      <3>4. CASE ~(A >= - curpos /\ A < filesize)
        <4>1. frame'[q] = e[q] /\ e[q] = t.f[q]
          BY <1>6, <1>8, <1>17, <3>2, <3>4
        <4>2. t.f[q] = ((a % AddrRange) \div weight[q - p]) % Values
          <5>1. t.f = WithAddress(s.f, p, a)
            BY <1>10, <1>17, <3>4
          <5>2. QED
            BY <5>1, <1>7, <1>13, <2>1, <2>3, FramesWithAddress
        <4>3. QED
          BY <3>1, <3>2, <4>1, <4>2
      <3>5. QED
        BY <3>3, <3>4
    <2>4. CASE ~(q - p \in 0 .. AddrLen - 1)
      <3>1. frame'[q] = frame[q]
        BY <1>16, <1>17, <2>2, <2>4
      <3>2. frame[q] = IF q < data THEN original[q] ELSE e[q]
        BY <1>8
      <3>3. q < data \/ q = data \/ q >= data + 1 + AddrLen
        BY <1>4, <1>13, <2>4, CallsSizes
      <3>4. q = data => e[q] = original[q]
        <4>1. ASSUME q = data PROVE e[q] = original[q]
          <5>1. q < t.at
            BY <1>4, <1>10, <1>13, <4>1, CallsSizes
          <5>2. e[q] = t.f[q]
            BY <1>6, <5>1
          <5>3. t.f[q] = s.f[q]
            BY <1>7, <1>10, <1>13, <2>4, AddressElsewhere
          <5>4. s.f[q] = original[q]
            BY <1>4, <1>6, <1>7, <4>1
          <5>5. QED
            BY <5>2, <5>3, <5>4
        <4>2. QED
          BY <4>1
      <3>5. q < data => q < data + 1 + AddrLen
        BY <1>4, CallsSizes
      <3>6. q = data => q < data + 1 + AddrLen
        BY <1>4, CallsSizes
      <3>7. q >= data + 1 + AddrLen => ~(q < data) /\ ~(q < data + 1 + AddrLen)
        BY <1>4, CallsSizes
      <3>8. QED
        BY <3>1, <3>2, <3>3, <3>4, <3>5, <3>6, <3>7
    <2>5. QED
      BY <2>3, <2>4
  <1>19. frame' \in Frames
    <2>1. a \in Int
      BY <1>10 DEF Signed
    <2>2. WithAddress(frame, p, a) \in Frames
      BY <1>13, <1>80, <2>1, FramesWithAddress
    <2>3. QED
      BY <1>16, <1>17, <1>80, <2>2
  <1>20. frame' = [q \in 0 .. Outlen - 1 |->
                     IF q < data' THEN original'[q] ELSE u[Outlen].f[q]]
    <2>1. frame' = [q \in 0 .. Outlen - 1 |-> frame'[q]]
      BY <1>19 DEF Frames
    <2>2. data' = data + 1 + AddrLen /\ original' = original
      BY <1>1
    <2> HIDE DEF CallsInv
    <2>3. QED
      BY <1>18, <2>1, <2>2 DEF e
  <1>21. CallsParams'
    BY <1>1, <1>4 DEF CallsParams
  <1>22. IsEncoding(u)'
    BY <1>1, <1>2 DEF IsEncoding, Absolute
  <1>23. (frame = Half(u, data))'
    BY <1>20 DEF Half
  <1>24. (\E j \in 0 .. Outlen : u[j].at = data)'
    <2>1. u[k + 1].at = data'
      BY <1>1, <1>10, <1>13 DEF t
    <2>2. QED
      BY <1>6, <2>1
  <1>25. data' \in Nat /\ curpos' = start' + data'
    BY <1>1, <1>4, CallsSizes
  <1>26. QED
    BY <1>21, <1>22, <1>23, <1>24, <1>25 DEF CallsInv

LEMMA CallsNextHolds ==
    ASSUME CallsInv, CallsNext
    PROVE  CallsInv'
  BY NoCallHolds, TranslateCallHolds DEF CallsNext

LEMMA CallsStutterHolds ==
    ASSUME CallsInv, UNCHANGED callsVars
    PROVE  CallsInv'
  <1>1. UNCHANGED <<original, start, filesize, frame, data, curpos>>
    BY DEF callsVars
  <1>2. PICK u : IsEncoding(u) /\ frame = Half(u, data) /\ \E k \in 0 .. Outlen : u[k].at = data
    BY DEF CallsInv
  <1>3. CallsParams' /\ (data \in Nat /\ curpos = start + data)'
    BY <1>1 DEF CallsInv, CallsParams
  <1>4. IsEncoding(u)'
    BY <1>1, <1>2 DEF IsEncoding, Absolute
  <1>5. (frame = Half(u, data) /\ \E k \in 0 .. Outlen : u[k].at = data)'
    BY <1>1, <1>2 DEF Half
  <1>6. QED
    BY <1>3, <1>4, <1>5 DEF CallsInv

LEMMA FrameIsRestored ==
    ASSUME CallsInv
    PROVE  CallsRestored
  <1> SUFFICES ASSUME data >= DataEnd PROVE frame = original
    BY DEF CallsRestored, CallsDone
  <1>1. PICK u : IsEncoding(u) /\ frame = Half(u, data) /\ \E k \in 0 .. Outlen : u[k].at = data
    BY DEF CallsInv
  <1>2. PICK k \in 0 .. Outlen : u[k].at = data
    BY <1>1
  <1>3. CallsParams /\ original \in Frames
    BY DEF CallsInv, CallsParams
  <1>4. u[Outlen] = u[k]
    BY <1>1, <1>2, <1>3, EncodingFinal
  <1>5. \A q \in 0 .. Outlen - 1 : q >= data => u[Outlen].f[q] = original[q]
    BY <1>1, <1>2, <1>3, <1>4, EncodingInvariant
  <1>6. data \in Nat
    BY DEF CallsInv
  <1>7. \A q \in 0 .. Outlen - 1 : (IF q < data THEN original[q] ELSE u[Outlen].f[q]) = original[q]
    BY <1>5, <1>6
  <1>8. Half(u, data) = [q \in 0 .. Outlen - 1 |-> original[q]]
    BY <1>7 DEF Half
  <1>9. QED
    BY <1>1, <1>3, <1>8 DEF Frames

-----------------------------------------------------------------------------
(* The pieces side by side *)

\* What a behaviour is not about begins like one it could have been about.
LEMMA ForAmong ==
    ASSUME NEW p, NEW S, S # {}
    PROVE  For(p, S) \in SUBSET S
  BY DEF For, One

\* A step is about one piece and leaves the others alone.
LEMMA PiecesApart ==
    ASSUME [Next]_vars
    PROVE  /\ TableNext \/ UNCHANGED tableVars
           /\ BitsNext \/ UNCHANGED bitsVars
           /\ OffsetsNext \/ UNCHANGED match
           /\ CallsNext \/ UNCHANGED callsVars
  <1>1. CASE BuildTable
    BY <1>1 DEF BuildTable
  <1>2. CASE ReadStream
    BY <1>2 DEF ReadStream
  <1>3. CASE ReadMatch
    BY <1>3 DEF ReadMatch
  <1>4. CASE Translate
    BY <1>4 DEF Translate
  <1>5. CASE UNCHANGED vars
    BY <1>5 DEF vars
  <1>6. QED
    BY <1>1, <1>2, <1>3, <1>4, <1>5 DEF Next

LEMMA BitsInvHolds == Spec => []BitsInv
  <1>1. Init => BitsInv
    <2> SUFFICES ASSUME Init PROVE BitsInv
      OBVIOUS
    <2>1. BitsInit(For("bits", Inlen))
      BY DEF Init
    <2>2. For("bits", Inlen) \in SUBSET Inlen
      BY BitsAssumption, ForAmong
    <2>3. QED
      BY <2>1, <2>2, BitsInitHolds
  <1>2. BitsInv /\ [Next]_vars => BitsInv'
    BY PiecesApart, BitsNextHolds, BitsStutterHolds
  <1>3. QED
    BY <1>1, <1>2, PTL DEF Spec

LEMMA TableInvHolds == Spec => []TableInv
  <1>1. Init => TableInv
    <2> SUFFICES ASSUME Init PROVE TableInv
      OBVIOUS
    <2>1. TableInit(For("table", Lengths))
      BY DEF Init
    <2>2. For("table", Lengths) \in SUBSET Lengths
      BY LengthAssumption, ForAmong
    <2>3. For("table", Lengths) \in SUBSET [Symbols -> 0 .. PeekBits]
      BY <2>2, LengthAssumption
    <2>4. QED
      BY <2>1, <2>3, TableInitHolds
  <1>2. TableInv /\ [Next]_vars => TableInv'
    BY PiecesApart, TableStep
  <1>3. QED
    BY <1>1, <1>2, PTL DEF Spec

\* The table of a complete code keeps within what LZX_DECLARE_TABLE sets aside,
\* and the cursors of the bit buffer within it.
THEOREM PiecesTypeCorrect == Spec => []TypeOK
  <1>1. TableInv => TableTypeOK
    BY TableTyped
  <1>2. BitsInv => BitsTypeOK
    BY DEF BitsInv
  <1>3. QED
    BY <1>1, <1>2, TableInvHolds, BitsInvHolds, PTL DEF TypeOK

\* make_decode_table accepts the codes that leave no gap and the one without
\* symbols, and refuses the others, as far as it looks at them.
THEOREM RefusesBadCodesHolds == Spec => []RefusesBadCodes
  <1>1. TableInv => RefusesBadCodes
    BY TableRefuses
  <1>2. QED
    BY <1>1, TableInvHolds, PTL

\* A table that is handed out gives, for whatever bits come next, the symbol
\* whose canonical code they begin with.
THEOREM DecodesCanonicallyHolds == Spec => []DecodesCanonically
  <1>1. TableInv => DecodesCanonically
    BY TableDecodes
  <1>2. QED
    BY <1>1, TableInvHolds, PTL

\* What READ_BITS, READ_HUFFSYM and the copying of an uncompressed block take
\* from the input is what the stream has next, over every block and frame, and
\* the check of the input's end refuses exactly what lies behind its last whole
\* word.
THEOREM ReadsTheStreamHolds == Spec => []ReadsTheStream
  <1>1. BitsInv => ReadsTheStream
    BY StreamIsRead
  <1>2. QED
    BY <1>1, BitsInvHolds, PTL

\* The tables of position slots give back every offset an encoder may use, in
\* every window.
THEOREM OffsetsReadBackHolds == Spec => []OffsetsReadBack
  <1>1. Init => OffsetsReadBack
    BY OffsetsInitHolds DEF Init
  <1>2. OffsetsReadBack /\ [Next]_vars => OffsetsReadBack'
    <2> SUFFICES ASSUME OffsetsReadBack, [Next]_vars PROVE OffsetsReadBack'
      OBVIOUS
    <2>1. CASE OffsetsNext
      BY <2>1, OffsetsNextHolds
    <2>2. CASE UNCHANGED match
      BY <2>2 DEF OffsetsReadBack
    <2>3. QED
      BY <2>1, <2>2, PiecesApart
  <1>3. QED
    BY <1>1, <1>2, PTL DEF Spec

\* The translation at the end of a frame restores every frame the encoder
\* translated, wherever the frame lies in the file.
THEOREM CallsRestoredHolds == Spec => []CallsRestored
  <1>1. Init => CallsInv
    <2> SUFFICES ASSUME Init PROVE CallsInv
      OBVIOUS
    <2>1. CallsInit(For("calls", Contents))
      BY DEF Init
    <2>2. For("calls", Contents) \in SUBSET Contents
      BY CallsAssumption, ForAmong
    <2>3. QED
      BY <2>1, <2>2, CallsInitHolds
  <1>2. CallsInv /\ [Next]_vars => CallsInv'
    BY PiecesApart, CallsNextHolds, CallsStutterHolds
  <1>3. CallsInv => CallsRestored
    BY FrameIsRestored
  <1>4. QED
    BY <1>1, <1>2, <1>3, PTL DEF Spec

=============================================================================
