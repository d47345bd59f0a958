---------------------------- MODULE LzxTableProofs ----------------------------
(***************************************************************************)
(* The decoding table: make_decode_table lays out the tree of a canonical  *)
(* code, and a lookup goes down that tree.  A node of the tree is a number *)
(* of bits and where the streams that begin with them start; N says which  *)
(* node an entry of the table stands for.                                  *)
(***************************************************************************)
EXTENDS LzxDecodeTable, NumberFacts, FiniteSetTheorems

-----------------------------------------------------------------------------
(* Sums over symbols *)

Sum(S) == MapThenSumSet(Space, S)

\* The fold, with the order in which it takes the symbols.
IsFold(f, S) ==
    f = [s \in SUBSET S |->
           IF s = {} THEN 0
           ELSE Space(CHOOSE x \in s : TRUE) + f[s \ {CHOOSE x \in s : TRUE}]]

LEMMA SumIsFold ==
    ASSUME NEW S
    PROVE  Sum(S) = (CHOOSE f : IsFold(f, S))[S]
  BY DEF Sum, MapThenSumSet, MapThenFoldSet, IsFold

\* Sizes of code space: of codes with n bits.
Sz(n) == 2 ^ (MaxCodeBits - n)

LEMMA Sizes16 ==
    /\ \A n \in 0 .. 16 : Sz(n) \in Nat \ {0}
    /\ \A n \in 0 .. 15 : Sz(n) = 2 * Sz(n + 1)
    /\ Sz(16) = 1 /\ Sz(0) = 65536
  <1>1. /\ Sz(0) = 65536 /\ Sz(1) = 32768 /\ Sz(2) = 16384 /\ Sz(3) = 8192
        /\ Sz(4) = 4096 /\ Sz(5) = 2048 /\ Sz(6) = 1024 /\ Sz(7) = 512
        /\ Sz(8) = 256 /\ Sz(9) = 128 /\ Sz(10) = 64 /\ Sz(11) = 32
        /\ Sz(12) = 16 /\ Sz(13) = 8 /\ Sz(14) = 4 /\ Sz(15) = 2 /\ Sz(16) = 1
    BY DEF Sz, MaxCodeBits
  <1>2. QED
    BY <1>1

LengthsOK == length \in [Symbols -> 0 .. 16]

LEMMA SymbolFacts ==
    /\ NSyms \in Nat \ {0}
    /\ \A s \in Symbols : s \in Nat /\ s < NSyms
    /\ \A k \in 1 .. NSyms : k - 1 \in Symbols
    /\ IsFiniteSet(Symbols) /\ Cardinality(Symbols) = NSyms
  <1>1. NSyms \in Nat \ {0}
    BY SizeAssumption
  <1>2. IsFiniteSet(0 .. NSyms - 1) /\ Cardinality(0 .. NSyms - 1) = NSyms
    <2>1. 0 \in Int /\ NSyms - 1 \in Int /\ ~(0 > NSyms - 1) /\ (NSyms - 1) - 0 + 1 = NSyms
      BY <1>1
    <2>2. QED
      BY <2>1, FS_Interval
  <1>3. QED
    BY <1>1, <1>2 DEF Symbols

LEMMA SpaceType ==
    ASSUME LengthsOK, NEW s \in Symbols
    PROVE  Space(s) = Sz(length[s]) /\ Space(s) \in Nat \ {0}
  <1>1. length[s] \in 0 .. 16
    BY DEF LengthsOK
  <1>2. QED
    BY <1>1, Sizes16 DEF Space, Sz

\* f adds up the spaces of the symbols in a set, in whatever order.
Additive(f) ==
    /\ f \in [SUBSET Symbols -> Nat]
    /\ f[{}] = 0
    /\ \A S \in SUBSET Symbols : \A x \in Symbols \ S : f[S \union {x}] = f[S] + Space(x)
    /\ \A S \in SUBSET Symbols : \A T \in SUBSET S : f[T] <= f[S]

Weight(k, S) == IF k \in S THEN Space(k) ELSE 0

LEMMA AdditiveExists ==
    ASSUME LengthsOK
    PROVE  \E f : Additive(f)
  <1> DEFINE F == [SUBSET Symbols -> Nat]
             base == [S \in SUBSET Symbols |-> 0]
             step == [x \in (1 .. NSyms) \X F |->
                        [S \in SUBSET Symbols |-> x[2][S] + Weight(x[1] - 1, S)]]
  <1>0. \A k \in 1 .. NSyms : \A S \in SUBSET Symbols : Weight(k - 1, S) \in Nat
    BY SpaceType, SymbolFacts DEF Weight
  <1>1. base \in F
    OBVIOUS
  <1>2. ASSUME NEW k \in 1 .. NSyms, NEW g \in F
        PROVE  [S \in SUBSET Symbols |-> g[S] + Weight(k - 1, S)] \in F
    BY <1>0
  <1>3. step \in [(1 .. NSyms) \X F -> F]
    <2>1. ASSUME NEW x \in (1 .. NSyms) \X F
          PROVE  [S \in SUBSET Symbols |-> x[2][S] + Weight(x[1] - 1, S)] \in F
      <3>1. x[1] \in 1 .. NSyms /\ x[2] \in F
        OBVIOUS
      <3> HIDE DEF F
      <3>2. QED
        BY <3>1, <1>2
    <2> HIDE DEF F
    <2>2. QED
      BY <2>1
  <1>4. PICK g : Iterates(g, NSyms, F, base, step)
    <2> HIDE DEF F, base, step
    <2>1. QED
      BY <1>1, <1>3, SymbolFacts, IterationExists
  <1>5. \A k \in 0 .. NSyms : g[k] \in F
    BY <1>4 DEF Iterates
  <1>6. g[0] = base
    BY <1>4 DEF Iterates
  <1>7. \A k \in 1 .. NSyms : \A S \in SUBSET Symbols : g[k][S] = g[k - 1][S] + Weight(k - 1, S)
    <2> TAKE k \in 1 .. NSyms
    <2>1. k - 1 \in 0 .. NSyms
      BY SymbolFacts
    <2>2. g[k - 1] \in F
      BY <1>5, <2>1
    <2>3. g[k] = step[<<k, g[k - 1]>>]
      BY <1>4 DEF Iterates
    <2> HIDE DEF F
    <2>4. step[<<k, g[k - 1]>>] = [S \in SUBSET Symbols |-> g[k - 1][S] + Weight(k - 1, S)]
      BY <2>2
    <2>5. QED
      BY <2>3, <2>4
  <1> HIDE DEF step
  <1>8. g[NSyms][{}] = 0
    <2> DEFINE T == {k \in 0 .. NSyms : g[k][{}] = 0}
    <2>1. 0 \in T
      BY <1>6, SymbolFacts
    <2>2. ASSUME NEW k \in 0 .. NSyms - 1, k \in T PROVE k + 1 \in T
      <3>1. k + 1 \in 1 .. NSyms /\ (k + 1) - 1 = k
        BY SymbolFacts
      <3>2. Weight(k, {}) = 0
        BY DEF Weight
      <3>3. g[k + 1][{}] = g[k][{}] + 0
        BY <1>7, <3>1, <3>2
      <3>4. QED
        BY <2>2, <3>1, <3>3
    <2> HIDE DEF T
    <2>3. \A k \in 0 .. NSyms : k \in T
      BY <2>1, <2>2, SymbolFacts, UpTo
    <2>4. NSyms \in T
      BY <2>3, SymbolFacts
    <2>5. QED
      BY <2>4 DEF T
  <1>9. ASSUME NEW S \in SUBSET Symbols, NEW x \in Symbols \ S
        PROVE  g[NSyms][S \union {x}] = g[NSyms][S] + Space(x)
    <2> DEFINE U == S \union {x}
               T == {k \in 0 .. NSyms : g[k][U] = g[k][S] + (IF x < k THEN Space(x) ELSE 0)}
    <2>0. U \in SUBSET Symbols /\ x \in Nat /\ x < NSyms /\ Space(x) \in Nat
      BY SymbolFacts, SpaceType
    <2>1. 0 \in T
      <3>1. g[0][U] = 0 /\ g[0][S] = 0
        BY <1>6, <2>0
      <3>2. 0 \in 0 .. NSyms /\ ~(x < 0)
        BY <2>0, SymbolFacts
      <3> HIDE DEF U
      <3>3. QED
        BY <3>1, <3>2
    <2>2. ASSUME NEW k \in 0 .. NSyms - 1, k \in T PROVE k + 1 \in T
      <3>1. k + 1 \in 1 .. NSyms /\ (k + 1) - 1 = k /\ k \in 0 .. NSyms /\ k + 1 \in 0 .. NSyms
        BY SymbolFacts
      <3>2. g[k + 1][U] = g[k][U] + Weight(k, U) /\ g[k + 1][S] = g[k][S] + Weight(k, S)
        BY <1>7, <3>1, <2>0
      <3>3. g[k][U] = g[k][S] + (IF x < k THEN Space(x) ELSE 0)
        BY <2>2
      <3>4. Weight(k, U) = Weight(k, S) + (IF x = k THEN Space(x) ELSE 0) /\ Weight(k, S) \in Nat
        <4>1. Weight(k, S) \in Nat
          BY <1>0, <3>1
        <4>2. CASE x = k
          BY <4>1, <4>2, <2>0 DEF Weight
        <4>3. CASE x # k
          <5>1. k \in U <=> k \in S
            BY <4>3
          <5>2. QED
            BY <4>1, <4>3, <5>1 DEF Weight
        <4>4. QED
          BY <4>1, <4>2, <4>3
      <3>5. g[k][S] \in Nat /\ g[k + 1][S] \in Nat
        BY <1>5, <3>1
      <3> DEFINE a == g[k][S]
                 b == Weight(k, S)
                 c == Space(x)
      <3>6. g[k + 1][U] = (a + b) + (IF x < k + 1 THEN c ELSE 0)
        <4>1. a \in Nat /\ b \in Nat /\ c \in Nat
          BY <3>4, <3>5, <2>0
        <4>2. g[k + 1][U] = (a + (IF x < k THEN c ELSE 0)) + (b + (IF x = k THEN c ELSE 0))
          BY <3>2, <3>3, <3>4
        <4> HIDE DEF a, b, c
        <4>3. QED
          BY <4>1, <4>2, <2>0
      <3> HIDE DEF U
      <3>7. QED
        BY <3>1, <3>2, <3>6
    <2> HIDE DEF T
    <2>3. \A k \in 0 .. NSyms : k \in T
      BY <2>1, <2>2, SymbolFacts, UpTo
    <2>4. NSyms \in T
      BY <2>3, SymbolFacts
    <2>5. QED
      BY <2>0, <2>4 DEF T
  <1>10. ASSUME NEW S \in SUBSET Symbols, NEW R \in SUBSET S
         PROVE  g[NSyms][R] <= g[NSyms][S]
    <2> DEFINE T == {k \in 0 .. NSyms : g[k][R] <= g[k][S]}
    <2>0. R \in SUBSET Symbols
      OBVIOUS
    <2>1. 0 \in T
      BY <1>6, <2>0, SymbolFacts
    <2>2. ASSUME NEW k \in 0 .. NSyms - 1, k \in T PROVE k + 1 \in T
      <3>1. k + 1 \in 1 .. NSyms /\ (k + 1) - 1 = k /\ k \in 0 .. NSyms /\ k + 1 \in 0 .. NSyms
        BY SymbolFacts
      <3>2. g[k + 1][R] = g[k][R] + Weight(k, R) /\ g[k + 1][S] = g[k][S] + Weight(k, S)
        BY <1>7, <3>1, <2>0
      <3>3. g[k][R] <= g[k][S]
        BY <2>2
      <3>4. Weight(k, R) <= Weight(k, S) /\ Weight(k, S) \in Nat /\ Weight(k, R) \in Nat
        <4>1. Weight(k, S) \in Nat /\ Weight(k, R) \in Nat
          BY <1>0, <2>0, <3>1
        <4>2. QED
          BY <4>1 DEF Weight
      <3>5. g[k][S] \in Nat /\ g[k][R] \in Nat
        BY <1>5, <2>0, <3>1
      <3>6. g[k + 1][R] <= g[k + 1][S]
        BY <3>2, <3>3, <3>4, <3>5
      <3>7. QED
        BY <3>1, <3>6
    <2> HIDE DEF T
    <2>3. \A k \in 0 .. NSyms : k \in T
      BY <2>1, <2>2, SymbolFacts, UpTo
    <2>4. NSyms \in T
      BY <2>3, SymbolFacts
    <2>5. QED
      BY <2>4 DEF T
  <1>11. g[NSyms] \in F
    <2> HIDE DEF F
    <2>1. NSyms \in 0 .. NSyms
      BY SymbolFacts
    <2>2. QED
      BY <1>5, <2>1
  <1>12. Additive(g[NSyms])
    BY <1>8, <1>9, <1>10, <1>11 DEF Additive
  <1>13. QED
    BY <1>12

\* The fold is such a sum, so the order it chooses does not show.
LEMMA FoldIsAdditive ==
    ASSUME LengthsOK, NEW f, Additive(f), NEW S \in SUBSET Symbols
    PROVE  Sum(S) = f[S]
  <1> DEFINE Pick(s) == CHOOSE x \in s : TRUE
             h == [s \in SUBSET S |-> f[s]]
  <1>1. IsFiniteSet(S)
    BY SymbolFacts, FS_Subset
  <1>2. ASSUME NEW s \in SUBSET S, s # {}
        PROVE  /\ Pick(s) \in s /\ s \ {Pick(s)} \in SUBSET S
               /\ f[s] = Space(Pick(s)) + f[s \ {Pick(s)}]
    <2>1. Pick(s) \in s
      BY <1>2
    <2> HIDE DEF Pick
    <2> DEFINE x == Pick(s)
               r == s \ {x}
    <2>2. r \in SUBSET Symbols /\ x \in Symbols \ r /\ r \union {x} = s
      BY <2>1
    <2>3. f[r \union {x}] = f[r] + Space(x)
      BY <2>2 DEF Additive
    <2>4. f[r] \in Nat /\ Space(x) \in Nat
      BY <2>2, SpaceType DEF Additive
    <2> HIDE DEF x, r
    <2>5. f[s] = Space(x) + f[r]
      <3>1. f[s] = f[r] + Space(x)
        BY <2>2, <2>3
      <3>2. QED
        BY <2>4, <3>1
    <2>6. QED
      BY <2>1, <2>5 DEF x, r
  <1>3. IsFold(h, S)
    <2>1. ASSUME NEW s \in SUBSET S
          PROVE  h[s] = IF s = {} THEN 0 ELSE Space(Pick(s)) + h[s \ {Pick(s)}]
      <3>1. CASE s = {}
        BY <3>1 DEF Additive
      <3>2. CASE s # {}
        <4> HIDE DEF Pick
        <4>1. h[s] = f[s] /\ h[s \ {Pick(s)}] = f[s \ {Pick(s)}]
          BY <1>2, <3>2
        <4> HIDE DEF h
        <4>2. QED
          BY <1>2, <3>2, <4>1
      <3>3. QED
        BY <3>1, <3>2
    <2>2. h = [s \in SUBSET S |-> IF s = {} THEN 0 ELSE Space(Pick(s)) + h[s \ {Pick(s)}]]
      <3> DEFINE e == [s \in SUBSET S |-> IF s = {} THEN 0 ELSE Space(Pick(s)) + h[s \ {Pick(s)}]]
      <3> HIDE DEF Pick
      <3>1. h = [s \in SUBSET S |-> h[s]]
        OBVIOUS
      <3> HIDE DEF h
      <3>2. \A s \in SUBSET S : h[s] = e[s]
        BY <2>1
      <3>3. e = [s \in SUBSET S |-> e[s]]
        OBVIOUS
      <3> HIDE DEF e
      <3>4. h = e
        BY <3>1, <3>2, <3>3
      <3>5. QED
        BY <3>4 DEF e
    <2>3. QED
      BY <2>2 DEF IsFold
  <1> DEFINE g == CHOOSE k : IsFold(k, S)
  <1>4. IsFold(g, S)
    BY <1>3
  <1> HIDE DEF g, h
  <1>5. ASSUME NEW s \in SUBSET S
        PROVE  g[s] = IF s = {} THEN 0 ELSE Space(Pick(s)) + g[s \ {Pick(s)}]
    BY <1>4 DEF IsFold
  <1> HIDE DEF Pick
  <1> DEFINE N == Cardinality(S)
             T == {n \in 0 .. N : \A s \in SUBSET S : Cardinality(s) = n => g[s] = f[s]}
  <1>6. N \in Nat
    BY <1>1, FS_CardinalityType
  <1> HIDE DEF N
  <1>7. 0 \in T
    <2>1. ASSUME NEW s \in SUBSET S, Cardinality(s) = 0
          PROVE  g[s] = f[s]
      <3>1. s = {}
        BY <1>1, <2>1, FS_Subset, FS_EmptySet
      <3>2. QED
        BY <1>5, <3>1 DEF Additive
    <2>2. QED
      BY <1>6, <2>1
  <1>8. ASSUME NEW n \in 0 .. N - 1, n \in T
        PROVE  n + 1 \in T
    <2>1. ASSUME NEW s \in SUBSET S, Cardinality(s) = n + 1
          PROVE  g[s] = f[s]
      <3>0. n \in Nat /\ n + 1 # 0 /\ (n + 1) - 1 = n
        BY <1>6
      <3>1. s # {}
        BY <2>1, <3>0, FS_EmptySet
      <3>2. /\ Pick(s) \in s /\ s \ {Pick(s)} \in SUBSET S
            /\ f[s] = Space(Pick(s)) + f[s \ {Pick(s)}]
        BY <1>2, <3>1
      <3>3. IsFiniteSet(s)
        BY <1>1, FS_Subset
      <3>4. Cardinality(s \ {Pick(s)}) = n
        <4>1. Cardinality(s \ {Pick(s)}) = IF Pick(s) \in s THEN Cardinality(s) - 1
                                           ELSE Cardinality(s)
          BY <3>3, FS_RemoveElement
        <4>2. QED
          BY <2>1, <3>0, <3>2, <4>1
      <3>5. g[s \ {Pick(s)}] = f[s \ {Pick(s)}]
        BY <1>8, <3>2, <3>4
      <3>6. QED
        BY <1>5, <3>1, <3>2, <3>5
    <2>2. n + 1 \in 0 .. N
      BY <1>6
    <2>3. QED
      BY <2>1, <2>2
  <1> HIDE DEF T
  <1>9. \A n \in 0 .. N : n \in T
    BY <1>6, <1>7, <1>8, UpTo
  <1>10. N \in 0 .. N /\ S \in SUBSET S
    BY <1>6
  <1>11. g[S] = f[S]
    BY <1>9, <1>10 DEF T, N
  <1>12. QED
    BY <1>11, SumIsFold DEF g

LEMMA SumFacts ==
    ASSUME LengthsOK
    PROVE  /\ Sum({}) = 0
           /\ \A S \in SUBSET Symbols : Sum(S) \in Nat
           /\ \A S \in SUBSET Symbols : \A x \in Symbols \ S : Sum(S \union {x}) = Sum(S) + Space(x)
           /\ \A S \in SUBSET Symbols : \A T \in SUBSET S : Sum(T) <= Sum(S)
  <1>1. PICK f : Additive(f)
    BY AdditiveExists
  <1>2. \A S \in SUBSET Symbols : Sum(S) = f[S]
    BY <1>1, FoldIsAdditive
  <1>3. \A S \in SUBSET Symbols : \A x \in Symbols \ S : S \union {x} \in SUBSET Symbols
    OBVIOUS
  <1>4. \A S \in SUBSET Symbols : \A T \in SUBSET S : T \in SUBSET Symbols
    OBVIOUS
  <1>5. {} \in SUBSET Symbols
    OBVIOUS
  <1> HIDE DEF Sum
  <1>6. QED
    BY <1>1, <1>2, <1>3, <1>4, <1>5 DEF Additive

-----------------------------------------------------------------------------
(* Multiples *)

Mult(a, d) == \E m \in Nat : a = m * d

LEMMA MultFacts ==
    ASSUME NEW d \in Nat \ {0}
    PROVE  /\ Mult(0, d) /\ Mult(d, d)
           /\ \A a, b : Mult(a, d) /\ Mult(b, d) => Mult(a + b, d) /\ a \in Nat
           /\ \A e \in Nat \ {0} : Mult(d, e) => \A a : Mult(a, d) => Mult(a, e)
  <1>1. Mult(0, d) /\ Mult(d, d)
    <2>1. 0 = 0 * d /\ d = 1 * d
      OBVIOUS
    <2>2. QED
      BY <2>1 DEF Mult
  <1>2. ASSUME NEW a, NEW b, Mult(a, d), Mult(b, d)
        PROVE  Mult(a + b, d) /\ a \in Nat
    <2>1. PICK m \in Nat : a = m * d
      BY <1>2 DEF Mult
    <2>2. PICK n \in Nat : b = n * d
      BY <1>2 DEF Mult
    <2>3. a + b = (m + n) * d /\ m + n \in Nat
      BY <2>1, <2>2
    <2>4. a \in Nat
      BY <2>1
    <2>5. QED
      BY <2>3, <2>4 DEF Mult
  <1>3. ASSUME NEW e \in Nat \ {0}, Mult(d, e), NEW a, Mult(a, d)
        PROVE  Mult(a, e)
    <2>1. PICK m \in Nat : d = m * e
      BY <1>3 DEF Mult
    <2>2. PICK n \in Nat : a = n * d
      BY <1>3 DEF Mult
    <2>3. a = n * (m * e)
      BY <2>1, <2>2
    <2>4. n * (m * e) = (n * m) * e /\ n * m \in Nat
      OBVIOUS
    <2>5. QED
      BY <2>3, <2>4 DEF Mult
  <1>4. QED
    BY <1>1, <1>2, <1>3

\* Multiples that are less than one apart are the same.
LEMMA MultApart ==
    ASSUME NEW d \in Nat \ {0}, NEW a, Mult(a, d), NEW b, Mult(b, d), a < b
    PROVE  a + d <= b
  <1>1. PICK m \in Nat : a = m * d
    BY DEF Mult
  <1>2. PICK n \in Nat : b = n * d
    BY DEF Mult
  <1>3. m < n
    <2>1. ASSUME n <= m PROVE FALSE
      <3>1. n * d <= m * d
        BY <2>1
      <3> DEFINE x == n * d
                 y == m * d
      <3>2. x \in Int /\ y \in Int
        OBVIOUS
      <3>3. x <= y /\ y < x
        BY <1>1, <1>2, <3>1
      <3> HIDE DEF x, y
      <3>4. QED
        BY <3>2, <3>3
    <2>2. QED
      BY <2>1
  <1>4. (m + 1) * d <= n * d
    BY <1>3
  <1>5. (m + 1) * d = m * d + d
    OBVIOUS
  <1>6. QED
    BY <1>1, <1>2, <1>4, <1>5

\* Larger sizes are multiples of smaller ones.
LEMMA SizesNest ==
    ASSUME NEW n \in 0 .. 16, NEW m \in n .. 16
    PROVE  Mult(Sz(n), Sz(m)) /\ Sz(m) <= Sz(n) /\ (n # m => 2 * Sz(m) <= Sz(n))
  <1> DEFINE T == {k \in 0 .. 16 - n : Mult(Sz(n), Sz(n + k)) /\ Sz(n + k) <= Sz(n)
                                          /\ (k # 0 => 2 * Sz(n + k) <= Sz(n))}
  <1>1. 0 \in T
    <2> DEFINE d == Sz(n)
    <2>1. d \in Nat \ {0}
      BY Sizes16
    <2>2. n + 0 = n /\ 0 \in 0 .. 16 - n
      OBVIOUS
    <2> HIDE DEF d
    <2>3. Mult(d, d) /\ d <= d
      BY <2>1, MultFacts
    <2>4. QED
      BY <2>2, <2>3 DEF d
  <1>2. ASSUME NEW k \in 0 .. (16 - n) - 1, k \in T
        PROVE  k + 1 \in T
    <2>0. n + k \in 0 .. 15 /\ n + k \in 0 .. 16 /\ (n + k) + 1 \in 0 .. 16
          /\ n + (k + 1) = (n + k) + 1 /\ k + 1 \in 0 .. 16 - n
      OBVIOUS
    <2> DEFINE a == Sz(n)
               b == Sz(n + k)
               c == Sz((n + k) + 1)
    <2>1. a \in Nat \ {0} /\ b \in Nat \ {0} /\ c \in Nat \ {0} /\ b = 2 * c
      BY <2>0, Sizes16
    <2>2. Mult(a, b) /\ b <= a
      BY <1>2
    <2> HIDE DEF a, b, c
    <2>3. Mult(b, c)
      BY <2>1 DEF Mult
    <2>4. Mult(a, c)
      BY <2>1, <2>2, <2>3, MultFacts
    <2>5. c <= a /\ 2 * c <= a
      BY <2>1, <2>2
    <2>6. QED
      BY <2>0, <2>4, <2>5 DEF a, c
  <1> HIDE DEF T
  <1>3. \A k \in 0 .. 16 - n : k \in T
    <2>1. 16 - n \in Nat
      OBVIOUS
    <2>2. QED
      BY <1>1, <1>2, <2>1, UpTo
  <1>4. m - n \in 0 .. 16 - n /\ n + (m - n) = m /\ (n # m => m - n # 0)
    OBVIOUS
  <1>5. m - n \in T
    BY <1>3, <1>4
  <1>6. QED
    BY <1>4, <1>5 DEF T

-----------------------------------------------------------------------------
(* The canonical code *)

\* The symbols in the order of their codes.
Rank(s) == length[s] * NSyms + s

Before(j) == {t \in Coded : Rank(t) < j}

LEMMA RankOrder ==
    ASSUME LengthsOK, NEW s \in Symbols, NEW t \in Symbols
    PROVE  /\ Rank(s) \in 0 .. 17 * NSyms - 1
           /\ Precedes(s, t) <=> Rank(s) < Rank(t)
           /\ Rank(s) = Rank(t) => s = t
  <1> DEFINE a == length[s]
             b == length[t]
             x == a * NSyms
             y == b * NSyms
  <1>1. a \in 0 .. 16 /\ b \in 0 .. 16
    BY DEF LengthsOK
  <1>2. s \in Nat /\ s < NSyms /\ t \in Nat /\ t < NSyms /\ NSyms \in Nat
    BY SymbolFacts
  <1>3. x \in Nat /\ y \in Nat
    BY <1>1, <1>2
  <1> HIDE DEF a, b
  <1>4. x <= 16 * NSyms
    BY <1>1, <1>2
  <1>5. a < b => x + NSyms <= y
    <2>1. (a + 1) * NSyms = x + NSyms
      BY <1>1, <1>2
    <2>2. a < b => (a + 1) * NSyms <= b * NSyms
      BY <1>1, <1>2
    <2>3. QED
      BY <2>1, <2>2
  <1>6. b < a => y + NSyms <= x
    <2>1. (b + 1) * NSyms = y + NSyms
      BY <1>1, <1>2
    <2>2. b < a => (b + 1) * NSyms <= a * NSyms
      BY <1>1, <1>2
    <2>3. QED
      BY <2>1, <2>2
  <1>7. a = b => x = y
    OBVIOUS
  <1> HIDE DEF x, y
  <1>8. x + s < y + t <=> (a < b \/ (a = b /\ s < t))
    BY <1>1, <1>2, <1>3, <1>5, <1>6, <1>7
  <1>9. x + s = y + t => s = t
    BY <1>1, <1>2, <1>3, <1>5, <1>6, <1>7
  <1>10. x + s \in 0 .. 17 * NSyms - 1
    BY <1>2, <1>3, <1>4
  <1>11. QED
    BY <1>8, <1>9, <1>10 DEF Rank, Precedes, a, b, x, y

LEMMA CodedFacts ==
    ASSUME LengthsOK
    PROVE  /\ Coded \in SUBSET Symbols
           /\ \A s \in Coded : length[s] \in 1 .. 16 /\ Space(s) = Sz(length[s])
                               /\ Space(s) \in Nat \ {0}
           /\ \A s \in Coded : FirstCode(s) = Sum(Before(Rank(s))) /\ FirstCode(s) \in Nat
           /\ CodeSpace = Sum(Coded) /\ CodeSpace \in Nat
           /\ Before(0) = {} /\ Before(17 * NSyms) = Coded
           /\ \A j : Before(j) \in SUBSET Coded /\ Before(j) \in SUBSET Symbols
  <1>1. Coded \in SUBSET Symbols
    BY DEF Coded
  <1>2. \A s \in Coded : length[s] \in 1 .. 16 /\ Space(s) = Sz(length[s])
                               /\ Space(s) \in Nat \ {0}
    BY SpaceType DEF Coded, LengthsOK
  <1>3. \A j : Before(j) \in SUBSET Coded /\ Before(j) \in SUBSET Symbols
    BY <1>1 DEF Before
  <1>4. ASSUME NEW s \in Coded
        PROVE  FirstCode(s) = Sum(Before(Rank(s))) /\ FirstCode(s) \in Nat
    <2>1. {t \in Coded : Precedes(t, s)} = Before(Rank(s))
      BY <1>1, RankOrder DEF Before
    <2>2. FirstCode(s) = Sum(Before(Rank(s)))
      BY <2>1 DEF FirstCode, Sum
    <2>3. QED
      BY <1>3, <2>2, SumFacts
  <1>5. CodeSpace = Sum(Coded)
    BY DEF CodeSpace, Sum
  <1>6. CodeSpace \in Nat
    BY <1>1, <1>5, SumFacts
  <1>7. \A s \in Coded : ~(Rank(s) < 0) /\ Rank(s) < 17 * NSyms
    BY <1>1, SymbolFacts, RankOrder
  <1>8. Before(0) = {} /\ Before(17 * NSyms) = Coded
    BY <1>7 DEF Before
  <1>9. QED
    BY <1>1, <1>2, <1>3, <1>4, <1>5, <1>6, <1>8

\* From one rank to the next there is one symbol more, or none.
LEMMA NextRank ==
    ASSUME LengthsOK, NEW j \in Nat
    PROVE  \/ Before(j + 1) = Before(j)
           \/ \E s \in Coded : /\ Rank(s) = j /\ s \notin Before(j)
                               /\ Before(j + 1) = Before(j) \union {s}
                               /\ Sum(Before(j + 1)) = FirstCode(s) + Space(s)
                               /\ Sum(Before(j)) = FirstCode(s)
  <1>0. Coded \in SUBSET Symbols /\ \A s \in Coded : Rank(s) \in Nat
    BY CodedFacts, RankOrder, SymbolFacts
  <1>1. CASE \A s \in Coded : Rank(s) # j
    <2>1. \A s \in Coded : Rank(s) < j + 1 <=> Rank(s) < j
      BY <1>0, <1>1
    <2>2. QED
      BY <2>1 DEF Before
  <1>2. ASSUME NEW s \in Coded, Rank(s) = j
        PROVE  /\ s \notin Before(j)
               /\ Before(j + 1) = Before(j) \union {s}
               /\ Sum(Before(j + 1)) = FirstCode(s) + Space(s)
               /\ Sum(Before(j)) = FirstCode(s)
    <2>1. s \notin Before(j)
      BY <1>0, <1>2 DEF Before
    <2>2. \A t \in Coded : Rank(t) < j + 1 <=> (Rank(t) < j \/ t = s)
      <3>1. \A t \in Coded : Rank(t) = j => t = s
        BY <1>0, <1>2, RankOrder
      <3>2. QED
        BY <1>0, <1>2, <3>1
    <2>3. Before(j + 1) = Before(j) \union {s}
      BY <2>2 DEF Before
    <2>4. Sum(Before(j)) = FirstCode(s)
      BY <1>2, CodedFacts
    <2>5. Before(j) \in SUBSET Symbols /\ s \in Symbols \ Before(j)
      BY <1>0, <2>1, CodedFacts
    <2>6. Sum(Before(j) \union {s}) = Sum(Before(j)) + Space(s)
      BY <2>5, SumFacts
    <2>7. QED
      BY <2>1, <2>3, <2>4, <2>6
  <1>3. QED
    BY <1>1, <1>2

Covers(s, x) == FirstCode(s) <= x /\ x < FirstCode(s) + Space(s)

\* The codes lie side by side, without gaps and each at a multiple of its size.
LEMMA CodesSideBySide ==
    ASSUME LengthsOK, NEW j \in 0 .. 17 * NSyms
    PROVE  /\ \A x \in Nat : x < Sum(Before(j)) => \E s \in Before(j) : Covers(s, x)
           /\ \A n \in 0 .. 16 : (\A t \in Before(j) : length[t] <= n) =>
                                     Mult(Sum(Before(j)), Sz(n))
  <1> DEFINE Good(i) ==
               /\ \A x \in Nat : x < Sum(Before(i)) => \E s \in Before(i) : Covers(s, x)
               /\ \A n \in 0 .. 16 : (\A t \in Before(i) : length[t] <= n) =>
                                         Mult(Sum(Before(i)), Sz(n))
             T == {i \in 0 .. 17 * NSyms : Good(i)}
  <1>0. 17 * NSyms \in Nat
    BY SymbolFacts
  <1>1. 0 \in T
    <2>1. Before(0) = {} /\ Sum({}) = 0
      BY CodedFacts, SumFacts
    <2>2. \A n \in 0 .. 16 : Mult(0, Sz(n))
      <3> SUFFICES ASSUME NEW n \in 0 .. 16
                   PROVE  Mult(0, Sz(n))
        OBVIOUS
      <3>1. Sz(n) \in Nat \ {0}
        BY Sizes16
      <3>2. QED
        BY <3>1, MultFacts
    <2>3. Sum(Before(0)) = 0
      BY <2>1
    <2> HIDE DEF Sum, Before
    <2>4. Good(0)
      BY <2>2, <2>3
    <2>5. QED
      BY <1>0, <2>4
  <1>2. ASSUME NEW i \in 0 .. 17 * NSyms - 1, i \in T
        PROVE  i + 1 \in T
    <2>0. i \in Nat /\ i + 1 \in 0 .. 17 * NSyms
      BY <1>0
    <2>1. CASE Before(i + 1) = Before(i)
      <3>1. Good(i)
        BY <1>2
      <3>2. Good(i + 1)
        BY <2>1, <3>1
      <3>3. QED
        BY <2>0, <3>2
    <2>2. ASSUME NEW s \in Coded, Before(i + 1) = Before(i) \union {s}, s \notin Before(i),
                 Sum(Before(i + 1)) = FirstCode(s) + Space(s),
                 Sum(Before(i)) = FirstCode(s)
          PROVE  i + 1 \in T
      <3>0. FirstCode(s) \in Nat /\ Space(s) \in Nat \ {0} /\ Space(s) = Sz(length[s])
            /\ length[s] \in 1 .. 16
        BY CodedFacts
      <3>1. ASSUME NEW x \in Nat, x < Sum(Before(i + 1))
            PROVE  \E t \in Before(i + 1) : Covers(t, x)
        <4>1. CASE x < Sum(Before(i))
          BY <1>2, <2>2, <4>1
        <4>2. CASE ~(x < Sum(Before(i)))
          <5>1. FirstCode(s) <= x /\ x < FirstCode(s) + Space(s)
            BY <2>2, <3>0, <3>1, <4>2
          <5>2. QED
            BY <2>2, <5>1 DEF Covers
        <4>3. QED
          BY <4>1, <4>2
      <3>2. ASSUME NEW n \in 0 .. 16, \A t \in Before(i + 1) : length[t] <= n
            PROVE  Mult(Sum(Before(i + 1)), Sz(n))
        <4>1. (\A t \in Before(i) : length[t] <= n) /\ length[s] <= n
          BY <2>2, <3>2
        <4>2. Mult(Sum(Before(i)), Sz(n))
          BY <1>2, <4>1
        <4>3. Mult(Space(s), Sz(n))
          <5>1. length[s] \in 0 .. 16 /\ n \in length[s] .. 16
            BY <3>0, <4>1
          <5>2. QED
            BY <3>0, <5>1, SizesNest
        <4>4. Mult(Sum(Before(i)) + Space(s), Sz(n))
          <5> DEFINE a == Sum(Before(i))
                     b == Space(s)
                     d == Sz(n)
          <5>1. d \in Nat \ {0} /\ Mult(a, d) /\ Mult(b, d)
            BY <4>2, <4>3, Sizes16
          <5> HIDE DEF a, b, d
          <5>2. Mult(a + b, d)
            BY <5>1, MultFacts
          <5>3. QED
            BY <5>2 DEF a, b, d
        <4>5. QED
          BY <2>2, <4>4
      <3>3. QED
        BY <2>0, <3>1, <3>2
    <2>3. QED
      BY <2>0, <2>1, <2>2, NextRank
  <1> HIDE DEF T
  <1>3. \A i \in 0 .. 17 * NSyms : i \in T
    BY <1>0, <1>1, <1>2, UpTo
  <1>4. j \in T
    BY <1>3
  <1>5. QED
    BY <1>4 DEF T

LEMMA CanonicalCode ==
    ASSUME LengthsOK
    PROVE  /\ \A x \in Nat : x < CodeSpace => \E s \in Coded : Covers(s, x)
           /\ \A s \in Coded : Mult(FirstCode(s), Space(s)) /\ FirstCode(s) + Space(s) <= CodeSpace
           /\ \A s, t \in Coded : Precedes(s, t) => FirstCode(s) + Space(s) <= FirstCode(t)
           /\ \A s, t \in Coded : s = t \/ Precedes(s, t) \/ Precedes(t, s)
           /\ \A s, t \in Coded : \A x \in Int : Covers(s, x) /\ Covers(t, x) => s = t
  <1>0. 17 * NSyms \in Nat /\ 17 * NSyms \in 0 .. 17 * NSyms
    BY SymbolFacts
  <1>1. \A x \in Nat : x < CodeSpace => \E s \in Coded : Covers(s, x)
    <2>1. Before(17 * NSyms) = Coded /\ CodeSpace = Sum(Coded)
      BY CodedFacts
    <2>2. \A x \in Nat : x < Sum(Before(17 * NSyms)) => \E s \in Before(17 * NSyms) : Covers(s, x)
      BY <1>0, CodesSideBySide
    <2>3. QED
      BY <2>1, <2>2
  <1>2. Coded \in SUBSET Symbols /\ \A s \in Coded : Rank(s) \in 0 .. 17 * NSyms - 1 /\ Rank(s) \in 0 .. 17 * NSyms
    <2>1. \A s \in Coded : Rank(s) \in 0 .. 17 * NSyms - 1
      BY CodedFacts, RankOrder
    <2>2. QED
      BY <1>0, <2>1, CodedFacts
  <1>3. ASSUME NEW s \in Coded
        PROVE  Mult(FirstCode(s), Space(s)) /\ FirstCode(s) + Space(s) <= CodeSpace
    <2>1. length[s] \in 0 .. 16 /\ Space(s) = Sz(length[s]) /\ FirstCode(s) = Sum(Before(Rank(s)))
      BY CodedFacts
    <2>2. \A t \in Before(Rank(s)) : length[t] <= length[s]
      <3>1. \A t \in Before(Rank(s)) : t \in Symbols /\ Precedes(t, s)
        BY <1>2, RankOrder DEF Before
      <3>2. QED
        BY <1>2, <3>1, CodedFacts DEF Precedes, LengthsOK
    <2>3. Mult(FirstCode(s), Space(s))
      BY <1>2, <2>1, <2>2, CodesSideBySide
    <2>4. Rank(s) \in Nat
      BY <1>0, <1>2
    <2>5. s \notin Before(Rank(s)) /\ s \in Symbols \ Before(Rank(s))
      BY <1>2, <2>4 DEF Before
    <2>6. Sum(Before(Rank(s)) \union {s}) = FirstCode(s) + Space(s)
      BY <2>1, <2>5, SumFacts, CodedFacts
    <2>7. Before(Rank(s)) \union {s} \in SUBSET Coded
      BY CodedFacts
    <2>8. Sum(Before(Rank(s)) \union {s}) <= Sum(Coded)
      BY <2>7, <1>2, SumFacts
    <2>9. QED
      BY <2>3, <2>6, <2>8, CodedFacts
  <1>4. ASSUME NEW s \in Coded, NEW t \in Coded, Precedes(s, t)
        PROVE  FirstCode(s) + Space(s) <= FirstCode(t)
    <2>1. Rank(s) < Rank(t) /\ Rank(s) \in Nat /\ Rank(t) \in Nat
      BY <1>0, <1>2, <1>4, RankOrder
    <2>2. s \in Symbols \ Before(Rank(s))
      BY <1>2, <2>1 DEF Before
    <2>3. Sum(Before(Rank(s)) \union {s}) = FirstCode(s) + Space(s)
      BY <2>2, SumFacts, CodedFacts
    <2>4. Before(Rank(s)) \union {s} \in SUBSET Before(Rank(t))
      <3>1. \A u \in Coded : Rank(u) \in Nat
        BY <1>0, <1>2
      <3>2. QED
        BY <2>1, <3>1 DEF Before
    <2>5. Sum(Before(Rank(s)) \union {s}) <= Sum(Before(Rank(t)))
      BY <2>4, CodedFacts, SumFacts
    <2>6. QED
      BY <2>3, <2>5, CodedFacts
  <1>5. \A s, t \in Coded : s = t \/ Precedes(s, t) \/ Precedes(t, s)
    <2> TAKE s \in Coded, t \in Coded
    <2>1. s \in Symbols /\ t \in Symbols /\ Rank(s) \in Nat /\ Rank(t) \in Nat
      BY <1>0, <1>2
    <2>2. Rank(s) = Rank(t) \/ Rank(s) < Rank(t) \/ Rank(t) < Rank(s)
      BY <2>1
    <2>3. QED
      BY <2>1, <2>2, RankOrder
  <1>6. ASSUME NEW s \in Coded, NEW t \in Coded, NEW x \in Int, Covers(s, x), Covers(t, x)
        PROVE  s = t
    <2>1. FirstCode(s) \in Nat /\ FirstCode(t) \in Nat /\ Space(s) \in Nat /\ Space(t) \in Nat
      BY CodedFacts
    <2>2. ~ (FirstCode(s) + Space(s) <= FirstCode(t)) /\ ~ (FirstCode(t) + Space(t) <= FirstCode(s))
      BY <1>6, <2>1 DEF Covers
    <2>3. QED
      BY <1>4, <1>5, <2>2
  <1>7. QED
    BY <1>1, <1>3, <1>4, <1>5, <1>6

-----------------------------------------------------------------------------
(* Powers of two, as many as codes need *)

E(n) == 2 ^ n

LEMMA Powers ==
    /\ E(0) = 1 /\ E(16) = 65536 /\ E(15) = 32768
    /\ \A n \in 0 .. 32 : E(n) \in Nat \ {0}
    /\ \A n \in 0 .. 31 : E(n + 1) = 2 * E(n)
  <1>1. /\ E(0) = 1 /\ E(1) = 2 /\ E(2) = 4 /\ E(3) = 8
        /\ E(4) = 16 /\ E(5) = 32 /\ E(6) = 64 /\ E(7) = 128
        /\ E(8) = 256 /\ E(9) = 512 /\ E(10) = 1024 /\ E(11) = 2048
        /\ E(12) = 4096 /\ E(13) = 8192 /\ E(14) = 16384 /\ E(15) = 32768
        /\ E(16) = 65536 /\ E(17) = 131072 /\ E(18) = 262144 /\ E(19) = 524288
        /\ E(20) = 1048576 /\ E(21) = 2097152 /\ E(22) = 4194304 /\ E(23) = 8388608
        /\ E(24) = 16777216 /\ E(25) = 33554432 /\ E(26) = 67108864 /\ E(27) = 134217728
        /\ E(28) = 268435456 /\ E(29) = 536870912 /\ E(30) = 1073741824 /\ E(31) = 2147483648
        /\ E(32) = 4294967296
    BY DEF E
  <1>2. QED
    BY <1>1

LEMMA PowersMultiply ==
    ASSUME NEW a \in 0 .. 32, NEW b \in 0 .. 32 - a
    PROVE  E(a + b) = E(a) * E(b)
  <1> DEFINE T == {k \in 0 .. 32 - a : E(a + k) = E(a) * E(k)}
  <1>1. 0 \in T
    <2>1. a + 0 = a /\ 0 \in 0 .. 32 - a /\ E(a) \in Nat
      BY Powers
    <2>2. E(0) = 1
      BY Powers
    <2> HIDE DEF E
    <2>3. E(a) * 1 = E(a)
      BY <2>1
    <2>4. QED
      BY <2>1, <2>2, <2>3
  <1>2. ASSUME NEW k \in 0 .. (32 - a) - 1, k \in T
        PROVE  k + 1 \in T
    <2>1. /\ a + k \in 0 .. 31 /\ k \in 0 .. 31 /\ k + 1 \in 0 .. 32 - a
          /\ a + (k + 1) = (a + k) + 1 /\ k \in 0 .. 32
      OBVIOUS
    <2> DEFINE x == E(a)
               y == E(k)
               z == E(a + k)
    <2>2. x \in Nat /\ y \in Nat /\ z = x * y
      BY <1>2, <2>1, Powers
    <2>3. E((a + k) + 1) = 2 * z /\ E(k + 1) = 2 * y
      BY <2>1, Powers
    <2> HIDE DEF x, y, z
    <2>4. 2 * z = x * (2 * y)
      BY <2>2
    <2>5. E(a + (k + 1)) = E(a) * E(k + 1)
      BY <2>1, <2>3, <2>4 DEF x
    <2>6. QED
      BY <2>1, <2>5
  <1> HIDE DEF T
  <1>3. \A k \in 0 .. 32 - a : k \in T
    <2>1. 32 - a \in Nat
      OBVIOUS
    <2>2. QED
      BY <1>1, <1>2, <2>1, UpTo
  <1>4. b \in T
    BY <1>3
  <1>5. QED
    BY <1>4 DEF T

\* The sizes of the table, and of codes in its direct part and behind it.
LEMMA TableSizes ==
    /\ NBits \in 1 .. 16 /\ PeekBits \in NBits .. 16
    /\ Direct \in Nat \ {0} /\ FirstPair \in Nat \ {0} /\ Direct = 2 * FirstPair
    /\ NSyms <= FirstPair
    /\ Sz(NBits) \in Nat \ {0} /\ Sz(NBits) * Direct = 65536 /\ 2 ^ 16 = 65536
    /\ Direct = E(NBits)
    /\ TableSize = Direct + 2 * NSyms /\ TableSize \in Nat
  <1>1. NBits \in 1 .. 16 /\ PeekBits \in NBits .. 16 /\ NSyms \in Nat /\ NSyms <= E(NBits - 1)
    BY SizeAssumption DEF MaxCodeBits, E
  <1>2. Direct = E(NBits)
    BY DEF Direct, E
  <1>3. Sz(NBits) = E(16 - NBits)
    BY DEF Sz, E, MaxCodeBits
  <1>4. NBits - 1 \in 0 .. 31 /\ (NBits - 1) + 1 = NBits /\ NBits - 1 \in 0 .. 32
        /\ 16 - NBits \in 0 .. 32 /\ NBits \in 0 .. 32 - (16 - NBits) /\ (16 - NBits) + NBits = 16
    BY <1>1
  <1> DEFINE h == E(NBits - 1)
  <1>5. h \in Nat \ {0} /\ E(NBits) = 2 * h
    BY <1>4, Powers
  <1> HIDE DEF h
  <1>6. FirstPair = h
    <2>1. (2 * h) \div 2 = h
      BY <1>5
    <2>2. QED
      BY <1>2, <1>5, <2>1 DEF FirstPair
  <1>7. E(16) = E(16 - NBits) * E(NBits) /\ E(16 - NBits) \in Nat \ {0}
    <2>1. E((16 - NBits) + NBits) = E(16 - NBits) * E(NBits)
      BY <1>4, PowersMultiply
    <2>2. E((16 - NBits) + NBits) = E(16)
      BY <1>4
    <2>3. E(16 - NBits) \in Nat \ {0}
      BY <1>4, Powers
    <2>4. QED
      BY <2>1, <2>2, <2>3
  <1>8. Sz(NBits) * Direct = 65536
    BY <1>2, <1>3, <1>7, Powers
  <1>9. 2 ^ 16 = 65536
    OBVIOUS
  <1>10. NSyms <= h
    BY <1>1 DEF h
  <1>11. TableSize = Direct + 2 * NSyms
    BY DEF TableSize
  <1>12. QED
    BY <1>1, <1>2, <1>3, <1>5, <1>6, <1>7, <1>8, <1>9, <1>10, <1>11

\* The size of a code, counted in entries of the direct part and in the
\* space behind it.
LEMMA CodeSizes ==
    /\ \A n \in 1 .. NBits : E(NBits - n) * Sz(NBits) = Sz(n) /\ E(NBits - n) \in Nat \ {0}
    /\ \A n \in NBits .. 16 : E(16 + NBits - n) = Sz(n) * Direct /\ E(16 + NBits - n) \in Nat \ {0}
  <1>1. NBits \in 1 .. 16 /\ Direct = E(NBits)
    BY TableSizes
  <1>2. \A n \in 0 .. 16 : Sz(n) = E(16 - n)
    BY DEF Sz, E, MaxCodeBits
  <1>3. ASSUME NEW n \in 1 .. NBits
        PROVE  E(NBits - n) * Sz(NBits) = Sz(n) /\ E(NBits - n) \in Nat \ {0}
    <2>1. /\ NBits - n \in 0 .. 32 /\ 16 - NBits \in 0 .. 32 - (NBits - n)
          /\ (NBits - n) + (16 - NBits) = 16 - n /\ NBits \in 0 .. 16 /\ n \in 0 .. 16
      BY <1>1
    <2>2. E((NBits - n) + (16 - NBits)) = E(NBits - n) * E(16 - NBits)
      BY <2>1, PowersMultiply
    <2>3. E(NBits - n) \in Nat \ {0}
      BY <2>1, Powers
    <2> HIDE DEF E
    <2>4. QED
      BY <1>2, <2>1, <2>2, <2>3
  <1>4. ASSUME NEW n \in NBits .. 16
        PROVE  E(16 + NBits - n) = Sz(n) * Direct /\ E(16 + NBits - n) \in Nat \ {0}
    <2>1. /\ 16 - n \in 0 .. 32 /\ NBits \in 0 .. 32 - (16 - n)
          /\ (16 - n) + NBits = 16 + NBits - n /\ n \in 0 .. 16 /\ 16 + NBits - n \in 0 .. 32
      BY <1>1
    <2>2. E((16 - n) + NBits) = E(16 - n) * E(NBits)
      BY <2>1, PowersMultiply
    <2>3. E(16 + NBits - n) \in Nat \ {0}
      BY <2>1, Powers
    <2> HIDE DEF E
    <2>4. QED
      BY <1>1, <1>2, <2>1, <2>2, <2>3
  <1>5. QED
    BY <1>3, <1>4

\* Which half of [lo, lo + 2 * d) a number lies in is its bit at d.
LEMMA BitChooses ==
    ASSUME NEW d \in Nat \ {0}, NEW lo, Mult(lo, 2 * d), NEW x \in Nat, lo <= x, x < lo + 2 * d
    PROVE  LET b == (x \div d) % 2
           IN  /\ b \in {0, 1}
               /\ lo + b * d <= x /\ x < lo + b * d + d
  <1>1. PICK m \in Nat : lo = m * (2 * d)
    BY DEF Mult
  <1>2. lo = d * (2 * m) /\ lo \in Nat /\ d * (2 * m + 1) = d * (2 * m) + d
    BY <1>1
  <1>3. CASE x < lo + d
    <2> DEFINE r == x - lo
               q == 2 * m
    <2>1. r \in 0 .. d - 1 /\ x = d * q + r /\ q \in Int
      BY <1>2, <1>3
    <2> HIDE DEF r, q
    <2>11. x \div d = q
      BY <2>1, DivUnique
    <2>2. x \div d = 2 * m
      BY <2>11 DEF q
    <2>3. (2 * m) % 2 = 0
      OBVIOUS
    <2>4. (x \div d) % 2 = 0
      BY <2>2, <2>3
    <2>5. QED
      BY <1>2, <1>3, <2>4
  <1>4. CASE ~(x < lo + d)
    <2> DEFINE r == x - (lo + d)
               y == d * (2 * m)
    <2>1. y \in Nat /\ lo = y /\ d * (2 * m + 1) = y + d
      BY <1>2
    <2> HIDE DEF y
    <2>2. r \in 0 .. d - 1 /\ x = (y + d) + r
      BY <1>4, <2>1
    <2> HIDE DEF r
    <2> DEFINE q == 2 * m + 1
    <2>3. x = d * q + r /\ q \in Int
      BY <2>1, <2>2
    <2> HIDE DEF q
    <2>33. x \div d = q
      BY <2>2, <2>3, DivUnique
    <2>4. x \div d = 2 * m + 1
      BY <2>33 DEF q
    <2>5. (2 * m + 1) % 2 = 1
      OBVIOUS
    <2>6. (x \div d) % 2 = 1
      BY <2>4, <2>5
    <2>7. 1 * d = d
      OBVIOUS
    <2>8. lo + d <= x /\ x < (lo + d) + d
      BY <1>4, <1>2
    <2>9. QED
      BY <2>6, <2>7, <2>8
  <1>5. QED
    BY <1>3, <1>4

-----------------------------------------------------------------------------
(* The tree of entries *)

\* An entry stands for the codes that begin with some bits: n of them, and
\* lo is where these codes start.
Nodes == {v \in [n : NBits .. PeekBits, lo : Nat] : Mult(v.lo, Sz(v.n)) /\ v.lo < 65536}

Left(v)  == [n |-> v.n + 1, lo |-> v.lo]
Right(v) == [n |-> v.n + 1, lo |-> v.lo + Sz(v.n + 1)]

LEMMA NodeFacts ==
    ASSUME NEW v \in Nodes
    PROVE  /\ v.n \in NBits .. PeekBits /\ v.n \in 0 .. 16 /\ v.lo \in Nat
           /\ Mult(v.lo, Sz(v.n)) /\ Sz(v.n) \in Nat \ {0}
           /\ v.lo < 65536 /\ v.lo + Sz(v.n) <= 65536
           /\ v = [n |-> v.n, lo |-> v.lo]
  <1>1. v.n \in NBits .. PeekBits /\ v.lo \in Nat /\ Mult(v.lo, Sz(v.n)) /\ v.lo < 65536
        /\ v = [n |-> v.n, lo |-> v.lo]
    BY DEF Nodes
  <1>2. v.n \in 0 .. 16 /\ 16 \in v.n .. 16 /\ 0 \in 0 .. 16 /\ v.n \in 0 .. 16
    BY <1>1, TableSizes
  <1> DEFINE d == Sz(v.n)
  <1>3. d \in Nat \ {0}
    BY <1>2, Sizes16
  <1>4. Mult(65536, d)
    BY <1>2, Sizes16, SizesNest
  <1>5. v.lo + d <= 65536
    <2> HIDE DEF d
    <2>1. Mult(v.lo, d)
      BY <1>1 DEF d
    <2>2. QED
      BY <1>1, <1>3, <1>4, <2>1, MultApart
  <1>6. QED
    BY <1>1, <1>2, <1>3, <1>5

\* The children of a node are nodes, and halves of it.
LEMMA ChildFacts ==
    ASSUME NEW v \in Nodes, v.n < PeekBits
    PROVE  /\ Left(v) \in Nodes /\ Right(v) \in Nodes
           /\ v.n + 1 \in 0 .. 16
           /\ Sz(v.n) = 2 * Sz(v.n + 1) /\ Sz(v.n + 1) \in Nat \ {0}
           /\ Mult(v.lo, Sz(v.n + 1)) /\ Mult(v.lo + Sz(v.n + 1), Sz(v.n + 1))
           /\ Left(v).n = v.n + 1 /\ Left(v).lo = v.lo
           /\ Right(v).n = v.n + 1 /\ Right(v).lo = v.lo + Sz(v.n + 1)
  <1> DEFINE d == Sz(v.n)
             e == Sz(v.n + 1)
             x == v.lo
  <1>1. /\ v.n \in NBits .. PeekBits /\ v.n \in 0 .. 16 /\ x \in Nat
        /\ Mult(x, d) /\ d \in Nat \ {0} /\ x + d <= 65536
    BY NodeFacts
  <1>2. v.n \in 0 .. 15 /\ v.n + 1 \in 0 .. 16 /\ v.n + 1 \in NBits .. PeekBits
        /\ v.n + 1 \in v.n .. 16
    BY <1>1, TableSizes
  <1>3. e \in Nat \ {0} /\ d = 2 * e
    BY <1>2, Sizes16
  <1>4. Mult(d, e)
    BY <1>1, <1>2, SizesNest
  <1>5. Mult(x, e) /\ Mult(x + e, e)
    <2> HIDE DEF d, e, x
    <2>1. Mult(x, e)
      BY <1>1, <1>3, <1>4, MultFacts
    <2>2. Mult(e, e)
      BY <1>3, MultFacts
    <2>3. QED
      BY <1>3, <2>1, <2>2, MultFacts
  <1>6. x < 65536 /\ x + e < 65536 /\ x + e \in Nat
    BY <1>1, <1>3
  <1>7. Left(v) \in Nodes
    <2> HIDE DEF d, e, x
    <2>1. Left(v) = [n |-> v.n + 1, lo |-> x]
      BY DEF Left, x
    <2>2. Left(v) \in [n : NBits .. PeekBits, lo : Nat]
      BY <1>1, <1>2, <2>1
    <2>3. Mult(x, Sz(v.n + 1)) /\ x < 65536
      BY <1>5, <1>6 DEF e
    <2>4. QED
      BY <2>1, <2>2, <2>3 DEF Nodes
  <1>8. Right(v) \in Nodes
    <2> HIDE DEF d, e, x
    <2>1. Right(v) = [n |-> v.n + 1, lo |-> x + e]
      BY DEF Right, x, e
    <2>2. Right(v) \in [n : NBits .. PeekBits, lo : Nat]
      BY <1>2, <1>6, <2>1
    <2>3. Mult(x + e, Sz(v.n + 1)) /\ x + e < 65536
      BY <1>5, <1>6 DEF e
    <2>4. QED
      BY <2>1, <2>2, <2>3 DEF Nodes
  <1>9. QED
    BY <1>2, <1>3, <1>5, <1>7, <1>8 DEF Left, Right

\* A point between two halves is that of one node only.
LEMMA MiddleOfOne ==
    ASSUME NEW v \in Nodes, v.n < PeekBits, NEW w \in Nodes, w.n < PeekBits,
           Right(v).lo = Right(w).lo
    PROVE  v = w
  <1>1. ASSUME NEW a \in Nodes, a.n < PeekBits, NEW b \in Nodes, b.n < PeekBits,
               Right(a).lo = Right(b).lo, a.n < b.n
        PROVE  FALSE
    <2> DEFINE x == a.lo
               e == Sz(a.n + 1)
               y == b.lo
               d == Sz(b.n)
               f == Sz(b.n + 1)
    <2>1. x + e = y + f
      BY <1>1, ChildFacts
    <2>2. Mult(x + e, e) /\ e \in Nat \ {0} /\ x \in Nat
      BY <1>1, ChildFacts, NodeFacts
    <2>3. Mult(y, d) /\ d \in Nat \ {0} /\ y \in Nat
      BY NodeFacts
    <2>4. d = 2 * f /\ f \in Nat \ {0}
      BY <1>1, ChildFacts
    <2>5. Mult(e, d)
      <3>1. a.n + 1 \in 0 .. 16 /\ b.n \in a.n + 1 .. 16
        BY <1>1, NodeFacts
      <3>2. QED
        BY <3>1, SizesNest
    <2> HIDE DEF x, e, y, d, f
    <2>6. Mult(x + e, d)
      BY <2>2, <2>3, <2>5, MultFacts
    <2>7. y < x + e
      BY <2>1, <2>3, <2>4
    <2>8. y + d <= x + e
      BY <2>3, <2>6, <2>7, MultApart
    <2>9. QED
      BY <2>1, <2>3, <2>4, <2>8
  <1>2. v.n = w.n
    <2>1. v.n \in 0 .. 16 /\ w.n \in 0 .. 16
      BY NodeFacts
    <2>2. ~(v.n < w.n) /\ ~(w.n < v.n)
      BY <1>1
    <2>3. QED
      BY <2>1, <2>2
  <1>3. v.lo = w.lo
    <2>1. v.lo \in Nat /\ w.lo \in Nat /\ Sz(v.n + 1) \in Nat
      BY NodeFacts, ChildFacts
    <2>2. v.lo + Sz(v.n + 1) = w.lo + Sz(v.n + 1)
      BY <1>2, ChildFacts
    <2>3. QED
      BY <2>1, <2>2
  <1>4. QED
    BY <1>2, <1>3, NodeFacts

\* N says which node an entry stands for: each stands for one of its own, and
\* in the middle of a pair a code begins.
Shape(N, pair) ==
    /\ pair \in Nat /\ pair >= FirstPair
    /\ N \in [0 .. 2 * pair - 1 -> Nodes]
    /\ \A i \in 0 .. Direct - 1 : N[i] = [n |-> NBits, lo |-> i * Sz(NBits)]
    /\ \A i, j \in 0 .. 2 * pair - 1 : N[i] = N[j] => i = j
    /\ \A q \in FirstPair .. pair - 1 :
         /\ \E v \in Nodes : v.n < PeekBits /\ N[2 * q] = Left(v) /\ N[2 * q + 1] = Right(v)
         /\ \E s \in Coded : FirstCode(s) = N[2 * q + 1].lo

\* So there are no more pairs than symbols.
LEMMA PairBound ==
    ASSUME LengthsOK, NEW N, NEW pair, Shape(N, pair)
    PROVE  2 * pair <= TableSize
  <1> DEFINE Q == FirstPair .. pair - 1
             f == [q \in Q |-> CHOOSE s \in Coded : FirstCode(s) = N[2 * q + 1].lo]
  <1>0. FirstPair \in Nat /\ pair \in Nat /\ pair >= FirstPair /\ Coded \in SUBSET Symbols
    BY TableSizes, CodedFacts DEF Shape
  <1>1. \A q \in Q : f[q] \in Symbols /\ FirstCode(f[q]) = N[2 * q + 1].lo
    BY <1>0 DEF Shape
  <1>2. f \in [Q -> Symbols]
    BY <1>1
  <1>3. IsFiniteSet(Q) /\ Cardinality(Q) = pair - FirstPair
    <2>1. FirstPair \in Int /\ pair - 1 \in Int
      BY <1>0
    <2>2. IsFiniteSet(FirstPair .. pair - 1)
          /\ Cardinality(FirstPair .. pair - 1) = IF FirstPair > pair - 1 THEN 0
                                                  ELSE (pair - 1) - FirstPair + 1
      BY <2>1, FS_Interval
    <2>3. QED
      BY <1>0, <2>2
  <1> HIDE DEF f
  <1>4. ASSUME NEW x \in Q, NEW y \in Q, f[x] = f[y]
        PROVE  x = y
    <2>1. PICK v \in Nodes : v.n < PeekBits /\ N[2 * x] = Left(v) /\ N[2 * x + 1] = Right(v)
      BY DEF Shape
    <2>2. PICK w \in Nodes : w.n < PeekBits /\ N[2 * y] = Left(w) /\ N[2 * y + 1] = Right(w)
      BY DEF Shape
    <2>3. Right(v).lo = Right(w).lo
      BY <1>1, <1>4, <2>1, <2>2
    <2>4. v = w
      BY <2>1, <2>2, <2>3, MiddleOfOne
    <2>5. 2 * x \in 0 .. 2 * pair - 1 /\ 2 * y \in 0 .. 2 * pair - 1
      BY <1>0
    <2>6. 2 * x = 2 * y
      BY <2>1, <2>2, <2>4, <2>5 DEF Shape
    <2>7. QED
      BY <1>0, <2>6
  <1>5. ~(Cardinality(Symbols) < Cardinality(Q))
    <2> HIDE DEF Q
    <2>1. QED
      BY <1>2, <1>3, <1>4, SymbolFacts, FS_PigeonHole
  <1>6. pair - FirstPair <= NSyms
    BY <1>0, <1>3, <1>5, SymbolFacts
  <1>7. QED
    BY <1>0, <1>6, TableSizes, SymbolFacts

\* A new pair, for the node v.
WithPair(N, pair, v) ==
    [i \in 0 .. 2 * (pair + 1) - 1 |->
        IF i < 2 * pair THEN N[i] ELSE IF i = 2 * pair THEN Left(v) ELSE Right(v)]

LEMMA ShapeGrows ==
    ASSUME LengthsOK, NEW N, NEW pair, Shape(N, pair), NEW v \in Nodes, v.n < PeekBits,
           \A i \in 0 .. 2 * pair - 1 : N[i] # Left(v) /\ N[i] # Right(v),
           NEW s \in Coded, FirstCode(s) = Right(v).lo
    PROVE  LET M == WithPair(N, pair, v)
           IN  /\ Shape(M, pair + 1)
               /\ \A i \in 0 .. 2 * pair - 1 : M[i] = N[i]
               /\ M[2 * pair] = Left(v) /\ M[2 * pair + 1] = Right(v)
  <1> DEFINE M == WithPair(N, pair, v)
  <1>0. /\ pair \in Nat /\ pair >= FirstPair /\ FirstPair \in Nat /\ Direct = 2 * FirstPair
        /\ N \in [0 .. 2 * pair - 1 -> Nodes]
        /\ Left(v) \in Nodes /\ Right(v) \in Nodes
    BY TableSizes, ChildFacts DEF Shape
  <1>1. \A i \in 0 .. 2 * pair - 1 : M[i] = N[i]
    BY <1>0 DEF WithPair
  <1>2. M[2 * pair] = Left(v) /\ M[2 * pair + 1] = Right(v)
    BY <1>0 DEF WithPair
  <1>3. M = [i \in 0 .. 2 * (pair + 1) - 1 |-> M[i]]
    BY DEF WithPair
  <1> HIDE DEF M
  <1>4. \A i \in 0 .. 2 * (pair + 1) - 1 : i \in 0 .. 2 * pair - 1 \/ i = 2 * pair \/ i = 2 * pair + 1
    BY <1>0
  <1>5. M \in [0 .. 2 * (pair + 1) - 1 -> Nodes]
    <2>1. \A i \in 0 .. 2 * (pair + 1) - 1 : M[i] \in Nodes
      BY <1>0, <1>1, <1>2, <1>4
    <2>2. QED
      BY <1>3, <2>1
  <1>6. \A i \in 0 .. Direct - 1 : M[i] = [n |-> NBits, lo |-> i * Sz(NBits)]
    <2>1. \A i \in 0 .. Direct - 1 : i \in 0 .. 2 * pair - 1
      BY <1>0
    <2>2. QED
      BY <1>1, <2>1 DEF Shape
  <1>7. Left(v) # Right(v)
    <2>1. Left(v).lo = v.lo /\ Right(v).lo = v.lo + Sz(v.n + 1) /\ Sz(v.n + 1) \in Nat \ {0}
          /\ v.lo \in Nat
      BY ChildFacts, NodeFacts
    <2>2. Left(v).lo # Right(v).lo
      BY <2>1
    <2>3. QED
      BY <2>2
  <1>8. ASSUME NEW i \in 0 .. 2 * (pair + 1) - 1, NEW j \in 0 .. 2 * (pair + 1) - 1, M[i] = M[j]
        PROVE  i = j
    <2>1. CASE i \in 0 .. 2 * pair - 1 /\ j \in 0 .. 2 * pair - 1
      BY <1>1, <1>8, <2>1 DEF Shape
    <2>2. CASE i \in 0 .. 2 * pair - 1 /\ j \notin 0 .. 2 * pair - 1
      BY <1>1, <1>2, <1>4, <1>8, <2>2
    <2>3. CASE i \notin 0 .. 2 * pair - 1 /\ j \in 0 .. 2 * pair - 1
      BY <1>1, <1>2, <1>4, <1>8, <2>3
    <2>4. CASE i \notin 0 .. 2 * pair - 1 /\ j \notin 0 .. 2 * pair - 1
      BY <1>2, <1>4, <1>7, <1>8, <2>4
    <2>5. QED
      BY <2>1, <2>2, <2>3, <2>4
  <1>9. ASSUME NEW q \in FirstPair .. (pair + 1) - 1
        PROVE  /\ \E u \in Nodes : u.n < PeekBits /\ M[2 * q] = Left(u) /\ M[2 * q + 1] = Right(u)
               /\ \E t \in Coded : FirstCode(t) = M[2 * q + 1].lo
    <2>1. CASE q = pair
      BY <1>2, <2>1
    <2>2. CASE q # pair
      <3>1. q \in FirstPair .. pair - 1 /\ 2 * q \in 0 .. 2 * pair - 1 /\ 2 * q + 1 \in 0 .. 2 * pair - 1
        BY <1>0, <2>2
      <3>2. M[2 * q] = N[2 * q] /\ M[2 * q + 1] = N[2 * q + 1]
        BY <1>1, <3>1
      <3>3. QED
        BY <3>1, <3>2 DEF Shape
    <2>3. QED
      BY <2>1, <2>2
  <1>10. Shape(M, pair + 1)
    <2>1. pair + 1 \in Nat /\ pair + 1 >= FirstPair
      BY <1>0
    <2>2. QED
      BY <2>1, <1>5, <1>6, <1>8, <1>9 DEF Shape
  <1>11. QED
    BY <1>1, <1>2, <1>10 DEF M

Tables == [0 .. TableSize - 1 -> {Old} \union 0 .. TableSize]

\* The code of s begins with the bits the node v stands for.
Within(s, v) == FirstCode(s) <= v.lo /\ v.lo + Sz(v.n) <= FirstCode(s) + Space(s)

\* An entry that has been opened leads to its symbol, or to its children.
Leads(N, tab, pair, i) ==
    \/ tab[i] \in Coded /\ Within(tab[i], N[i])
    \/ /\ tab[i] \in FirstPair .. pair - 1
       /\ N[i].n < PeekBits
       /\ N[2 * tab[i]] = Left(N[i]) /\ N[2 * tab[i] + 1] = Right(N[i])

\* Codes below c have been placed, and on the path to c the nodes of less than
\* d bits are passed.
Opened(v, c, d) == v.lo < c \/ (v.lo = c /\ v.n < d)

Grown(N, tab, pair, c, d) ==
    /\ tab \in Tables
    /\ Shape(N, pair)
    /\ \A i \in 0 .. 2 * pair - 1 : IF Opened(N[i], c, d) THEN Leads(N, tab, pair, i) ELSE tab[i] = 0
    /\ \A i \in Direct .. 2 * pair - 1 : \E j \in 0 .. 2 * pair - 1 : tab[j] = i \div 2

LEMMA GrownFacts ==
    ASSUME LengthsOK, NEW N, NEW tab, NEW pair, NEW c, NEW d, Grown(N, tab, pair, c, d)
    PROVE  /\ 2 * pair <= TableSize /\ pair \in Nat /\ pair >= FirstPair
           /\ \A i \in 0 .. 2 * pair - 1 : i \in 0 .. TableSize - 1 /\ N[i] \in Nodes /\ tab[i] \in Int
  <1>1. 2 * pair <= TableSize
    BY PairBound DEF Grown
  <1>2. pair \in Nat /\ pair >= FirstPair /\ TableSize \in Nat
    BY TableSizes DEF Grown, Shape
  <1>3. \A i \in 0 .. 2 * pair - 1 : i \in 0 .. TableSize - 1
    BY <1>1, <1>2
  <1>4. \A i \in 0 .. 2 * pair - 1 : N[i] \in Nodes
    BY DEF Grown, Shape
  <1>5. \A i \in 0 .. TableSize - 1 : tab[i] \in {Old} \union 0 .. TableSize
    BY DEF Grown, Tables
  <1>6. \A x \in {Old} \union 0 .. TableSize : x \in Int
    BY <1>2 DEF Old
  <1>7. QED
    BY <1>1, <1>2, <1>3, <1>4, <1>5, <1>6

\* Who is the parent of an entry behind the direct part.
LEMMA ParentOf ==
    ASSUME LengthsOK, NEW N, NEW tab, NEW pair, NEW c, NEW d, Grown(N, tab, pair, c, d),
           NEW i \in Direct .. 2 * pair - 1
    PROVE  \E j \in 0 .. 2 * pair - 1 :
              /\ tab[j] = i \div 2 /\ tab[j] # 0 /\ tab[j] \notin Coded
              /\ Opened(N[j], c, d)
              /\ N[j].n < PeekBits
              /\ N[i] = Left(N[j]) \/ N[i] = Right(N[j])
  <1>1. PICK j \in 0 .. 2 * pair - 1 : tab[j] = i \div 2
    BY DEF Grown
  <1>0. pair \in Nat /\ FirstPair \in Nat \ {0} /\ Direct = 2 * FirstPair /\ NSyms <= FirstPair
        /\ i \in Int
    BY TableSizes, GrownFacts
  <1> DEFINE q == i \div 2
  <1>2. q \in FirstPair .. pair - 1 /\ (i = 2 * q \/ i = 2 * q + 1)
    <2>0. i \in Int /\ 2 \in Nat \ {0}
      BY <1>0
    <2>1. i = 2 * q + (i % 2) /\ q \in Int /\ (i % 2) \in 0 .. 2 - 1
      BY <2>0, DivFacts
    <2> HIDE DEF q
    <2>2. i % 2 = 0 \/ i % 2 = 1
      BY <2>1
    <2>3. i = 2 * q \/ i = 2 * q + 1
      BY <2>1, <2>2
    <2>4. QED
      BY <1>0, <2>1, <2>3
  <1> HIDE DEF q
  <1>3. tab[j] = q /\ q # 0 /\ q \notin Coded
    <2>1. q \notin Symbols
      BY <1>0, <1>2, SymbolFacts
    <2>2. QED
      BY <1>0, <1>1, <1>2, <2>1, CodedFacts DEF q
  <1>4. Opened(N[j], c, d) /\ Leads(N, tab, pair, j)
    BY <1>3 DEF Grown
  <1>5. N[j].n < PeekBits /\ N[2 * q] = Left(N[j]) /\ N[2 * q + 1] = Right(N[j])
    BY <1>3, <1>4 DEF Leads
  <1>6. N[i] = Left(N[j]) \/ N[i] = Right(N[j])
    BY <1>2, <1>5
  <1>7. tab[j] = i \div 2
    BY <1>1
  <1>8. QED
    BY <1>3, <1>4, <1>5, <1>6, <1>7

\* Where the path of a code is, behind k bits.
PathStates == [table : Tables, pair : Nat, leaf : Nat]

OnPath(N, p, c, k) ==
    /\ Grown(N, p.table, p.pair, c, k)
    /\ p.leaf \in 0 .. 2 * p.pair - 1
    /\ N[p.leaf].n = k /\ N[p.leaf].lo <= c /\ c < N[p.leaf].lo + Sz(k)

\* The code that is placed next, and a step of its path.
NextCode(cur, k) ==
    /\ cur \in Coded
    /\ length[cur] <= PeekBits
    /\ k \in NBits .. length[cur] - 1

LEMMA NextCodeFacts ==
    ASSUME LengthsOK, NEW cur, NEW k, NextCode(cur, k)
    PROVE  /\ FirstCode(cur) \in Nat /\ Space(cur) = Sz(length[cur]) /\ Space(cur) \in Nat \ {0}
           /\ length[cur] \in 1 .. 16 /\ k \in 0 .. 15 /\ k + 1 \in 0 .. 16 /\ k < PeekBits
           /\ length[cur] \in k + 1 .. 16
           /\ Sz(k) \in Nat \ {0} /\ Sz(k + 1) \in Nat \ {0} /\ Sz(k) = 2 * Sz(k + 1)
           /\ Space(cur) <= Sz(k + 1)
           /\ Covers(cur, FirstCode(cur))
  <1>1. FirstCode(cur) \in Nat /\ Space(cur) = Sz(length[cur]) /\ Space(cur) \in Nat \ {0}
        /\ length[cur] \in 1 .. 16
    BY CodedFacts DEF NextCode
  <1>2. k \in 0 .. 15 /\ k + 1 \in 0 .. 16 /\ k < PeekBits /\ length[cur] \in k + 1 .. 16
        /\ k \in 0 .. 16
    BY <1>1, TableSizes DEF NextCode
  <1>3. Sz(k) \in Nat \ {0} /\ Sz(k + 1) \in Nat \ {0} /\ Sz(k) = 2 * Sz(k + 1)
    BY <1>2, Sizes16
  <1>4. Sz(length[cur]) <= Sz(k + 1)
    BY <1>2, SizesNest
  <1>5. Covers(cur, FirstCode(cur))
    <2> DEFINE a == FirstCode(cur)
               b == Space(cur)
    <2>1. a \in Nat /\ b \in Nat \ {0}
      BY <1>1
    <2> HIDE DEF a, b
    <2>2. a <= a /\ a < a + b
      BY <2>1
    <2>3. QED
      BY <2>2 DEF a, b, Covers
  <1>6. QED
    BY <1>1, <1>2, <1>3, <1>4, <1>5

\* No symbol that has been placed is in the way.
LEMMA NoSymbolOnPath ==
    ASSUME LengthsOK, NEW cur, NEW k, NextCode(cur, k), NEW N, NEW p \in PathStates,
           OnPath(N, p, FirstCode(cur), k), Opened(N[p.leaf], FirstCode(cur), k)
    PROVE  /\ N[p.leaf].lo < FirstCode(cur)
           /\ p.table[p.leaf] \in FirstPair .. p.pair - 1
           /\ N[2 * p.table[p.leaf]] = Left(N[p.leaf])
           /\ N[2 * p.table[p.leaf] + 1] = Right(N[p.leaf])
           /\ p.table[p.leaf] # 0
  <1> DEFINE c == FirstCode(cur)
             v == N[p.leaf]
             s == p.table[p.leaf]
  <1>1. v \in Nodes /\ v.n = k /\ v.lo <= c /\ c < v.lo + Sz(k)
    BY GrownFacts DEF OnPath
  <1>2. v.lo \in Nat /\ k \in Nat /\ c \in Nat
    BY <1>1, NodeFacts, NextCodeFacts
  <1>3. v.lo < c
    BY <1>1, <1>2 DEF Opened
  <1>4. Leads(N, p.table, p.pair, p.leaf)
    BY DEF OnPath, Grown
  <1>5. ~(s \in Coded /\ Within(s, v))
    <2> SUFFICES ASSUME s \in Coded, Within(s, v) PROVE FALSE
      OBVIOUS
    <2>1. FirstCode(s) \in Nat /\ Space(s) \in Nat /\ Sz(k) \in Nat
      BY CodedFacts, NextCodeFacts
    <2>2. FirstCode(s) <= v.lo /\ v.lo + Sz(k) <= FirstCode(s) + Space(s)
      BY <1>1 DEF Within
    <2> HIDE DEF c, v, s
    <2>3. Covers(s, c)
      BY <1>1, <1>2, <2>1, <2>2 DEF Covers
    <2>4. Covers(cur, c) /\ cur \in Coded
      BY NextCodeFacts DEF c, NextCode
    <2>5. s = cur
      BY <1>2, <2>3, <2>4, CanonicalCode
    <2>6. QED
      BY <1>2, <1>3, <2>1, <2>2, <2>5 DEF c
  <1>6. /\ s \in FirstPair .. p.pair - 1
        /\ N[2 * s] = Left(v) /\ N[2 * s + 1] = Right(v)
    BY <1>4, <1>5 DEF Leads
  <1>7. s # 0
    BY <1>6, TableSizes
  <1>8. QED
    BY <1>3, <1>6, <1>7

\* The half a path goes on into.
LEMMA HalfOfPath ==
    ASSUME LengthsOK, NEW cur, NEW k, NextCode(cur, k), NEW v \in Nodes, v.n = k,
           v.lo <= FirstCode(cur), FirstCode(cur) < v.lo + Sz(k),
           NEW b, b = (FirstCode(cur) \div Sz(k + 1)) % 2,
           NEW w, w = (IF b = 0 THEN Left(v) ELSE Right(v))
    PROVE  /\ b \in {0, 1}
           /\ w.n = k + 1 /\ w.lo <= FirstCode(cur) /\ FirstCode(cur) < w.lo + Sz(k + 1)
  <1> DEFINE c == FirstCode(cur)
             d == Sz(k + 1)
             x == v.lo
  <1>1. c \in Nat /\ d \in Nat \ {0} /\ Sz(k) = 2 * d /\ k < PeekBits
    BY NextCodeFacts
  <1>2. x \in Nat /\ Mult(x, 2 * d) /\ x <= c /\ c < x + 2 * d
    BY <1>1, NodeFacts
  <1>3. Left(v).n = k + 1 /\ Left(v).lo = x /\ Right(v).n = k + 1 /\ Right(v).lo = x + d
    BY <1>1, ChildFacts
  <1> HIDE DEF c, d, x
  <1>4. b = (c \div d) % 2
    BY DEF c, d
  <1>5. b \in {0, 1} /\ x + b * d <= c /\ c < x + b * d + d
    BY <1>1, <1>2, <1>4, BitChooses
  <1>6. CASE b = 0
    <2>1. x + 0 * d = x
      BY <1>1, <1>2
    <2>2. QED
      BY <1>3, <1>5, <1>6, <2>1 DEF c, d
  <1>7. CASE b = 1
    <2>1. x + 1 * d = x + d
      BY <1>1, <1>2
    <2>2. QED
      BY <1>3, <1>5, <1>7, <2>1 DEF c, d
  <1>8. QED
    BY <1>5, <1>6, <1>7

\* A step of the path to a node that has its pair already.
LEMMA PairFollowed ==
    ASSUME LengthsOK, NEW cur, NEW k, NextCode(cur, k), NEW N, NEW p \in PathStates,
           OnPath(N, p, FirstCode(cur), k), p.table[p.leaf] # 0,
           NEW fill, PathBit(fill) = (FirstCode(cur) \div Sz(k + 1)) % 2
    PROVE  Follow(p, fill) \in PathStates /\ OnPath(N, Follow(p, fill), FirstCode(cur), k + 1)
  <1> DEFINE c == FirstCode(cur)
             v == N[p.leaf]
             s == p.table[p.leaf]
             b == PathBit(fill)
             r == [p EXCEPT !.leaf = 2 * s + b]
  <1>1. Follow(p, fill) = r
    BY DEF Follow
  <1>2. Opened(v, c, k)
    BY DEF OnPath, Grown
  <1>3. /\ v.lo < c /\ s \in FirstPair .. p.pair - 1
        /\ N[2 * s] = Left(v) /\ N[2 * s + 1] = Right(v)
    BY <1>2, NoSymbolOnPath
  <1>4. v \in Nodes /\ v.n = k /\ v.lo <= c /\ c < v.lo + Sz(k)
    BY GrownFacts DEF OnPath
  <1>5. c \in Nat /\ k \in 0 .. 15 /\ Sz(k) \in Nat \ {0} /\ v.lo \in Nat /\ Mult(v.lo, Sz(k))
    BY <1>4, NodeFacts, NextCodeFacts
  <1> DEFINE w == IF b = 0 THEN Left(v) ELSE Right(v)
  <1>6. b \in {0, 1} /\ w.n = k + 1 /\ w.lo <= c /\ c < w.lo + Sz(k + 1)
    <2> HIDE DEF b, w, v
    <2>1. b = (FirstCode(cur) \div Sz(k + 1)) % 2
      BY DEF b
    <2>2. w = (IF b = 0 THEN Left(v) ELSE Right(v))
      BY DEF w
    <2>3. QED
      BY <1>4, <2>1, <2>2, HalfOfPath
  <1>7. /\ p.table \in Tables /\ p.pair \in Nat /\ p.leaf \in Nat
        /\ p = [table |-> p.table, pair |-> p.pair, leaf |-> p.leaf]
    BY DEF PathStates
  <1>8. FirstPair \in Nat \ {0}
    BY TableSizes
  <1>9. 2 * s + b \in Nat /\ 2 * s + b \in 0 .. 2 * p.pair - 1
    BY <1>3, <1>6, <1>7, <1>8
  <1>10. r.table = p.table /\ r.pair = p.pair /\ r.leaf = 2 * s + b /\ r \in PathStates
    <2>1. r = [table |-> p.table, pair |-> p.pair, leaf |-> 2 * s + b]
      BY <1>7
    <2> HIDE DEF r, s, b
    <2>2. QED
      BY <1>7, <1>9, <2>1 DEF PathStates
  <1>11. N[r.leaf] = w
    <2>1. CASE b = 0
      <3>1. 2 * s + b = 2 * s
        BY <1>3, <1>8, <2>1
      <3>2. QED
        BY <1>3, <1>10, <2>1, <3>1
    <2>2. CASE b = 1
      BY <1>3, <1>10, <2>2
    <2>3. QED
      BY <1>6, <2>1, <2>2
  <1>12. ASSUME NEW i \in 0 .. 2 * p.pair - 1
         PROVE  Opened(N[i], c, k + 1) <=> Opened(N[i], c, k)
    <2> DEFINE u == N[i]
               x == v.lo
               y == u.lo
               d == Sz(k)
    <2>1. u \in Nodes
      BY GrownFacts DEF OnPath
    <2>2. u.n \in 0 .. 16 /\ y \in Nat /\ Mult(y, Sz(u.n))
      BY <2>1, NodeFacts
    <2>3. ~(y = c /\ u.n = k)
      <3> SUFFICES ASSUME y = c, u.n = k PROVE FALSE
        OBVIOUS
      <3>1. Mult(x, d) /\ Mult(y, d) /\ x < y /\ d \in Nat \ {0} /\ x \in Nat /\ y \in Nat
        BY <1>3, <1>5, <2>2
      <3>2. y < x + d
        BY <1>4
      <3> HIDE DEF x, y, d
      <3>3. x + d <= y
        BY <3>1, MultApart
      <3>4. QED
        BY <3>1, <3>2, <3>3
    <2> HIDE DEF u, x, y, d
    <2>4. u.n < k + 1 <=> (u.n < k \/ u.n = k)
      BY <1>5, <2>2
    <2>5. QED
      BY <2>3, <2>4 DEF Opened, u, y
  <1>13. Grown(N, p.table, p.pair, c, k + 1)
    <2>1. Grown(N, p.table, p.pair, c, k)
      BY DEF OnPath
    <2> HIDE DEF c
    <2>2. QED
      BY <1>12, <2>1 DEF Grown
  <1> HIDE DEF c, v, s, b, r, w
  <1>14. OnPath(N, r, c, k + 1)
    BY <1>6, <1>9, <1>10, <1>11, <1>13 DEF OnPath
  <1>15. QED
    BY <1>1, <1>10, <1>14 DEF c

\* A code begins in the middle of the node where the path of the next code
\* leaves what has been grown.
LEMMA CodeInTheMiddle ==
    ASSUME LengthsOK, CodeSpace = 65536, NEW cur, NEW k, NextCode(cur, k),
           NEW v \in Nodes, v.n = k, v.lo = FirstCode(cur)
    PROVE  \E t \in Coded : FirstCode(t) = Right(v).lo
  <1> DEFINE c == FirstCode(cur)
             d == Sz(k + 1)
             x == c + d
  <1>1. c \in Nat /\ d \in Nat \ {0} /\ Sz(k) = 2 * d /\ k < PeekBits
        /\ Space(cur) \in Nat \ {0} /\ Space(cur) <= d
    BY NextCodeFacts
  <1>2. Right(v).lo = x /\ Mult(x, d)
    BY <1>1, ChildFacts
  <1>3. x \in Nat /\ x < CodeSpace
    <2>1. c + Sz(k) <= 65536
      BY NodeFacts
    <2>2. QED
      BY <1>1, <2>1
  <1>4. PICK t \in Coded : Covers(t, x)
    BY <1>3, CanonicalCode
  <1>5. /\ FirstCode(t) \in Nat /\ Space(t) \in Nat \ {0} /\ Space(t) = Sz(length[t])
        /\ length[t] \in 1 .. 16 /\ cur \in Coded
    BY CodedFacts DEF NextCode
  <1>6. FirstCode(t) <= x /\ x < FirstCode(t) + Space(t)
    BY <1>4 DEF Covers
  <1>7. Precedes(cur, t)
    <2>1. ASSUME Precedes(t, cur) PROVE FALSE
      <3>1. FirstCode(t) + Space(t) <= c
        BY <1>5, <2>1, CanonicalCode
      <3>2. QED
        BY <1>1, <1>5, <1>6, <3>1
    <2>2. ASSUME t = cur PROVE FALSE
      <3>1. x < c + Space(cur)
        BY <1>6, <2>2
      <3>2. QED
        BY <1>1, <3>1
    <2>3. QED
      BY <1>5, <2>1, <2>2, CanonicalCode
  <1>8. length[t] \in k + 1 .. 16
    BY <1>5, <1>7, NextCodeFacts DEF Precedes
  <1>9. Mult(d, Space(t))
    BY <1>5, <1>8, NextCodeFacts, SizesNest
  <1>10. FirstCode(t) = x
    <2> DEFINE e == Space(t)
               y == FirstCode(t)
    <2>1. Mult(y, e) /\ e \in Nat \ {0} /\ y \in Nat
      BY <1>5, CanonicalCode
    <2>2. Mult(d, e) /\ y <= x /\ x < y + e
      BY <1>6, <1>9
    <2> HIDE DEF e, y, x, d
    <2>3. Mult(x, e)
      BY <1>1, <1>2, <2>1, <2>2, MultFacts
    <2>4. y < x => y + e <= x
      BY <2>1, <2>3, MultApart
    <2>5. y = x
      BY <1>3, <2>1, <2>2, <2>4
    <2>6. QED
      BY <2>5 DEF y
  <1>11. QED
    BY <1>2, <1>10

\* The children of a node that has not been opened are not there yet.
LEMMA NoChildrenYet ==
    ASSUME LengthsOK, NEW N, NEW tab, NEW pair, NEW c, NEW d, Grown(N, tab, pair, c, d),
           NEW l \in 0 .. 2 * pair - 1, tab[l] = 0, N[l].n < PeekBits,
           NEW i \in 0 .. 2 * pair - 1
    PROVE  N[i] # Left(N[l]) /\ N[i] # Right(N[l])
  <1> SUFFICES ASSUME N[i] = Left(N[l]) \/ N[i] = Right(N[l]) PROVE FALSE
    OBVIOUS
  <1> DEFINE v == N[l]
  <1>1. v \in Nodes /\ N[i] \in Nodes /\ v.n \in NBits .. PeekBits /\ NBits \in Nat /\ v.lo \in Nat
        /\ pair \in Nat /\ Direct \in Nat
    BY GrownFacts, NodeFacts, TableSizes
  <1>2. N[i].n = v.n + 1 /\ v.n + 1 # NBits
    BY <1>1, ChildFacts
  <1>3. i \in Direct .. 2 * pair - 1
    <2>1. ASSUME i < Direct PROVE FALSE
      <3>1. i \in 0 .. Direct - 1
        BY <1>1, <2>1
      <3>2. N[i] = [n |-> NBits, lo |-> i * Sz(NBits)]
        BY <3>1 DEF Grown, Shape
      <3> DEFINE z == i * Sz(NBits)
      <3>3. N[i] = [n |-> NBits, lo |-> z]
        BY <3>2
      <3> HIDE DEF z
      <3>4. N[i].n = NBits
        BY <3>3
      <3>5. QED
        BY <1>2, <3>4
    <2>2. QED
      BY <1>1, <2>1
  <1>4. PICK j \in 0 .. 2 * pair - 1 :
              /\ tab[j] # 0
              /\ N[j].n < PeekBits
              /\ N[i] = Left(N[j]) \/ N[i] = Right(N[j])
    BY <1>3, ParentOf
  <1> DEFINE w == N[j]
  <1>5. w \in Nodes /\ w.n \in Nat /\ w.lo \in Nat
    BY GrownFacts, NodeFacts, TableSizes
  <1>6. w.n = v.n
    <2>1. N[i].n = w.n + 1
      BY <1>4, <1>5, ChildFacts
    <2>2. v.n \in Nat
      BY <1>1
    <2>3. QED
      BY <1>2, <1>5, <2>1, <2>2
  <1>7. w.lo = v.lo
    <2> DEFINE x == v.lo
               y == w.lo
               e == Sz(v.n + 1)
               f == Sz(v.n)
    <2>1. f = 2 * e /\ e \in Nat \ {0} /\ Mult(x, f) /\ Mult(y, f) /\ x \in Nat /\ y \in Nat
      BY <1>1, <1>5, <1>6, ChildFacts, NodeFacts
    <2>2. N[i].lo = x \/ N[i].lo = x + e
      BY <1>1, ChildFacts
    <2>3. N[i].lo = y \/ N[i].lo = y + e
      BY <1>4, <1>5, <1>6, ChildFacts
    <2> HIDE DEF x, y, e, f
    <2>4. x < y => x + f <= y
      BY <2>1, MultApart
    <2>5. y < x => y + f <= x
      BY <2>1, MultApart
    <2>6. x = y
      BY <2>1, <2>2, <2>3, <2>4, <2>5
    <2>7. QED
      BY <2>6 DEF x, y
  <1>8. w = v
    BY <1>1, <1>5, <1>6, <1>7, NodeFacts
  <1>9. j = l
    BY <1>8 DEF Grown, Shape
  <1>10. QED
    BY <1>4, <1>9

LEMMA EntriesWritten ==
    ASSUME NEW D, NEW S, NEW tab \in [D -> S], NEW i \in D, NEW j \in D, NEW l \in D,
           i # j, l # i, l # j, NEW a \in S, NEW q \in S
    PROVE  LET T == [tab EXCEPT ![i] = a, ![j] = a, ![l] = q]
           IN  /\ T \in [D -> S] /\ T[i] = a /\ T[j] = a /\ T[l] = q
               /\ \A x \in D : x # i /\ x # j /\ x # l => T[x] = tab[x]
  OBVIOUS

\* A step of the path to a node that has no pair yet: it gets the next one.
LEMMA PairAdded ==
    ASSUME LengthsOK, CodeSpace = 65536, NEW cur, NEW k, NextCode(cur, k), NEW N,
           NEW p \in PathStates, OnPath(N, p, FirstCode(cur), k), p.table[p.leaf] = 0,
           NEW fill, PathBit(fill) = (FirstCode(cur) \div Sz(k + 1)) % 2
    PROVE  Follow(p, fill) \in PathStates
           /\ \E M : OnPath(M, Follow(p, fill), FirstCode(cur), k + 1)
  <1> DEFINE c == FirstCode(cur)
             l == p.leaf
             v == N[l]
             q == p.pair
             tab == p.table
             b == PathBit(fill)
             T == [tab EXCEPT ![2 * q] = 0, ![2 * q + 1] = 0, ![l] = q]
             r == [table |-> T, pair |-> q + 1, leaf |-> 2 * q + b]
             M == WithPair(N, q, v)
  <1>1. Grown(N, tab, q, c, k) /\ l \in 0 .. 2 * q - 1 /\ v.n = k /\ v.lo <= c /\ c < v.lo + Sz(k)
    BY DEF OnPath
  <1>2. /\ q \in Nat /\ 2 * q <= TableSize /\ q >= FirstPair /\ v \in Nodes
        /\ tab \in Tables /\ Shape(N, q)
    <2>1. Grown(N, tab, q, c, k) /\ l \in 0 .. 2 * q - 1
      BY <1>1
    <2> HIDE DEF tab, q, c, l
    <2>2. q \in Nat /\ 2 * q <= TableSize /\ q >= FirstPair /\ v \in Nodes
      BY <2>1, GrownFacts
    <2>3. tab \in Tables /\ Shape(N, q)
      BY <2>1 DEF Grown
    <2>4. QED
      BY <2>2, <2>3
  <1>3. /\ c \in Nat /\ k \in 0 .. 15 /\ k < PeekBits /\ v.lo \in Nat
        /\ Sz(k + 1) \in Nat \ {0}
    BY <1>2, NextCodeFacts, NodeFacts
  <1>4. ~Opened(v, c, k)
    BY NoSymbolOnPath
  <1>5. v.lo = c
    BY <1>1, <1>3, <1>4 DEF Opened
  <1>6. \A i \in 0 .. 2 * q - 1 : N[i] # Left(v) /\ N[i] # Right(v)
    <2> SUFFICES ASSUME NEW i \in 0 .. 2 * q - 1 PROVE N[i] # Left(v) /\ N[i] # Right(v)
      OBVIOUS
    <2>1. tab[l] = 0 /\ N[l].n < PeekBits
      BY <1>1, <1>3
    <2> HIDE DEF tab, q, l, c
    <2>2. QED
      BY <1>1, <2>1, NoChildrenYet
  <1>7. PICK t \in Coded : FirstCode(t) = Right(v).lo
    BY <1>1, <1>2, <1>5, CodeInTheMiddle
  <1>8. /\ Shape(M, q + 1)
        /\ \A i \in 0 .. 2 * q - 1 : M[i] = N[i]
        /\ M[2 * q] = Left(v) /\ M[2 * q + 1] = Right(v)
    <2>1. v.n < PeekBits
      BY <1>1, <1>3
    <2> HIDE DEF q, v
    <2>2. QED
      BY <1>2, <1>6, <1>7, <2>1, ShapeGrows
  <1>9. 2 * (q + 1) <= TableSize
    <2> HIDE DEF q, M
    <2>1. QED
      BY <1>8, PairBound
  <1>10. FirstPair \in Nat \ {0} /\ TableSize \in Nat /\ Direct = 2 * FirstPair
    BY TableSizes
  <1>11. /\ T[2 * q] = 0 /\ T[2 * q + 1] = 0 /\ T[l] = q
         /\ \A i \in 0 .. 2 * q - 1 : i # l => T[i] = tab[i]
         /\ T \in Tables
    <2>1. /\ 2 * q \in 0 .. TableSize - 1 /\ 2 * q + 1 \in 0 .. TableSize - 1
          /\ l \in 0 .. TableSize - 1 /\ l # 2 * q /\ l # 2 * q + 1
          /\ q \in 0 .. TableSize /\ 0 \in 0 .. TableSize
      BY <1>1, <1>2, <1>9, <1>10
    <2>2. \A i \in 0 .. 2 * q - 1 : i \in 0 .. TableSize - 1 /\ i # 2 * q /\ i # 2 * q + 1
      BY <1>2, <1>9, <1>10
    <2>3. tab \in [0 .. TableSize - 1 -> {Old} \union 0 .. TableSize]
      BY <1>2 DEF Tables
    <2> DEFINE D == 0 .. TableSize - 1
               S == {Old} \union 0 .. TableSize
               i == 2 * q
               j == 2 * q + 1
    <2>4. i \in D /\ j \in D /\ l \in D /\ i # j /\ l # i /\ l # j /\ 0 \in S /\ q \in S
      BY <1>2, <2>1
    <2> HIDE DEF tab, q, l
    <2>5. tab \in [D -> S]
      BY <2>3
    <2> HIDE DEF D, S, i, j
    <2>6. /\ T \in [D -> S] /\ T[i] = 0 /\ T[j] = 0 /\ T[l] = q
          /\ \A x \in D : x # i /\ x # j /\ x # l => T[x] = tab[x]
      BY <2>4, <2>5, EntriesWritten DEF i, j
    <2>7. \A x \in 0 .. 2 * q - 1 : x \in D /\ x # i /\ x # j
      BY <2>2 DEF D, i, j
    <2> HIDE DEF T
    <2>8. \A x \in 0 .. 2 * q - 1 : x # l => T[x] = tab[x]
      BY <2>6, <2>7
    <2>9. T \in Tables
      BY <2>6 DEF Tables, D, S
    <2>10. QED
      BY <2>6, <2>8, <2>9 DEF i, j
  <1> DEFINE w == IF b = 0 THEN Left(v) ELSE Right(v)
  <1>12. b \in {0, 1} /\ w.n = k + 1 /\ w.lo <= c /\ c < w.lo + Sz(k + 1)
    <2> HIDE DEF b, w, v
    <2>1. b = (FirstCode(cur) \div Sz(k + 1)) % 2
      BY DEF b
    <2>2. w = (IF b = 0 THEN Left(v) ELSE Right(v))
      BY DEF w
    <2>3. QED
      BY <1>1, <1>2, <2>1, <2>2, HalfOfPath
  <1>13. Follow(p, fill) = r
    <2>1. p = [table |-> tab, pair |-> q, leaf |-> l]
      BY DEF PathStates
    <2> DEFINE s == [table |-> T, pair |-> q + 1, leaf |-> l]
    <2>2. Follow(p, fill) = [s EXCEPT !.leaf = 2 * s.table[s.leaf] + b]
      BY DEF Follow
    <2> HIDE DEF T, b, tab, l, q
    <2>3. s.table[s.leaf] = q
      BY <1>11
    <2>4. QED
      BY <2>2, <2>3
  <1>14. r \in PathStates /\ r.table = T /\ r.pair = q + 1 /\ r.leaf = 2 * q + b
         /\ 2 * q + b \in 0 .. 2 * (q + 1) - 1
    <2>1. 2 * q + b \in Nat /\ q + 1 \in Nat /\ 2 * q + b \in 0 .. 2 * (q + 1) - 1
      BY <1>2, <1>12
    <2> HIDE DEF T, b, q
    <2>2. QED
      BY <1>11, <2>1 DEF PathStates
  <1>15. M[2 * q + b] = w
    <2>1. CASE b = 0
      <3>1. 2 * q + b = 2 * q
        BY <1>2, <2>1
      <3>2. QED
        BY <1>8, <2>1, <3>1
    <2>2. CASE b = 1
      BY <1>8, <2>2
    <2>3. QED
      BY <1>12, <2>1, <2>2
  <1> DEFINE full == 2 * (q + 1) - 1
  <1>16. \A i \in 0 .. full : i \in 0 .. 2 * q - 1 \/ i = 2 * q \/ i = 2 * q + 1
    BY <1>2
  <1>17. ASSUME NEW i \in 0 .. full
         PROVE  IF Opened(M[i], c, k + 1) THEN Leads(M, T, q + 1, i) ELSE T[i] = 0
    <2>1. CASE i = 2 * q
      <3>1. M[i].lo = c /\ M[i].n = k + 1
        BY <1>1, <1>2, <1>3, <1>5, <1>8, <2>1, ChildFacts
      <3>2. ~Opened(M[i], c, k + 1)
        <4> HIDE DEF M, c
        <4>1. QED
          BY <1>3, <3>1 DEF Opened
      <3>3. QED
        BY <1>11, <2>1, <3>2
    <2>2. CASE i = 2 * q + 1
      <3>1. M[i].lo = c + Sz(k + 1)
        <4>1. M[i].lo = v.lo + Sz(v.n + 1)
          BY <1>1, <1>2, <1>3, <1>8, <2>2, ChildFacts
        <4>2. QED
          BY <1>1, <1>5, <4>1
      <3>2. ~Opened(M[i], c, k + 1)
        <4> HIDE DEF M, c
        <4>1. QED
          BY <1>3, <3>1 DEF Opened
      <3>3. QED
        BY <1>11, <2>2, <3>2
    <2>3. CASE i = l
      <3>1. M[i] = v
        BY <1>1, <1>8, <2>3
      <3>2. Opened(M[i], c, k + 1)
        <4> HIDE DEF M, c, v
        <4>1. k < k + 1
          BY <1>3
        <4>2. QED
          BY <1>1, <1>5, <3>1, <4>1 DEF Opened
      <3>3. T[i] = q
        BY <1>11, <2>3
      <3>4. q \in FirstPair .. (q + 1) - 1
        BY <1>2, <1>10
      <3>5. Leads(M, T, q + 1, i)
        <4> HIDE DEF M, v, T, q
        <4>1. QED
          BY <1>1, <1>3, <1>8, <3>1, <3>3, <3>4 DEF Leads
      <3>6. QED
        BY <3>2, <3>5
    <2>4. CASE i \in 0 .. 2 * q - 1 /\ i # l
      <3>1. M[i] = N[i] /\ T[i] = tab[i]
        BY <1>8, <1>11, <2>4
      <3>2. N[i] \in Nodes
        BY <1>1, <2>4, GrownFacts
      <3>3. ~(N[i].lo = c /\ N[i].n = k)
        <4> SUFFICES ASSUME N[i].lo = c, N[i].n = k PROVE FALSE
          OBVIOUS
        <4>1. N[i] = v
          <5>1. N[i] = [n |-> k, lo |-> c] /\ v = [n |-> v.n, lo |-> v.lo]
            BY <1>2, <3>2, NodeFacts
          <5>2. QED
            BY <1>1, <1>5, <5>1
        <4>2. QED
          BY <1>1, <1>2, <2>4, <4>1 DEF Shape
      <3>4. Opened(N[i], c, k + 1) <=> Opened(N[i], c, k)
        <4>1. N[i].n \in Int /\ k \in Int
          BY <1>3, <3>2, NodeFacts
        <4> HIDE DEF c
        <4>2. N[i].n < k + 1 <=> (N[i].n < k \/ N[i].n = k)
          BY <4>1
        <4>3. QED
          BY <3>3, <4>2 DEF Opened
      <3>5. CASE Opened(N[i], c, k)
        <4>1. Leads(N, tab, q, i)
          BY <1>1, <2>4, <3>5 DEF Grown
        <4>2. ASSUME tab[i] \in FirstPair .. q - 1
              PROVE  /\ tab[i] \in FirstPair .. (q + 1) - 1
                     /\ M[2 * tab[i]] = N[2 * tab[i]] /\ M[2 * tab[i] + 1] = N[2 * tab[i] + 1]
          <5> DEFINE x == tab[i]
          <5>1. x \in FirstPair .. q - 1
            BY <4>2
          <5> HIDE DEF x
          <5>2. x \in FirstPair .. (q + 1) - 1 /\ 2 * x \in 0 .. 2 * q - 1 /\ 2 * x + 1 \in 0 .. 2 * q - 1
            BY <1>2, <1>10, <5>1
          <5>3. M[2 * x] = N[2 * x] /\ M[2 * x + 1] = N[2 * x + 1]
            BY <1>8, <5>2
          <5>4. QED
            BY <5>2, <5>3 DEF x
        <4>3. Leads(M, T, q + 1, i)
          <5> HIDE DEF M, T, q, tab
          <5>1. QED
            BY <3>1, <4>1, <4>2 DEF Leads
        <4>4. QED
          BY <3>1, <3>4, <3>5, <4>3
      <3>6. CASE ~Opened(N[i], c, k)
        <4>1. tab[i] = 0
          BY <1>1, <2>4, <3>6 DEF Grown
        <4>2. QED
          BY <3>1, <3>4, <3>6, <4>1
      <3>7. QED
        BY <3>5, <3>6
    <2>5. QED
      BY <1>16, <2>1, <2>2, <2>3, <2>4
  <1>18. ASSUME NEW i \in Direct .. full
         PROVE  \E j \in 0 .. full : T[j] = i \div 2
    <2>0. l \in 0 .. full
      BY <1>1, <1>2
    <2>1. CASE i = 2 * q \/ i = 2 * q + 1
      <3>1. i \div 2 = q
        <4>1. q \in Int /\ i \in Int /\ (i = 2 * q + 0 \/ i = 2 * q + 1)
              /\ 0 \in 0 .. 2 - 1 /\ 1 \in 0 .. 2 - 1 /\ 2 \in Nat \ {0}
          BY <1>2, <2>1
        <4> HIDE DEF q
        <4>2. QED
          BY <4>1, DivUnique
      <3>2. QED
        BY <1>11, <2>0, <3>1
    <2>2. CASE ~(i = 2 * q \/ i = 2 * q + 1)
      <3>1. i \in Direct .. 2 * q - 1 /\ i \in Int
        BY <1>2, <1>10, <2>2
      <3>2. PICK j \in 0 .. 2 * q - 1 : tab[j] = i \div 2
        BY <1>1, <3>1 DEF Grown
      <3>3. i \div 2 # 0
        BY <1>10, <3>1
      <3>4. j # l
        BY <3>2, <3>3
      <3>5. j \in 0 .. full /\ T[j] = tab[j]
        BY <1>2, <1>11, <3>4
      <3>6. QED
        BY <3>2, <3>5
    <2>3. QED
      BY <2>1, <2>2
  <1>19. Grown(M, T, q + 1, c, k + 1)
    <2> HIDE DEF M, T, q, c
    <2>1. QED
      BY <1>8, <1>11, <1>17, <1>18 DEF Grown
  <1>20. OnPath(M, r, c, k + 1)
    <2> HIDE DEF M, T, q, c, r, b, w
    <2>1. QED
      BY <1>12, <1>14, <1>15, <1>19 DEF OnPath
  <1>21. QED
    BY <1>13, <1>14, <1>20

\* A bit of the path is a bit of the code that is placed.
LEMMA DivCancel ==
    ASSUME NEW a \in Nat, NEW b \in Nat \ {0}, NEW d \in Nat \ {0}
    PROVE  (a * d) \div (b * d) = a \div b
  <1> DEFINE q == a \div b
             r == a % b
             y == b * d
             z == a * d
             s == r * d
  <1>1. a = b * q + r /\ q \in Int /\ r \in 0 .. b - 1
    BY DivFacts
  <1> HIDE DEF q, r
  <1>2. y \in Nat \ {0} /\ z \in Int
    OBVIOUS
  <1>3. z = y * q + s
    <2>1. z = (b * q + r) * d
      BY <1>1
    <2>2. (b * q + r) * d = (b * d) * q + r * d
      BY <1>1
    <2>3. QED
      BY <2>1, <2>2
  <1>4. s \in 0 .. y - 1
    <2>1. s \in Nat
      BY <1>1
    <2>2. (r + 1) * d <= b * d
      BY <1>1
    <2>3. (r + 1) * d = s + d
      BY <1>1
    <2> HIDE DEF s
    <2>4. s + d <= y
      BY <2>2, <2>3
    <2> HIDE DEF y
    <2>5. QED
      BY <1>2, <2>1, <2>4
  <1> HIDE DEF y, z, s
  <1>5. z \div y = q
    BY <1>1, <1>2, <1>3, <1>4, DivUnique
  <1>6. QED
    BY <1>5 DEF y, z, q

\* The part of a space a number lies in.
LEMMA InItsPart ==
    ASSUME NEW c \in Nat, NEW d \in Nat \ {0}, NEW m \in Nat, c < d * m
    PROVE  /\ c \div d \in 0 .. m - 1
           /\ (c \div d) * d <= c /\ c < (c \div d) * d + d
  <1> DEFINE l == c \div d
             y == d * l
  <1>1. c = d * l + (c % d) /\ l \in Int /\ (c % d) \in 0 .. d - 1
    BY DivFacts
  <1>2. l \in Nat
    BY DivModNat
  <1> HIDE DEF l
  <1>3. l * d = y /\ y \in Nat
    BY <1>2
  <1>4. y <= c /\ c < y + d
    <2> HIDE DEF y
    <2>1. QED
      BY <1>1, <1>3 DEF y
  <1>5. l < m
    <2> SUFFICES ASSUME m <= l PROVE FALSE
      BY <1>2
    <2>1. d * m <= d * l
      BY <1>2
    <2> DEFINE z == d * m
    <2>2. c < z /\ z <= y /\ z \in Nat
      BY <2>1
    <2> HIDE DEF y, z
    <2>3. QED
      BY <1>3, <1>4, <2>2
  <1>6. QED
    BY <1>2, <1>3, <1>4, <1>5 DEF l

LEMMA PathBits ==
    ASSUME NEW c \in Nat, pos = c * Direct
    PROVE  /\ \A fill \in 0 .. 15 - NBits : PathBit(fill) = (c \div Sz((NBits + fill) + 1)) % 2
           /\ pos \div 2 ^ 16 = c \div Sz(NBits)
  <1>1. NBits \in 1 .. 16 /\ Direct \in Nat \ {0}
    BY TableSizes
  <1>2. ASSUME NEW fill \in 0 .. 15 - NBits
        PROVE  PathBit(fill) = (c \div Sz((NBits + fill) + 1)) % 2
    <2> DEFINE n == (NBits + fill) + 1
               d == Sz(n)
    <2>1. n \in NBits .. 16 /\ n \in 0 .. 16 /\ 16 + NBits - n = 15 - fill
      BY <1>1
    <2>2. E(16 + NBits - n) = d * Direct
      BY <2>1, CodeSizes
    <2>3. d \in Nat \ {0}
      BY <2>1, Sizes16
    <2>4. 2 ^ (15 - fill) = E(16 + NBits - n)
      BY <2>1 DEF E
    <2> HIDE DEF d
    <2>5. pos \div (d * Direct) = c \div d
      BY <1>1, <2>3, DivCancel
    <2>6. PathBit(fill) = (pos \div (d * Direct)) % 2
      BY <2>2, <2>4 DEF PathBit
    <2>7. QED
      BY <2>5, <2>6 DEF d
  <1>3. pos \div 2 ^ 16 = c \div Sz(NBits)
    <2> DEFINE d == Sz(NBits)
    <2>1. d \in Nat \ {0} /\ d * Direct = 65536 /\ 2 ^ 16 = 65536
      BY TableSizes
    <2> HIDE DEF d
    <2>2. pos \div (d * Direct) = c \div d
      BY <1>1, <2>1, DivCancel
    <2>3. QED
      BY <2>1, <2>2 DEF d
  <1>4. QED
    BY <1>2, <1>3

\* One step of a path, whether its pair is there or not.
LEMMA PathGoesOn ==
    ASSUME LengthsOK, CodeSpace = 65536, NEW cur, NEW k, NextCode(cur, k),
           NEW p \in PathStates, \E N : OnPath(N, p, FirstCode(cur), k),
           NEW fill, PathBit(fill) = (FirstCode(cur) \div Sz(k + 1)) % 2
    PROVE  Follow(p, fill) \in PathStates
           /\ \E M : OnPath(M, Follow(p, fill), FirstCode(cur), k + 1)
  <1>1. PICK N : OnPath(N, p, FirstCode(cur), k)
    OBVIOUS
  <1>2. CASE p.table[p.leaf] # 0
    BY <1>1, <1>2, PairFollowed
  <1>3. CASE p.table[p.leaf] = 0
    BY <1>1, <1>3, PairAdded
  <1>4. QED
    BY <1>2, <1>3

\* What Path computes, by name.
IsPath(f, m, start) ==
    f = [n \in 0 .. m |-> IF n = 0 THEN start ELSE Follow(f[n - 1], n - 1)]

InSteps(f, m, start) ==
    /\ f = [n \in 0 .. m |-> f[n]]
    /\ \A n \in 0 .. m : f[n] = IF n = 0 THEN start ELSE Follow(f[n - 1], n - 1)

LEMMA PathBySteps ==
    ASSUME NEW f, NEW m, NEW start
    PROVE  IsPath(f, m, start) <=> InSteps(f, m, start)
  <1>1. ASSUME IsPath(f, m, start), NEW n \in 0 .. m
        PROVE  f[n] = IF n = 0 THEN start ELSE Follow(f[n - 1], n - 1)
    BY <1>1 DEF IsPath
  <1>2. ASSUME IsPath(f, m, start)
        PROVE  f = [n \in 0 .. m |-> f[n]]
    BY <1>2 DEF IsPath
  <1>3. ASSUME f = [n \in 0 .. m |-> f[n]],
               \A n \in 0 .. m : f[n] = IF n = 0 THEN start ELSE Follow(f[n - 1], n - 1)
        PROVE  IsPath(f, m, start)
    BY <1>3 DEF IsPath
  <1>4. QED
    BY <1>1, <1>2, <1>3 DEF InSteps

Followed(g, m, start) ==
    /\ g \in [0 .. m -> PathStates] /\ g[0] = start
    /\ \A k \in 1 .. m : Follow(g[k - 1], k - 1) \in PathStates => g[k] = Follow(g[k - 1], k - 1)

\* A path can be followed for as long as its states are what they should be.
LEMMA FollowExists ==
    ASSUME NEW m \in Nat, NEW start \in PathStates
    PROVE  \E g : Followed(g, m, start)
  <1> DEFINE S == PathStates
             step == [x \in (1 .. m) \X S |->
                        IF Follow(x[2], x[1] - 1) \in S THEN Follow(x[2], x[1] - 1) ELSE x[2]]
  <1>1. step \in [(1 .. m) \X S -> S]
    OBVIOUS
  <1>2. \A k \in 1 .. m : \A p \in S : Follow(p, k - 1) \in S => step[<<k, p>>] = Follow(p, k - 1)
    OBVIOUS
  <1>3. PICK g : Iterates(g, m, S, start, step)
    <2>1. start \in S
      OBVIOUS
    <2> HIDE DEF S, step
    <2>2. QED
      BY <1>1, <2>1, IterationExists
  <1> HIDE DEF step
  <1>4. g \in [0 .. m -> S] /\ g[0] = start
    BY <1>3 DEF Iterates
  <1>5. ASSUME NEW k \in 1 .. m, Follow(g[k - 1], k - 1) \in S
        PROVE  g[k] = Follow(g[k - 1], k - 1)
    <2>1. k - 1 \in 0 .. m
      OBVIOUS
    <2>2. g[k - 1] \in S
      BY <1>4, <2>1
    <2>3. g[k] = step[<<k, g[k - 1]>>]
      BY <1>3 DEF Iterates
    <2>4. QED
      BY <1>2, <1>5, <2>2, <2>3
  <1>6. QED
    BY <1>4, <1>5 DEF Followed

PathStart == [table |-> table, pair |-> next_symbol, leaf |-> pos \div 2 ^ 16]

LEMMA PathIsOne ==
    Path = (CHOOSE f : IsPath(f, bit_num - NBits, PathStart))[bit_num - NBits]
  BY DEF Path, IsPath, PathStart

\* The code that is placed behind the direct part.
LongCode(cur) ==
    /\ cur \in Coded
    /\ length[cur] = bit_num
    /\ bit_num \in NBits + 1 .. 16
    /\ bit_num <= PeekBits
    /\ pos = FirstCode(cur) * Direct
    /\ \E N : Grown(N, table, next_symbol, FirstCode(cur), 0)

\* A path begins at the direct entry of its code.
LEMMA PathStarts ==
    ASSUME LengthsOK, CodeSpace = 65536, NEW cur, LongCode(cur)
    PROVE  PathStart \in PathStates /\ \E N : OnPath(N, PathStart, FirstCode(cur), NBits)
  <1> DEFINE c == FirstCode(cur)
             d == Sz(NBits)
             l == c \div d
             y == l * d
             p == PathStart
  <1>1. c \in Nat /\ c < 65536
    <2>1. /\ FirstCode(cur) \in Nat /\ Space(cur) \in Nat \ {0}
          /\ FirstCode(cur) + Space(cur) <= 65536
      BY CodedFacts, CanonicalCode DEF LongCode
    <2>2. QED
      BY <2>1
  <1>2. PICK N : Grown(N, table, next_symbol, c, 0)
    BY DEF LongCode
  <1>3. d \in Nat \ {0} /\ d * Direct = 65536 /\ Direct \in Nat \ {0} /\ Direct = 2 * FirstPair
        /\ NBits \in 1 .. 16
    BY TableSizes
  <1>4. pos \div 2 ^ 16 = l
    BY <1>1, PathBits DEF LongCode
  <1>5. y <= c /\ c < y + d /\ l \in 0 .. Direct - 1
    <2> HIDE DEF c, d
    <2>1. c \in Nat /\ d \in Nat \ {0} /\ Direct \in Nat /\ c < d * Direct
      BY <1>1, <1>3
    <2>2. QED
      BY <2>1, InItsPart
  <1>6. next_symbol \in Nat /\ next_symbol >= FirstPair /\ table \in Tables
    <2> HIDE DEF c
    <2>1. next_symbol \in Nat /\ next_symbol >= FirstPair
      BY <1>2, GrownFacts
    <2>2. QED
      BY <1>2, <2>1 DEF Grown
  <1>7. l \in 0 .. 2 * next_symbol - 1 /\ l \in Nat
    <2> HIDE DEF l
    <2>1. FirstPair \in Nat
      BY TableSizes
    <2>2. QED
      BY <1>3, <1>5, <1>6, <2>1
  <1>8. p = [table |-> table, pair |-> next_symbol, leaf |-> l]
    BY <1>4 DEF PathStart
  <1>9. p \in PathStates
    <2> HIDE DEF l
    <2>1. QED
      BY <1>6, <1>7, <1>8 DEF PathStates
  <1>10. N[l] = [n |-> NBits, lo |-> y]
    BY <1>2, <1>5 DEF Grown, Shape
  <1>11. ASSUME NEW i \in 0 .. 2 * next_symbol - 1
         PROVE  Opened(N[i], c, NBits) <=> Opened(N[i], c, 0)
    <2>1. N[i] \in Nodes
      BY <1>2, GrownFacts
    <2>2. N[i].n \in NBits .. PeekBits
      BY <2>1, NodeFacts
    <2>3. ~(N[i].n < NBits) /\ ~(N[i].n < 0)
      BY <1>3, <2>2, TableSizes
    <2>4. QED
      BY <2>3 DEF Opened
  <1>12. Grown(N, table, next_symbol, c, NBits)
    <2> HIDE DEF c
    <2>1. QED
      BY <1>2, <1>11 DEF Grown
  <1>13. OnPath(N, p, c, NBits)
    <2> HIDE DEF c, d, l, y, p
    <2>1. p.table = table /\ p.pair = next_symbol /\ p.leaf = l
      BY <1>8
    <2>2. N[l].n = NBits /\ N[l].lo = y
      BY <1>10
    <2>3. y <= c /\ c < y + Sz(NBits)
      BY <1>5 DEF d
    <2>4. QED
      BY <1>7, <1>12, <2>1, <2>2, <2>3 DEF OnPath
  <1>14. QED
    BY <1>9, <1>13

AlongPath(cur, p, k) ==
    p \in PathStates /\ \E N : OnPath(N, p, FirstCode(cur), NBits + k)

\* A path leads to the node that its code is to stand for.
LEMMA PathEnds ==
    ASSUME LengthsOK, CodeSpace = 65536, NEW cur, LongCode(cur)
    PROVE  Path \in PathStates /\ \E N : OnPath(N, Path, FirstCode(cur), bit_num)
  <1> DEFINE c == FirstCode(cur)
             m == bit_num - NBits
             base == PathStart
  <1>0. NBits \in 1 .. 16 /\ bit_num \in NBits + 1 .. 16 /\ m \in Nat /\ m <= 16 - NBits
        /\ bit_num <= PeekBits /\ length[cur] = bit_num /\ c \in Nat /\ NBits + m = bit_num
        /\ cur \in Coded /\ pos = c * Direct
    BY TableSizes, CodedFacts DEF LongCode
  <1>1. AlongPath(cur, base, 0)
    <2>1. NBits + 0 = NBits
      BY <1>0
    <2> HIDE DEF base
    <2>2. base \in PathStates /\ \E N : OnPath(N, base, FirstCode(cur), NBits)
      BY PathStarts DEF base
    <2>3. QED
      BY <2>1, <2>2 DEF AlongPath
  <1>2. ASSUME NEW k \in 0 .. m - 1, NEW p, AlongPath(cur, p, k)
        PROVE  AlongPath(cur, Follow(p, k), k + 1)
    <2>1. NextCode(cur, NBits + k)
      BY <1>0 DEF NextCode
    <2>2. k \in 0 .. 15 - NBits
      BY <1>0
    <2>3. PathBit(k) = (FirstCode(cur) \div Sz((NBits + k) + 1)) % 2
      BY <1>0, <2>2, PathBits
    <2>4. p \in PathStates /\ \E N : OnPath(N, p, FirstCode(cur), NBits + k)
      BY <1>2 DEF AlongPath
    <2>5. Follow(p, k) \in PathStates
           /\ \E M : OnPath(M, Follow(p, k), FirstCode(cur), (NBits + k) + 1)
      BY <2>1, <2>3, <2>4, PathGoesOn
    <2>6. NBits + (k + 1) = (NBits + k) + 1
      BY <1>0, <2>2
    <2>7. QED
      BY <2>5, <2>6 DEF AlongPath
  <1> HIDE DEF base, m, c
  <1>3. \E f : IsPath(f, m, base)
    <2>1. base \in PathStates
      BY <1>1 DEF AlongPath
    <2>20. m \in Nat
      BY <1>0
    <2>21. PICK g : Followed(g, m, base)
      BY <2>1, <2>20, FollowExists
    <2>2. /\ g \in [0 .. m -> PathStates] /\ g[0] = base
          /\ \A k \in 1 .. m : Follow(g[k - 1], k - 1) \in PathStates =>
                                  g[k] = Follow(g[k - 1], k - 1)
      BY <2>21 DEF Followed
    <2> DEFINE T == {k \in 0 .. m : AlongPath(cur, g[k], k)}
    <2>6. 0 \in T
      BY <1>0, <1>1, <2>2
    <2>7. ASSUME NEW k \in 0 .. m - 1, AlongPath(cur, g[k], k)
          PROVE  g[k + 1] = Follow(g[k], k) /\ AlongPath(cur, g[k + 1], k + 1)
      <3>1. AlongPath(cur, Follow(g[k], k), k + 1)
        BY <1>2, <2>7
      <3>2. k + 1 \in 1 .. m /\ (k + 1) - 1 = k
        BY <1>0
      <3>3. g[k] \in PathStates /\ Follow(g[k], k) \in PathStates
        BY <2>7, <3>1 DEF AlongPath
      <3>4. g[k + 1] = Follow(g[k], k)
        BY <2>2, <3>2, <3>3
      <3>5. QED
        BY <3>1, <3>4
    <2>8. \A k \in 0 .. m - 1 : k \in T => k + 1 \in T
      <3>1. \A k \in 0 .. m - 1 : k + 1 \in 0 .. m
        BY <1>0
      <3>2. QED
        BY <2>7, <3>1
    <2>9. \A k \in 0 .. m : k \in T
      <3> HIDE DEF T
      <3>1. QED
        BY <1>0, <2>6, <2>8, UpTo
    <2>10. ASSUME NEW n \in 0 .. m
           PROVE  g[n] = IF n = 0 THEN base ELSE Follow(g[n - 1], n - 1)
      <3>1. CASE n = 0
        BY <2>2, <3>1
      <3>2. CASE n # 0
        <4>1. n - 1 \in 0 .. m - 1 /\ (n - 1) + 1 = n /\ n - 1 \in 0 .. m
          BY <1>0, <3>2
        <4>2. AlongPath(cur, g[n - 1], n - 1)
          BY <2>9, <4>1
        <4>3. g[(n - 1) + 1] = Follow(g[n - 1], n - 1)
          BY <2>7, <4>1, <4>2
        <4>4. QED
          BY <3>2, <4>1, <4>3
      <3>3. QED
        BY <3>1, <3>2
    <2>11. g = [n \in 0 .. m |-> g[n]]
      BY <2>2
    <2>12. InSteps(g, m, base)
      BY <2>10, <2>11 DEF InSteps
    <2>14. IsPath(g, m, base)
      BY <2>12, PathBySteps
    <2>13. QED
      BY <2>14
  <1> DEFINE f == CHOOSE g : IsPath(g, m, base)
             T == {k \in 0 .. m : AlongPath(cur, f[k], k)}
  <1> HIDE DEF T
  <1>4. IsPath(f, m, base)
    BY <1>3
  <1> HIDE DEF f
  <1>5. \A n \in 0 .. m : f[n] = IF n = 0 THEN base ELSE Follow(f[n - 1], n - 1)
    BY <1>4, PathBySteps DEF InSteps
  <1>6. 0 \in T
    BY <1>0, <1>1, <1>5 DEF T
  <1>7. ASSUME NEW k \in 0 .. m - 1, k \in T
        PROVE  k + 1 \in T
    <2>1. k + 1 \in 0 .. m /\ k + 1 # 0 /\ (k + 1) - 1 = k
      BY <1>0
    <2>2. f[k + 1] = Follow(f[k], k)
      BY <1>5, <2>1
    <2>3. AlongPath(cur, f[k], k)
      BY <1>7 DEF T
    <2>4. AlongPath(cur, Follow(f[k], k), k + 1)
      BY <1>2, <2>3
    <2>5. QED
      BY <2>1, <2>2, <2>4 DEF T
  <1>8. \A k \in 0 .. m : k \in T
    BY <1>0, <1>6, <1>7, UpTo
  <1>9. AlongPath(cur, f[m], m)
    BY <1>0, <1>8 DEF T
  <1>10. Path = f[m]
    BY PathIsOne DEF f, m, base
  <1>11. QED
    BY <1>0, <1>9, <1>10 DEF AlongPath, c

\* What the direct entries stand for.
LEMMA DirectNodes ==
    ASSUME NEW N, NEW pair, Shape(N, pair), NEW i \in 0 .. Direct - 1
    PROVE  N[i].n = NBits
  <1>1. N[i] = [n |-> NBits, lo |-> i * Sz(NBits)]
    BY DEF Shape
  <1> DEFINE z == i * Sz(NBits)
  <1>2. N[i] = [n |-> NBits, lo |-> z]
    BY <1>1
  <1> HIDE DEF z
  <1>3. QED
    BY <1>2

\* A code is placed at the end of its path, and the next one can follow.
LEMMA CodePlaced ==
    ASSUME LengthsOK, CodeSpace = 65536, NEW cur \in Coded, length[cur] >= NBits,
           NEW N, NEW tab, NEW pair, Grown(N, tab, pair, FirstCode(cur), length[cur]),
           NEW l \in 0 .. 2 * pair - 1, N[l].n = length[cur],
           N[l].lo <= FirstCode(cur), FirstCode(cur) < N[l].lo + Sz(length[cur])
    PROVE  Grown(N, [tab EXCEPT ![l] = cur], pair, FirstCode(cur) + Space(cur), 0)
  <1> DEFINE c == FirstCode(cur)
             k == length[cur]
             d == Space(cur)
             T == [tab EXCEPT ![l] = cur]
             v == N[l]
  <1>0. k \in 1 .. 16 /\ k \in 0 .. 16 /\ d = Sz(k) /\ d \in Nat \ {0} /\ c \in Nat /\ Mult(c, d)
        /\ NBits \in 1 .. 16 /\ k >= NBits
    BY CodedFacts, CanonicalCode, TableSizes
  <1>1. Grown(N, tab, pair, c, k) /\ v.n = k /\ v.lo <= c /\ c < v.lo + d
    BY <1>0
  <1>2. /\ pair \in Nat /\ pair >= FirstPair /\ 2 * pair <= TableSize
        /\ \A i \in 0 .. 2 * pair - 1 : i \in 0 .. TableSize - 1 /\ N[i] \in Nodes
    <2> HIDE DEF c, k, d
    <2>1. QED
      BY <1>1, GrownFacts
  <1>3. v \in Nodes /\ v.lo \in Nat /\ Mult(v.lo, d)
    BY <1>0, <1>1, <1>2, NodeFacts
  <1>4. v.lo = c
    <2> DEFINE x == v.lo
    <2>1. Mult(x, d) /\ x <= c /\ c < x + d /\ x \in Nat
      BY <1>1, <1>3
    <2> HIDE DEF x, c, d
    <2>2. x < c => x + d <= c
      BY <1>0, <2>1, MultApart
    <2>3. x = c
      BY <1>0, <2>1, <2>2
    <2>4. QED
      BY <2>3 DEF x
  <1>5. FirstPair \in Nat \ {0} /\ Direct = 2 * FirstPair /\ NSyms <= FirstPair /\ TableSize = Direct + 2 * NSyms
        /\ TableSize \in Nat /\ NSyms \in Nat /\ cur \in Nat /\ cur < NSyms
    BY TableSizes, SymbolFacts, CodedFacts
  <1>6. tab \in Tables
    BY <1>1 DEF Grown
  <1>12. Shape(N, pair)
    BY <1>1 DEF Grown
  <1>7. T \in Tables /\ T[l] = cur /\ \A i \in 0 .. 2 * pair - 1 : i # l => T[i] = tab[i]
    <2>1. l \in 0 .. TableSize - 1 /\ cur \in 0 .. TableSize
      BY <1>2, <1>5
    <2> HIDE DEF T
    <2>2. T = [tab EXCEPT ![l] = cur] /\ tab \in [0 .. TableSize - 1 -> {Old} \union 0 .. TableSize]
      BY <1>6 DEF T, Tables
    <2>3. T \in [0 .. TableSize - 1 -> {Old} \union 0 .. TableSize] /\ T[l] = cur
      BY <2>1, <2>2
    <2>4. \A i \in 0 .. TableSize - 1 : i # l => T[i] = tab[i]
      BY <2>1, <2>2
    <2>5. QED
      BY <1>2, <2>3, <2>4 DEF Tables
  <1>8. ~Opened(v, c, k) /\ tab[l] = 0
    <2>1. ~Opened(v, c, k)
      <3> HIDE DEF c, k
      <3>1. QED
        BY <1>0, <1>1, <1>4 DEF Opened
    <2>2. QED
      BY <1>1, <2>1 DEF Grown
  <1>9. ASSUME NEW i \in 0 .. 2 * pair - 1, i # l, ~Opened(N[i], c, k)
        PROVE  c + d <= N[i].lo
    <2> DEFINE u == N[i]
               y == u.lo
               e == Sz(u.n)
    <2>1. u \in Nodes /\ u.n \in 0 .. 16 /\ u.n \in NBits .. PeekBits /\ y \in Nat /\ Mult(y, e) /\ e \in Nat \ {0}
      BY <1>2, NodeFacts
    <2>2. c <= y /\ (y = c => u.n >= k)
      <3> HIDE DEF c, k, u
      <3>1. QED
        BY <1>0, <1>9, <2>1 DEF Opened, u
    <2>3. CASE u.n <= k
      <3>1. y # c
        <4> SUFFICES ASSUME y = c PROVE FALSE
          OBVIOUS
        <4>1. u.n = k
          BY <1>0, <2>1, <2>2, <2>3
        <4>2. u = [n |-> u.n, lo |-> u.lo] /\ v = [n |-> v.n, lo |-> v.lo]
          BY <1>3, <2>1, NodeFacts
        <4>3. u = v
          <5> HIDE DEF u, v, c, k
          <5>1. QED
            BY <1>1, <1>4, <4>1, <4>2
        <4>4. QED
          BY <1>1, <1>9, <4>3 DEF Grown, Shape
      <3>2. Mult(e, d)
        <4>1. k \in u.n .. 16
          BY <1>0, <2>1, <2>3
        <4>2. Mult(Sz(u.n), Sz(k))
          BY <2>1, <4>1, SizesNest
        <4>3. QED
          BY <1>0, <4>2
      <3> HIDE DEF c, k, d, u, y, e
      <3>3. Mult(y, d)
        BY <1>0, <2>1, <3>2, MultFacts
      <3>4. c < y
        BY <1>0, <2>1, <2>2, <3>1
      <3>5. c + d <= y
        BY <1>0, <3>3, <3>4, MultApart
      <3>6. QED
        BY <3>5 DEF y, u
    <2>4. CASE u.n > k
      <3>1. i \in Direct .. 2 * pair - 1
        <4>1. ASSUME i < Direct PROVE FALSE
          <5>1. i \in 0 .. Direct - 1
            BY <1>5, <4>1
          <5>4. u.n = NBits
            BY <1>12, <5>1, DirectNodes
          <5> HIDE DEF u
          <5>5. QED
            BY <1>0, <2>4, <5>4
        <4>2. QED
          BY <1>2, <1>5, <4>1
      <3>2. PICK j \in 0 .. 2 * pair - 1 :
                /\ Opened(N[j], c, k)
                /\ N[j].n < PeekBits
                /\ N[i] = Left(N[j]) \/ N[i] = Right(N[j])
        <4> HIDE DEF c, k
        <4>1. QED
          BY <1>1, <3>1, ParentOf
      <3> DEFINE w == N[j]
                 x == w.lo
                 f == Sz(w.n + 1)
                 g == Sz(w.n)
      <3>3. w \in Nodes /\ w.n \in 0 .. 16 /\ x \in Nat /\ Mult(x, g) /\ g \in Nat \ {0}
        BY <1>2, NodeFacts
      <3>4. g = 2 * f /\ f \in Nat \ {0} /\ u.n = w.n + 1 /\ (y = x \/ y = x + f)
        BY <3>2, <3>3, ChildFacts
      <3>5. w.n >= k
        BY <1>0, <2>1, <2>4, <3>3, <3>4
      <3>6. x < c
        <4> HIDE DEF w, k, c
        <4>1. ~(w.n < k)
          BY <1>0, <3>3, <3>5
        <4>2. QED
          BY <3>2, <4>1 DEF Opened, w
      <3>7. Mult(d, g)
        <4>1. w.n \in k .. 16
          BY <1>0, <3>3, <3>5
        <4>2. Mult(Sz(k), Sz(w.n))
          BY <1>0, <4>1, SizesNest
        <4>3. QED
          BY <1>0, <4>2
      <3> HIDE DEF c, k, d, u, y, e, w, x, f, g
      <3>8. Mult(c, g)
        BY <1>0, <3>3, <3>7, MultFacts
      <3>9. x + g <= c
        BY <3>3, <3>6, <3>8, MultApart
      <3>10. FALSE
        BY <1>0, <2>1, <2>2, <3>3, <3>4, <3>9
      <3>11. QED
        BY <3>10
    <2>5. u.n <= k \/ u.n > k
      BY <1>0, <2>1
    <2>6. QED
      BY <2>3, <2>4, <2>5
  <1>10. ASSUME NEW i \in 0 .. 2 * pair - 1
         PROVE  IF Opened(N[i], c + d, 0) THEN Leads(N, T, pair, i) ELSE T[i] = 0
    <2>1. CASE i = l
      <3>1. Opened(v, c + d, 0)
        <4> HIDE DEF c, d, v
        <4>1. c < c + d
          BY <1>0
        <4>2. QED
          BY <1>4, <4>1 DEF Opened
      <3>2. Within(cur, v)
        <4>1. v.lo + Sz(v.n) = c + d /\ c <= v.lo
          BY <1>0, <1>1, <1>4
        <4>2. v.lo + Sz(v.n) <= c + d
          BY <1>0, <4>1
        <4>3. QED
          BY <4>1, <4>2 DEF Within
      <3>3. Leads(N, T, pair, i)
        <4> HIDE DEF T, v
        <4>1. QED
          BY <1>7, <2>1, <3>2 DEF Leads, v
      <3>4. QED
        BY <2>1, <3>1, <3>3
    <2>2. CASE i # l /\ Opened(N[i], c, k)
      <3>1. Opened(N[i], c + d, 0)
        <4>1. N[i].lo \in Nat
          BY <1>2, NodeFacts
        <4> HIDE DEF c, k, d
        <4>2. N[i].lo <= c
          BY <1>0, <2>2, <4>1 DEF Opened
        <4>3. N[i].lo < c + d
          BY <1>0, <4>1, <4>2
        <4>4. QED
          BY <4>3 DEF Opened
      <3>2. Leads(N, tab, pair, i)
        BY <1>1, <2>2 DEF Grown
      <3>3. Leads(N, T, pair, i)
        <4> HIDE DEF T
        <4>1. QED
          BY <1>7, <2>2, <3>2 DEF Leads
      <3>4. QED
        BY <3>1, <3>3
    <2>3. CASE i # l /\ ~Opened(N[i], c, k)
      <3>1. ~Opened(N[i], c + d, 0)
        <4>1. c + d <= N[i].lo /\ N[i].lo \in Nat /\ N[i].n \in Nat
          BY <1>2, <1>9, <2>3, NodeFacts
        <4> HIDE DEF c, k, d
        <4>2. ~(N[i].lo < c + d) /\ ~(N[i].n < 0)
          BY <1>0, <4>1
        <4>3. QED
          BY <4>2 DEF Opened
      <3>2. tab[i] = 0
        BY <1>1, <2>3 DEF Grown
      <3>3. QED
        BY <1>7, <2>3, <3>1, <3>2
    <2>4. QED
      BY <2>1, <2>2, <2>3
  <1>11. ASSUME NEW i \in Direct .. 2 * pair - 1
         PROVE  \E j \in 0 .. 2 * pair - 1 : T[j] = i \div 2
    <2>1. PICK j \in 0 .. 2 * pair - 1 : tab[j] = i \div 2
      BY <1>1 DEF Grown
    <2>2. i \div 2 # 0
      BY <1>5
    <2>3. j # l
      BY <1>8, <2>1, <2>2
    <2>4. QED
      BY <1>7, <2>1, <2>3
  <1> HIDE DEF c, k, d, T, v
  <1>13. Grown(N, T, pair, c + d, 0)
    BY <1>7, <1>10, <1>11, <1>12 DEF Grown
  <1>14. QED
    BY <1>13 DEF c, d, T

DirectNode(k) == [n |-> NBits, lo |-> k * Sz(NBits)]

\* What stands in the direct entries below p, once they are all there is.
LEMMA DirectGrown ==
    ASSUME LengthsOK, NEW tab \in Tables, NEW p \in 0 .. Direct,
           \A k \in 0 .. p - 1 : tab[k] \in Coded /\ Within(tab[k], DirectNode(k)),
           \A k \in p .. Direct - 1 : tab[k] = 0
    PROVE  \E N : Grown(N, tab, FirstPair, p * Sz(NBits), 0)
  <1> DEFINE d == Sz(NBits)
             c == p * d
             N == [i \in 0 .. 2 * FirstPair - 1 |-> DirectNode(i)]
  <1>0. /\ FirstPair \in Nat \ {0} /\ Direct = 2 * FirstPair /\ d \in Nat \ {0} /\ d * Direct = 65536
        /\ NBits \in NBits .. PeekBits /\ NBits \in Nat /\ p \in Nat
    BY TableSizes
  <1>1. ASSUME NEW i \in 0 .. Direct - 1
        PROVE  /\ DirectNode(i) \in Nodes /\ DirectNode(i).n = NBits /\ DirectNode(i).lo = i * d
               /\ i * d \in Nat
               /\ i < p <=> i * d < c
    <2> DEFINE z == i * d
    <2>1. z \in Nat /\ Mult(z, d) /\ z < 65536
      <3>1. z \in Nat
        BY <1>0
      <3>2. (i + 1) * d <= Direct * d
        BY <1>0
      <3>3. (i + 1) * d = z + d /\ Direct * d = d * Direct
        BY <1>0
      <3>4. Mult(z, d)
        BY DEF Mult
      <3> HIDE DEF z, d
      <3>5. QED
        BY <1>0, <3>1, <3>2, <3>3, <3>4
    <2>2. i < p => z < c
      <3>1. i < p => (i + 1) * d <= p * d
        BY <1>0
      <3>2. (i + 1) * d = z + d
        BY <1>0
      <3> HIDE DEF z, d
      <3>3. c \in Int
        BY <1>0
      <3> HIDE DEF c
      <3>4. QED
        BY <1>0, <2>1, <3>1, <3>2, <3>3 DEF c
    <2>3. ~(i < p) => ~(z < c)
      <3>1. ~(i < p) => p * d <= i * d
        BY <1>0
      <3>2. c \in Int
        BY <1>0
      <3> HIDE DEF d
      <3>3. QED
        BY <2>1, <3>1, <3>2
    <2>4. DirectNode(i) = [n |-> NBits, lo |-> z]
      BY DEF DirectNode
    <2>5. DirectNode(i).n = NBits /\ DirectNode(i).lo = z
      <3> HIDE DEF z
      <3>1. QED
        BY <2>4
    <2>6. DirectNode(i) \in Nodes
      <3> HIDE DEF z, d
      <3>1. DirectNode(i) \in [n : NBits .. PeekBits, lo : Nat]
        BY <1>0, <2>1, <2>4
      <3>2. Mult(DirectNode(i).lo, Sz(DirectNode(i).n)) /\ DirectNode(i).lo < 65536
        BY <2>1, <2>5 DEF d
      <3>3. QED
        BY <3>1, <3>2 DEF Nodes
    <2>7. QED
      BY <2>1, <2>2, <2>3, <2>5, <2>6
  <1>2. \A i \in 0 .. Direct - 1 : N[i] = DirectNode(i)
    BY <1>0
  <1>3. N \in [0 .. 2 * FirstPair - 1 -> Nodes]
    BY <1>0, <1>1
  <1> HIDE DEF N
  <1>4. ASSUME NEW i \in 0 .. Direct - 1, NEW j \in 0 .. Direct - 1, N[i] = N[j]
        PROVE  i = j
    <2>1. i * d = j * d
      BY <1>1, <1>2, <1>4
    <2>2. i < j => (i + 1) * d <= j * d
      BY <1>0
    <2>3. j < i => (j + 1) * d <= i * d
      BY <1>0
    <2>4. (i + 1) * d = i * d + d /\ (j + 1) * d = j * d + d
      BY <1>0
    <2> DEFINE x == i * d
               y == j * d
    <2>5. x \in Nat /\ y \in Nat
      BY <1>1
    <2> HIDE DEF x, y, d
    <2>6. ~(x + d <= y) /\ ~(y + d <= x)
      BY <1>0, <2>1, <2>5 DEF x, y
    <2>7. ~(i < j) /\ ~(j < i)
      BY <2>2, <2>3, <2>4, <2>6 DEF x, y
    <2>8. QED
      BY <2>7
  <1>5. Shape(N, FirstPair)
    <2>1. \A i \in 0 .. Direct - 1 : N[i] = [n |-> NBits, lo |-> i * Sz(NBits)]
      BY <1>2 DEF DirectNode
    <2>2. FirstPair .. FirstPair - 1 = {}
      BY <1>0
    <2>3. \A i, j \in 0 .. 2 * FirstPair - 1 : N[i] = N[j] => i = j
      BY <1>0, <1>4
    <2>4. FirstPair \in Nat /\ FirstPair >= FirstPair
      BY <1>0
    <2>5. QED
      BY <1>3, <2>1, <2>2, <2>3, <2>4 DEF Shape
  <1>6. ASSUME NEW i \in 0 .. 2 * FirstPair - 1
        PROVE  IF Opened(N[i], c, 0) THEN Leads(N, tab, FirstPair, i) ELSE tab[i] = 0
    <2>1. i \in 0 .. Direct - 1 /\ N[i] = DirectNode(i)
      BY <1>0, <1>2
    <2>2. Opened(N[i], c, 0) <=> i < p
      <3>1. ~(NBits < 0)
        BY <1>0
      <3> HIDE DEF c, d
      <3>2. QED
        BY <1>1, <2>1, <3>1 DEF Opened
    <2>3. CASE i < p
      <3>1. i \in 0 .. p - 1
        BY <1>0, <2>1, <2>3
      <3>2. Leads(N, tab, FirstPair, i)
        BY <2>1, <3>1 DEF Leads
      <3>3. QED
        BY <2>2, <2>3, <3>2
    <2>4. CASE ~(i < p)
      <3>1. i \in p .. Direct - 1
        BY <1>0, <2>1, <2>4
      <3>2. QED
        BY <2>2, <2>4, <3>1
    <2>5. QED
      BY <2>3, <2>4
  <1>7. Direct .. 2 * FirstPair - 1 = {}
    BY <1>0
  <1> HIDE DEF c
  <1>8. Grown(N, tab, FirstPair, c, 0)
    BY <1>5, <1>6, <1>7 DEF Grown
  <1>9. QED
    BY <1>8 DEF c, d

-----------------------------------------------------------------------------
(* Looking a symbol up *)

\* What the next bits of a stream may be.
Next16 == 0 .. Sz(0) - 1

LEMMA Next16Facts ==
    /\ \A bits \in Next16 : bits \in Nat /\ bits < 65536
    /\ \A x \in Nat : x < 65536 => x \in Next16
  <1> DEFINE n == Sz(0)
  <1>1. n \in Nat
    BY Sizes16
  <1>2. n = 65536
    BY Sizes16
  <1> HIDE DEF n
  <1>3. (\A bits \in 0 .. n - 1 : bits \in Nat /\ bits < n) /\ \A x \in Nat : x < n => x \in 0 .. n - 1
    BY <1>1
  <1>4. QED
    BY <1>2, <1>3 DEF Next16, n

\* All codes have been placed.
Finished(N) == Grown(N, table, next_symbol, 65536, 0)

LEMMA FinishedFacts ==
    ASSUME LengthsOK, NEW N, Finished(N)
    PROVE  /\ next_symbol \in Nat /\ next_symbol >= FirstPair
           /\ Shape(N, next_symbol)
           /\ \A i \in 0 .. 2 * next_symbol - 1 : N[i] \in Nodes /\ Leads(N, table, next_symbol, i)
  <1>1. Grown(N, table, next_symbol, 65536, 0)
    BY DEF Finished
  <1>2. next_symbol \in Nat /\ next_symbol >= FirstPair
        /\ \A i \in 0 .. 2 * next_symbol - 1 : N[i] \in Nodes
    BY <1>1, GrownFacts
  <1>3. ASSUME NEW i \in 0 .. 2 * next_symbol - 1
        PROVE  Leads(N, table, next_symbol, i)
    <2>1. N[i].lo < 65536
      BY <1>2, NodeFacts
    <2>2. Opened(N[i], 65536, 0)
      BY <2>1 DEF Opened
    <2>3. QED
      BY <1>1, <2>2 DEF Grown
  <1>4. Shape(N, next_symbol)
    BY <1>1 DEF Grown
  <1>5. QED
    BY <1>2, <1>3, <1>4

Ends(x, bits) == x \in Coded /\ Covers(x, bits)

\* Behind n bits the lookup has the symbol already, or a pair on its way.
Reached(N, x, bits, n) ==
    \/ Ends(x, bits)
    \/ /\ n < PeekBits
       /\ x \in FirstPair .. next_symbol - 1
       /\ \E v \in Nodes : /\ N[2 * x] = Left(v) /\ N[2 * x + 1] = Right(v)
                           /\ v.n = n /\ v.lo <= bits /\ bits < v.lo + Sz(n)

LEMMA EntryReached ==
    ASSUME LengthsOK, NEW N, Finished(N),
           NEW bits \in Next16, NEW i \in 0 .. 2 * next_symbol - 1,
           N[i].lo <= bits, bits < N[i].lo + Sz(N[i].n)
    PROVE  Reached(N, table[i], bits, N[i].n)
  <1> DEFINE v == N[i]
             s == table[i]
  <1>1. v \in Nodes /\ v.lo \in Nat /\ Sz(v.n) \in Nat
    BY FinishedFacts, NodeFacts
  <1>3. Leads(N, table, next_symbol, i)
    BY FinishedFacts
  <1>4. CASE s \in Coded /\ Within(s, v)
    <2>1. FirstCode(s) \in Nat /\ Space(s) \in Nat
      BY <1>4, CodedFacts
    <2>2. FirstCode(s) <= v.lo /\ v.lo + Sz(v.n) <= FirstCode(s) + Space(s)
      BY <1>4 DEF Within
    <2>3. v.lo <= bits /\ bits < v.lo + Sz(v.n) /\ bits \in Int
      BY Next16Facts
    <2> HIDE DEF v, s
    <2>4. FirstCode(s) <= bits /\ bits < FirstCode(s) + Space(s)
      BY <1>1, <2>1, <2>2, <2>3
    <2>5. QED
      BY <1>4, <2>4 DEF Reached, Ends, Covers, v, s
  <1>5. CASE /\ s \in FirstPair .. next_symbol - 1
             /\ v.n < PeekBits
             /\ N[2 * s] = Left(v) /\ N[2 * s + 1] = Right(v)
    BY <1>1, <1>5 DEF Reached
  <1>6. QED
    BY <1>3, <1>4, <1>5 DEF Leads

\* What READ_HUFFSYM goes on to behind n bits.
Further(x, bits, n) == IF x < NSyms THEN x ELSE table[2 * x + Bit(bits, n)]

LEMMA LookupGoesOn ==
    ASSUME LengthsOK, NEW N, Finished(N),
           NEW bits \in Next16, NEW n \in NBits .. 15, NEW x, Reached(N, x, bits, n)
    PROVE  Reached(N, Further(x, bits, n + 1), bits, n + 1)
  <1>1. CASE Ends(x, bits)
    <2>1. x < NSyms
      BY <1>1, CodedFacts, SymbolFacts DEF Ends
    <2>2. QED
      BY <1>1, <2>1 DEF Further, Reached
  <1>2. CASE ~Ends(x, bits)
    <2>1. n < PeekBits /\ x \in FirstPair .. next_symbol - 1
      BY <1>2 DEF Reached
    <2>2. PICK v \in Nodes : /\ N[2 * x] = Left(v) /\ N[2 * x + 1] = Right(v)
                             /\ v.n = n /\ v.lo <= bits /\ bits < v.lo + Sz(n)
      BY <1>2 DEF Reached
    <2> DEFINE b == Bit(bits, n + 1)
               d == Sz(n + 1)
               y == v.lo
               i == 2 * x + b
    <2>3. /\ d \in Nat \ {0} /\ Sz(n) = 2 * d /\ y \in Nat /\ Mult(y, 2 * d) /\ bits \in Nat
          /\ y <= bits /\ bits < y + 2 * d
      BY <2>1, <2>2, NodeFacts, ChildFacts, Next16Facts
    <2>4. b = (bits \div d) % 2
      BY DEF Bit, Sz
    <2>5. /\ Left(v).n = n + 1 /\ Left(v).lo = y /\ Right(v).n = n + 1 /\ Right(v).lo = y + d
      BY <2>1, <2>2, ChildFacts
    <2> HIDE DEF b, d, y
    <2>60. d \in Nat \ {0} /\ Mult(y, 2 * d) /\ bits \in Nat /\ y <= bits /\ bits < y + 2 * d
      BY <2>3
    <2>61. LET a == (bits \div d) % 2
           IN  a \in {0, 1} /\ y + a * d <= bits /\ bits < y + a * d + d
      BY <2>60, BitChooses
    <2>6. b \in {0, 1} /\ y + b * d <= bits /\ bits < y + b * d + d
      BY <2>4, <2>61
    <2>7. /\ FirstPair \in Nat \ {0} /\ NSyms <= FirstPair /\ NSyms \in Nat /\ next_symbol \in Nat
          /\ NBits \in 1 .. 16
      BY TableSizes, SymbolFacts, FinishedFacts
    <2>8. i \in 0 .. 2 * next_symbol - 1
      BY <2>1, <2>6, <2>7
    <2>9. N[i].n = n + 1 /\ N[i].lo <= bits /\ bits < N[i].lo + d
      <3>1. CASE b = 0
        <4>1. i = 2 * x /\ y + b * d = y
          BY <2>1, <2>3, <2>7, <3>1
        <4>2. QED
          BY <2>2, <2>5, <2>6, <4>1
      <3>2. CASE b = 1
        <4>1. i = 2 * x + 1 /\ y + b * d = y + d
          BY <2>1, <2>3, <2>7, <3>2
        <4>2. QED
          BY <2>2, <2>5, <2>6, <4>1
      <3>3. QED
        BY <2>6, <3>1, <3>2
    <2>10. Further(x, bits, n + 1) = table[i]
      <3>1. ~(x < NSyms)
        BY <2>1, <2>7
      <3>2. QED
        BY <3>1 DEF Further, b
    <2>11. bits < N[i].lo + Sz(N[i].n)
      BY <2>9 DEF d
    <2> HIDE DEF i
    <2>12. Reached(N, table[i], bits, N[i].n)
      BY <2>8, <2>9, <2>11, EntryReached
    <2>13. QED
      BY <2>9, <2>10, <2>12
  <1>3. QED
    BY <1>1, <1>2

LEMMA LookupBegins ==
    ASSUME LengthsOK, NEW N, Finished(N), NEW bits \in Next16
    PROVE  Reached(N, table[bits \div Sz(NBits)], bits, NBits)
  <1> DEFINE d == Sz(NBits)
             i == bits \div d
             y == i * d
  <1>1. d \in Nat \ {0} /\ d * Direct = 65536 /\ Direct \in Nat \ {0} /\ Direct = 2 * FirstPair
    BY TableSizes
  <1>2. i \in 0 .. Direct - 1 /\ y <= bits /\ bits < y + d
    <2> HIDE DEF d
    <2>1. bits \in Nat /\ d \in Nat \ {0} /\ Direct \in Nat /\ bits < d * Direct
      BY <1>1, Next16Facts
    <2>2. QED
      BY <2>1, InItsPart
  <1> HIDE DEF i, d
  <1>3. N[i] = [n |-> NBits, lo |-> y]
    BY <1>2, FinishedFacts DEF Shape, d
  <1> HIDE DEF y
  <1>4. N[i].n = NBits /\ N[i].lo = y
    BY <1>3
  <1>5. i \in 0 .. 2 * next_symbol - 1
    <2>1. FirstPair \in Nat /\ next_symbol \in Nat /\ next_symbol >= FirstPair
      BY TableSizes, FinishedFacts
    <2>2. QED
      BY <1>1, <1>2, <2>1
  <1>6. Reached(N, table[i], bits, N[i].n)
    <2>1. N[i].lo <= bits /\ bits < N[i].lo + Sz(N[i].n)
      BY <1>2, <1>4 DEF d
    <2>2. QED
      BY <1>5, <2>1, EntryReached
  <1>7. QED
    BY <1>4, <1>6 DEF i, d

Entry(bits) == table[bits \div 2 ^ (MaxCodeBits - NBits)]

IsLookup(f, bits) ==
    f = [n \in NBits .. MaxCodeBits |->
           IF n = NBits THEN Entry(bits) ELSE Further(f[n - 1], bits, n)]

LEMMA LookupIsOne ==
    ASSUME NEW bits
    PROVE  Lookup(bits) = (CHOOSE f : IsLookup(f, bits))[PeekBits]
  BY DEF Lookup, IsLookup, Entry, Further

LookupSteps(f, bits) ==
    /\ f = [n \in NBits .. MaxCodeBits |-> f[n]]
    /\ \A n \in NBits .. MaxCodeBits :
          f[n] = IF n = NBits THEN Entry(bits) ELSE Further(f[n - 1], bits, n)

LEMMA LookupBySteps ==
    ASSUME NEW f, NEW bits
    PROVE  IsLookup(f, bits) <=> LookupSteps(f, bits)
  <1>1. ASSUME IsLookup(f, bits), NEW n \in NBits .. MaxCodeBits
        PROVE  f[n] = IF n = NBits THEN Entry(bits) ELSE Further(f[n - 1], bits, n)
    BY <1>1 DEF IsLookup
  <1>2. ASSUME IsLookup(f, bits)
        PROVE  f = [n \in NBits .. MaxCodeBits |-> f[n]]
    BY <1>2 DEF IsLookup
  <1>3. ASSUME f = [n \in NBits .. MaxCodeBits |-> f[n]],
               \A n \in NBits .. MaxCodeBits :
                  f[n] = IF n = NBits THEN Entry(bits) ELSE Further(f[n - 1], bits, n)
        PROVE  IsLookup(f, bits)
    BY <1>3 DEF IsLookup
  <1>4. QED
    BY <1>1, <1>2, <1>3 DEF LookupSteps

Found == Coded \union FirstPair .. next_symbol - 1

\* The steps of a lookup, counted from its first, for as long as each finds
\* a symbol or a pair.
Looked(g, bits) ==
    /\ g \in [0 .. 16 - NBits -> Found] /\ g[0] = Entry(bits)
    /\ \A k \in 1 .. 16 - NBits :
          Further(g[k - 1], bits, NBits + k) \in Found => g[k] = Further(g[k - 1], bits, NBits + k)

LEMMA LookedExists ==
    ASSUME NEW bits, Entry(bits) \in Found
    PROVE  \E g : Looked(g, bits)
  <1> DEFINE S == Found
             m == 16 - NBits
             start == Entry(bits)
             step == [x \in (1 .. m) \X S |->
                        IF Further(x[2], bits, NBits + x[1]) \in S
                        THEN Further(x[2], bits, NBits + x[1]) ELSE x[2]]
  <1>0. m \in Nat
    BY TableSizes
  <1>1. step \in [(1 .. m) \X S -> S]
    OBVIOUS
  <1>2. \A k \in 1 .. m : \A p \in S :
            Further(p, bits, NBits + k) \in S => step[<<k, p>>] = Further(p, bits, NBits + k)
    OBVIOUS
  <1>3. PICK g : Iterates(g, m, S, start, step)
    <2>1. start \in S
      OBVIOUS
    <2> HIDE DEF S, step, start, m
    <2>2. QED
      BY <1>0, <1>1, <2>1, IterationExists
  <1> HIDE DEF step
  <1>4. g \in [0 .. m -> S] /\ g[0] = start
    BY <1>3 DEF Iterates
  <1>5. ASSUME NEW k \in 1 .. m, Further(g[k - 1], bits, NBits + k) \in S
        PROVE  g[k] = Further(g[k - 1], bits, NBits + k)
    <2>1. k - 1 \in 0 .. m
      BY <1>0
    <2>2. g[k - 1] \in S
      BY <1>4, <2>1
    <2>3. g[k] = step[<<k, g[k - 1]>>]
      BY <1>3 DEF Iterates
    <2>4. QED
      BY <1>2, <1>5, <2>2, <2>3
  <1>6. QED
    BY <1>4, <1>5 DEF Looked

LEMMA ReachedFound ==
    ASSUME NEW N, NEW x, NEW bits, NEW n, Reached(N, x, bits, n)
    PROVE  x \in Found
  BY DEF Reached, Found, Ends

\* Behind a finished tree, every lookup is a path of steps that reach
\* something, and there is one.
LEMMA LookupExists ==
    ASSUME LengthsOK, NEW N, Finished(N), NEW bits \in Next16
    PROVE  \E f : IsLookup(f, bits)
  <1> DEFINE m == 16 - NBits
  <1>0. m \in Nat /\ NBits \in 1 .. 16 /\ m = 16 - NBits
    BY TableSizes
  <1>1. Reached(N, Entry(bits), bits, NBits)
    BY LookupBegins DEF Entry, Sz
  <1>2. PICK g : Looked(g, bits)
    <2>1. Entry(bits) \in Found
      BY <1>1, ReachedFound
    <2>2. QED
      BY <2>1, LookedExists
  <1> DEFINE T == {k \in 0 .. m : Reached(N, g[k], bits, NBits + k)}
  <1>3. 0 \in T
    <2>1. NBits + 0 = NBits /\ 0 \in 0 .. m
      BY <1>0
    <2>2. g[0] = Entry(bits)
      BY <1>2 DEF Looked
    <2>3. QED
      BY <1>1, <2>1, <2>2
  <1> HIDE DEF m
  <1>4. ASSUME NEW k \in 0 .. m - 1, Reached(N, g[k], bits, NBits + k)
        PROVE  /\ k + 1 \in 0 .. m
               /\ g[k + 1] = Further(g[k], bits, NBits + (k + 1))
               /\ Reached(N, g[k + 1], bits, NBits + (k + 1))
    <2>1. /\ NBits + k \in NBits .. 15 /\ (NBits + k) + 1 = NBits + (k + 1)
          /\ k + 1 \in 1 .. m /\ k + 1 \in 0 .. m /\ (k + 1) - 1 = k
      BY <1>0
    <2>2. Reached(N, Further(g[k], bits, (NBits + k) + 1), bits, (NBits + k) + 1)
      BY <1>4, <2>1, LookupGoesOn
    <2>3. Reached(N, Further(g[k], bits, NBits + (k + 1)), bits, NBits + (k + 1))
      BY <2>1, <2>2
    <2>4. Further(g[k], bits, NBits + (k + 1)) \in Found
      BY <2>3, ReachedFound
    <2>5. g[k + 1] = Further(g[k], bits, NBits + (k + 1))
      BY <1>2, <2>1, <2>4 DEF Looked, m
    <2>6. QED
      BY <2>1, <2>3, <2>5
  <1>5. \A k \in 0 .. m - 1 : k \in T => k + 1 \in T
    BY <1>4
  <1>6. \A k \in 0 .. m : k \in T
    <2> HIDE DEF T
    <2>1. QED
      BY <1>0, <1>3, <1>5, UpTo
  <1> DEFINE f == [n \in NBits .. MaxCodeBits |-> g[n - NBits]]
  <1>7. ASSUME NEW n \in NBits .. MaxCodeBits
        PROVE  f[n] = IF n = NBits THEN Entry(bits) ELSE Further(f[n - 1], bits, n)
    <2>0. MaxCodeBits = 16
      BY DEF MaxCodeBits
    <2>1. CASE n = NBits
      <3>1. n - NBits = 0
        BY <1>0, <2>1
      <3>2. g[0] = Entry(bits)
        BY <1>2 DEF Looked
      <3>3. QED
        BY <2>1, <3>1, <3>2
    <2>2. CASE n # NBits
      <3> DEFINE k == (n - 1) - NBits
      <3>1. /\ k \in 0 .. m - 1 /\ k \in 0 .. m /\ k + 1 = n - NBits /\ NBits + (k + 1) = n
            /\ n - 1 \in NBits .. MaxCodeBits
        BY <1>0, <2>0, <2>2 DEF m
      <3>2. f[n] = g[k + 1] /\ f[n - 1] = g[k]
        BY <3>1
      <3> HIDE DEF f, k
      <3>3. Reached(N, g[k], bits, NBits + k)
        BY <1>6, <3>1
      <3>4. g[k + 1] = Further(g[k], bits, NBits + (k + 1))
        BY <1>4, <3>1, <3>3
      <3>5. QED
        BY <2>2, <3>1, <3>2, <3>4
    <2>3. QED
      BY <2>1, <2>2
  <1>8. f = [n \in NBits .. MaxCodeBits |-> f[n]]
    OBVIOUS
  <1> HIDE DEF f
  <1>9. LookupSteps(f, bits)
    BY <1>7, <1>8 DEF LookupSteps
  <1>10. IsLookup(f, bits)
    BY <1>9, LookupBySteps
  <1>11. QED
    BY <1>10

\* Whatever the next bits are: what is looked up is the symbol they begin with.
LEMMA LookupFinds ==
    ASSUME LengthsOK, NEW N, Finished(N), NEW bits \in Next16
    PROVE  Ends(Lookup(bits), bits)
  <1> DEFINE m == PeekBits - NBits
             f == CHOOSE g : IsLookup(g, bits)
  <1>0. m \in Nat /\ NBits \in 1 .. 16 /\ NBits + m = PeekBits /\ PeekBits \in NBits .. 16
        /\ MaxCodeBits = 16
    BY TableSizes DEF MaxCodeBits
  <1>1. IsLookup(f, bits)
    BY LookupExists
  <1>2. Lookup(bits) = f[PeekBits]
    BY LookupIsOne
  <1> HIDE DEF f, m
  <1>3. LookupSteps(f, bits)
    BY <1>1, LookupBySteps
  <1>4. \A n \in NBits .. MaxCodeBits :
          f[n] = IF n = NBits THEN Entry(bits) ELSE Further(f[n - 1], bits, n)
    BY <1>3 DEF LookupSteps
  <1> DEFINE T == {k \in 0 .. m : Reached(N, f[NBits + k], bits, NBits + k)}
  <1>5. 0 \in T
    <2>1. NBits + 0 = NBits /\ 0 \in 0 .. m /\ NBits \in NBits .. MaxCodeBits
      BY <1>0
    <2>2. f[NBits] = Entry(bits)
      BY <1>4, <2>1
    <2>3. Reached(N, Entry(bits), bits, NBits)
      BY LookupBegins DEF Entry, Sz
    <2>4. QED
      BY <2>1, <2>2, <2>3
  <1>6. ASSUME NEW k \in 0 .. m - 1, k \in T
        PROVE  k + 1 \in T
    <2> DEFINE n == NBits + k
    <2>1. /\ n \in NBits .. 15 /\ n + 1 = NBits + (k + 1) /\ n + 1 # NBits
          /\ n + 1 \in NBits .. MaxCodeBits /\ (n + 1) - 1 = n /\ k + 1 \in 0 .. m
      BY <1>0
    <2>2. Reached(N, f[n], bits, n)
      BY <1>6
    <2> HIDE DEF n
    <2>3. Reached(N, Further(f[n], bits, n + 1), bits, n + 1)
      BY <2>1, <2>2, LookupGoesOn
    <2>4. f[n + 1] = Further(f[n], bits, n + 1)
      BY <1>4, <2>1
    <2>5. Reached(N, f[NBits + (k + 1)], bits, NBits + (k + 1))
      BY <2>1, <2>3, <2>4
    <2>6. QED
      BY <2>1, <2>5
  <1>7. m \in T
    <2> HIDE DEF T
    <2>1. m \in 0 .. m
      BY <1>0
    <2>2. QED
      BY <1>0, <1>5, <1>6, <2>1, UpTo
  <1>8. Reached(N, Lookup(bits), bits, PeekBits)
    BY <1>0, <1>2, <1>7
  <1>9. ~(PeekBits < PeekBits)
    BY <1>0
  <1>10. QED
    BY <1>8, <1>9 DEF Reached

-----------------------------------------------------------------------------
(* The code does not change while its table is made *)

LEMMA AdditiveSums ==
    LengthsOK => \A f : Additive(f) => \A S \in SUBSET Symbols : Sum(S) = f[S]
  BY FoldIsAdditive

LEMMA SumsStay ==
    ASSUME LengthsOK, length' = length
    PROVE  \A S \in SUBSET Symbols : Sum(S)' = Sum(S)
  <1>1. (LengthsOK => \A f : Additive(f) => \A S \in SUBSET Symbols : Sum(S) = f[S])'
    BY AdditiveSums, PTL
  <1>2. LengthsOK'
    BY DEF LengthsOK
  <1>3. \A s : Space(s)' = Space(s)
    BY DEF Space
  <1>4. PICK f : Additive(f)
    BY AdditiveExists
  <1>5. Additive(f)'
    BY <1>3, <1>4 DEF Additive
  <1>6. \A S \in SUBSET Symbols : Sum(S)' = f[S]
    BY <1>1, <1>2, <1>5
  <1>7. QED
    BY <1>4, <1>6, AdditiveSums

LEMMA CodeStays ==
    ASSUME LengthsOK, length' = length
    PROVE  /\ LengthsOK'
           /\ Coded' = Coded
           /\ \A s : Space(s)' = Space(s)
           /\ \A s : FirstCode(s)' = FirstCode(s)
           /\ CodeSpace' = CodeSpace
           /\ Empty' <=> Empty
  <1>1. LengthsOK'
    BY DEF LengthsOK
  <1>2. Coded' = Coded /\ Coded \in SUBSET Symbols
    BY DEF Coded
  <1>3. \A s : Space(s)' = Space(s)
    BY DEF Space
  <1>4. ASSUME NEW s PROVE FirstCode(s)' = FirstCode(s)
    <2> DEFINE S == {t \in Coded : Precedes(t, s)}
    <2>1. FirstCode(s) = Sum(S)
      BY DEF FirstCode, Sum
    <2>2. FirstCode(s)' = Sum(S)'
      BY DEF FirstCode, Sum
    <2>3. \A t : Precedes(t, s)' <=> Precedes(t, s)
      BY DEF Precedes
    <2>4. S' = S
      BY <1>2, <2>3
    <2> HIDE DEF S
    <2>5. PICK R : R = S
      OBVIOUS
    <2>6. R \in SUBSET Symbols
      BY <1>2, <2>5 DEF S
    <2>7. Sum(R)' = Sum(R)
      BY <2>6, SumsStay
    <2>8. Sum(S) = Sum(R)
      BY <2>5
    <2>9. Sum(S)' = Sum(R)'
      BY <2>4, <2>5
    <2>10. QED
      BY <2>1, <2>2, <2>7, <2>8, <2>9
  <1>5. CodeSpace' = CodeSpace
    <2>1. PICK R : R = Coded
      OBVIOUS
    <2>2. Sum(R)' = Sum(R)
      BY <1>2, <2>1, SumsStay
    <2>3. Sum(Coded)' = Sum(R)' /\ Sum(Coded) = Sum(R)
      BY <1>2, <2>1
    <2>4. CodeSpace = Sum(Coded) /\ CodeSpace' = Sum(Coded)'
      BY DEF CodeSpace, Sum
    <2>5. QED
      BY <2>2, <2>3, <2>4
  <1>6. Empty' <=> Empty
    BY DEF Empty
  <1>7. QED
    BY <1>1, <1>2, <1>3, <1>4, <1>5, <1>6

LEMMA GrownStays ==
    ASSUME LengthsOK, length' = length, NEW N, NEW tab, NEW pair, NEW c, NEW d
    PROVE  Grown(N, tab, pair, c, d)' <=> Grown(N, tab, pair, c, d)
  <1>1. /\ Coded' = Coded
        /\ \A s : Space(s)' = Space(s)
        /\ \A s : FirstCode(s)' = FirstCode(s)
    BY CodeStays
  <1>2. \A s, v : Within(s, v)' <=> Within(s, v)
    BY <1>1 DEF Within
  <1>3. Shape(N, pair)' <=> Shape(N, pair)
    BY <1>1 DEF Shape
  <1>4. \A i : Leads(N, tab, pair, i)' <=> Leads(N, tab, pair, i)
    BY <1>1, <1>2 DEF Leads
  <1>5. QED
    BY <1>3, <1>4 DEF Grown

-----------------------------------------------------------------------------
(* Placing the codes *)

\* The symbols that have been placed when symbol j of length n is looked at.
PlacedAt(n, j) == {t \in Coded : length[t] < n \/ (length[t] = n /\ t < j)}

Placed == PlacedAt(bit_num, sym)

TableTypes ==
    /\ length \in [Symbols -> 0 .. PeekBits]
    /\ pc \in {"direct", "long", "done"} /\ ret \in {0, 1}
    /\ bit_num \in 1 .. 17 /\ sym \in 0 .. NSyms
    /\ pos \in Nat /\ bit_mask \in 0 .. E(15)
    /\ table_mask \in {Direct, Direct * 65536}

\* The direct entries are filled from the front, each with the symbol whose
\* code it begins.
DirectPart ==
    /\ ret = 0 /\ table_mask = Direct /\ next_symbol = FirstPair
    /\ bit_num <= NBits + 1
    /\ bit_num <= NBits => bit_mask = E(NBits - bit_num)
    /\ bit_num = NBits + 1 => sym = 0
    /\ pos <= Direct /\ pos * Sz(NBits) = Sum(Placed)
    /\ table \in Tables
    /\ \A k \in 0 .. pos - 1 : table[k] \in Coded /\ Within(table[k], DirectNode(k))

\* Behind it, the tree has grown up to the code that comes next.
LongPart ==
    /\ ret = 0 /\ table_mask = Direct * 65536
    /\ bit_num >= NBits + 1
    /\ bit_mask = E(16 + NBits - bit_num)
    /\ pos = Sum(Placed) * Direct /\ pos <= table_mask
    /\ CodeSpace = 65536 => \E N : Grown(N, table, next_symbol, Sum(Placed), 0)

ShortCodes(k) == {s \in Coded : length[s] <= k}

Made ==
    /\ ret = 1 => CodeSpace # 65536 /\ ~Empty
    /\ ret = 0 => pos <= table_mask
    /\ ret = 0 /\ ~Empty => /\ \E k \in 1 .. 16 : Sum(ShortCodes(k)) = 65536
                            /\ \E N : Finished(N)

TableInv ==
    /\ TableTypes
    /\ pc = "direct" => DirectPart
    /\ pc = "long" => LongPart
    /\ pc = "done" => Made

LEMMA TableTypesFacts ==
    ASSUME TableTypes
    PROVE  /\ LengthsOK /\ \A s \in Coded : length[s] <= PeekBits
           /\ bit_num \in Nat \ {0} /\ sym \in Nat /\ NBits \in 1 .. 16
  <1>1. PeekBits \in 1 .. 16 /\ NBits \in 1 .. 16
    BY TableSizes
  <1>2. LengthsOK
    <2>1. 0 .. PeekBits \subseteq 0 .. 16
      BY <1>1
    <2>2. QED
      BY <2>1 DEF TableTypes, LengthsOK
  <1>3. \A s \in Coded : length[s] <= PeekBits
    BY <1>1 DEF TableTypes, Coded
  <1>4. QED
    BY <1>1, <1>2, <1>3, SymbolFacts DEF TableTypes

\* The symbol that is placed next.
LEMMA NextSymbol ==
    ASSUME TableTypes, Unplaced # {}, NEW s, s = Min(Unplaced)
    PROVE  /\ s \in Coded /\ length[s] = bit_num /\ s + 1 \in 0 .. NSyms /\ s \in 0 .. NSyms - 1
           /\ FirstCode(s) = Sum(Placed)
           /\ Space(s) = Sz(bit_num)
           /\ Sum(PlacedAt(bit_num, s + 1)) = Sum(Placed) + Space(s)
           /\ Sum(Placed) + Space(s) <= CodeSpace
           /\ Sum(Placed) \in Nat /\ Space(s) \in Nat \ {0} /\ CodeSpace \in Nat
           /\ bit_num \in 1 .. 16 /\ ~Empty
  <1>0. LengthsOK /\ bit_num \in Nat \ {0} /\ sym \in Nat
    BY TableTypesFacts
  <1>1. \A x \in Symbols : x \in Nat /\ x < NSyms /\ NSyms \in Nat
    BY SymbolFacts
  <1>2. s \in Unplaced /\ \A x \in Unplaced : s <= x
    <2>1. Unplaced \in SUBSET Nat
      BY <1>1 DEF Unplaced
    <2> DEFINE U == Unplaced
    <2>2. U \in SUBSET Nat /\ U # {} /\ s = CHOOSE x \in U : \A y \in U : x <= y
      BY <2>1 DEF Min
    <2> HIDE DEF U
    <2>3. \E x \in U : \A y \in U : x <= y
      BY <2>2, LeastNat
    <2>4. s \in U /\ \A y \in U : s <= y
      BY <2>2, <2>3
    <2>5. QED
      BY <2>4 DEF U
  <1>3. s \in Symbols /\ s >= sym /\ length[s] = bit_num
    BY <1>2 DEF Unplaced
  <1>4. s \in Coded /\ Coded \in SUBSET Symbols
    BY <1>0, <1>3 DEF Coded
  <1>5. \A t \in Coded : (length[t] = bit_num /\ t < sym) <=> (length[t] = bit_num /\ t < s)
    <2> SUFFICES ASSUME NEW t \in Coded, length[t] = bit_num
                 PROVE  t < sym <=> t < s
      OBVIOUS
    <2>1. t \in Nat /\ s \in Nat /\ t \in Symbols
      BY <1>1, <1>3, <1>4
    <2>2. ~(t < sym) => t \in Unplaced
      BY <1>0, <2>1 DEF Unplaced
    <2>3. ~(t < sym) => s <= t
      BY <1>2, <2>2
    <2>4. QED
      BY <1>0, <1>3, <2>1, <2>3
  <1>6. Placed = {t \in Coded : Precedes(t, s)}
    BY <1>3, <1>5 DEF Placed, PlacedAt, Precedes
  <1>7. FirstCode(s) = Sum(Placed)
    BY <1>6 DEF FirstCode, Sum
  <1>8. PlacedAt(bit_num, s + 1) = Placed \union {s} /\ s \notin Placed
    <2>1. \A t \in Coded : t < s + 1 <=> (t < s \/ t = s)
      BY <1>1, <1>3, <1>4
    <2>2. s \notin Placed
      BY <1>0, <1>1, <1>3, <1>5, <1>4 DEF Placed, PlacedAt
    <2>3. \A t : t \in PlacedAt(bit_num, s + 1) <=> t \in Placed \union {s}
      BY <1>3, <1>4, <1>5, <2>1 DEF Placed, PlacedAt
    <2>4. QED
      BY <2>2, <2>3
  <1>9. Placed \in SUBSET Symbols /\ s \in Symbols \ Placed
    BY <1>3, <1>4, <1>8 DEF Placed, PlacedAt
  <1>10. Sum(PlacedAt(bit_num, s + 1)) = Sum(Placed) + Space(s)
    <2>1. Sum(Placed \union {s}) = Sum(Placed) + Space(s)
      BY <1>0, <1>9, SumFacts
    <2>2. QED
      BY <1>8, <2>1
  <1>11. FirstCode(s) + Space(s) <= CodeSpace
    BY <1>0, <1>4, CanonicalCode
  <1>12. FirstCode(s) \in Nat /\ Space(s) \in Nat \ {0} /\ CodeSpace \in Nat
         /\ Space(s) = Sz(length[s]) /\ length[s] \in 1 .. 16
    BY <1>0, <1>4, CodedFacts
  <1>13. ~Empty
    BY <1>4 DEF Empty, Coded
  <1>14. s + 1 \in 0 .. NSyms /\ s \in 0 .. NSyms - 1
    BY <1>1, <1>3
  <1>15. QED
    BY <1>3, <1>4, <1>7, <1>10, <1>11, <1>12, <1>13, <1>14

\* The next length, when there is no more symbol of this one.
LEMMA LengthComplete ==
    ASSUME TableTypes, Unplaced = {}
    PROVE  PlacedAt(bit_num + 1, 0) = Placed
  <1>0. LengthsOK /\ bit_num \in Nat \ {0} /\ sym \in Nat
    BY TableTypesFacts
  <1>1. \A t \in Coded : t \in Nat /\ t \in Symbols /\ length[t] \in Nat
    BY <1>0, CodedFacts, SymbolFacts
  <1>2. \A t \in Coded : length[t] = bit_num => t < sym
    BY <1>0, <1>1 DEF Unplaced
  <1>3. \A t \in Coded : length[t] < bit_num + 1 <=> (length[t] < bit_num \/ length[t] = bit_num)
    BY <1>0, <1>1
  <1>4. \A t \in Coded : ~(t < 0)
    BY <1>1
  <1>5. QED
    BY <1>2, <1>3, <1>4 DEF Placed, PlacedAt

LEMMA PlacedSum ==
    ASSUME TableTypes
    PROVE  /\ Sum(Placed) \in Nat /\ Sum(Placed) <= CodeSpace /\ CodeSpace \in Nat
           /\ bit_num = 17 => Placed = Coded
           /\ bit_num = NBits + 1 /\ sym = 0 => Placed = ShortCodes(NBits)
           /\ ShortCodes(16) = Coded
           /\ Empty => CodeSpace = 0
  <1>0. LengthsOK /\ NBits \in 1 .. 16
    BY TableTypesFacts
  <1>1. Coded \in SUBSET Symbols /\ CodeSpace = Sum(Coded) /\ CodeSpace \in Nat
        /\ \A t \in Coded : length[t] \in 1 .. 16
    BY <1>0, CodedFacts
  <1>2. Placed \in SUBSET Coded
    BY DEF Placed, PlacedAt
  <1>3. Sum(Placed) \in Nat /\ Sum(Placed) <= Sum(Coded)
    BY <1>0, <1>1, <1>2, SumFacts
  <1>4. ASSUME bit_num = 17 PROVE Placed = Coded
    <2>1. \A t \in Coded : length[t] < 17
      BY <1>1
    <2>2. QED
      BY <1>4, <2>1 DEF Placed, PlacedAt
  <1>5. ASSUME bit_num = NBits + 1, sym = 0 PROVE Placed = ShortCodes(NBits)
    <2>1. \A t \in Coded : t \in Nat
      BY <1>1, SymbolFacts
    <2>2. \A t \in Coded : (length[t] < NBits + 1 <=> length[t] <= NBits) /\ ~(t < 0)
      BY <1>0, <1>1, <2>1
    <2>3. QED
      BY <1>5, <2>2 DEF Placed, PlacedAt, ShortCodes
  <1>6. ShortCodes(16) = Coded
    BY <1>1 DEF ShortCodes
  <1>7. ASSUME Empty PROVE CodeSpace = 0
    <2>1. Coded = {}
      BY <1>7 DEF Empty, Coded
    <2>2. QED
      BY <1>0, <1>1, <2>1, SumFacts
  <1>8. QED
    BY <1>1, <1>3, <1>4, <1>5, <1>6, <1>7

\* What a code takes of the space halves with every bit.
LEMMA SmallPowers ==
    /\ \A n \in 0 .. 15 : E(n) \in 0 .. E(15)
    /\ \A n \in 1 .. 16 : E(n) \div 2 = E(n - 1)
    /\ \A k \in 0 .. E(15) : k \div 2 \in 0 .. E(15)
  <1>1. /\ E(0) = 1 /\ E(1) = 2 /\ E(2) = 4 /\ E(3) = 8
        /\ E(4) = 16 /\ E(5) = 32 /\ E(6) = 64 /\ E(7) = 128
        /\ E(8) = 256 /\ E(9) = 512 /\ E(10) = 1024 /\ E(11) = 2048
        /\ E(12) = 4096 /\ E(13) = 8192 /\ E(14) = 16384 /\ E(15) = 32768
        /\ E(16) = 65536
    BY DEF E
  <1>2. \A n \in 0 .. 15 : E(n) \in Nat /\ E(n) <= 32768
    BY <1>1
  <1>3. \A n \in 1 .. 16 : E(n) \div 2 = E(n - 1)
    BY <1>1
  <1> DEFINE top == E(15)
  <1>4. top \in Nat
    BY <1>1
  <1>5. \A n \in 0 .. 15 : E(n) \in 0 .. top
    BY <1>1, <1>2
  <1> HIDE DEF top
  <1>6. \A k \in 0 .. top : k \div 2 \in 0 .. top
    BY <1>4
  <1>7. QED
    BY <1>3, <1>5, <1>6 DEF top

LEMMA TableInitHolds ==
    ASSUME NEW lengths \in SUBSET [Symbols -> 0 .. PeekBits], TableInit(lengths)
    PROVE  TableInv
  <1>0. NBits \in 1 .. 16 /\ Direct = 2 * FirstPair /\ FirstPair \in Nat \ {0} /\ Direct = E(NBits)
        /\ TableSize \in Nat
    BY TableSizes
  <1>1. length \in [Symbols -> 0 .. PeekBits] /\ pos = 0 /\ table_mask = Direct /\ bit_num = 1
        /\ sym = 0 /\ next_symbol = FirstPair /\ pc = "direct" /\ ret = 0 /\ bit_mask = Direct \div 2
        /\ table = [k \in 0 .. TableSize - 1 |-> Old]
    BY DEF TableInit
  <1>2. bit_mask = FirstPair
    BY <1>1 DEF FirstPair
  <1>3. FirstPair = E(NBits - 1) /\ FirstPair <= E(15)
    <2> DEFINE n == NBits - 1
    <2>1. n \in 0 .. 31 /\ n + 1 = NBits /\ n \in 0 .. 32
      BY <1>0
    <2> HIDE DEF n
    <2>2. E(n + 1) = 2 * E(n) /\ E(n) \in Nat
      BY <2>1, Powers
    <2>3. E(NBits) = 2 * E(n)
      BY <2>1, <2>2
    <2>4. FirstPair = E(n)
      <3> DEFINE e == E(n)
      <3>1. 2 * FirstPair = 2 * e /\ e \in Nat
        BY <1>0, <2>2, <2>3
      <3> HIDE DEF e
      <3>2. FirstPair = e
        BY <1>0, <3>1
      <3>3. QED
        BY <3>2 DEF e
    <2>5. n \in 0 .. 15
      BY <1>0, <2>1 DEF n
    <2>6. QED
      BY <2>4, <2>5, SmallPowers DEF n
  <1>4. TableTypes
    <2>1. bit_num \in 1 .. 17 /\ sym \in 0 .. NSyms /\ pos \in Nat
      BY <1>1, SymbolFacts
    <2>2. bit_mask \in 0 .. E(15)
      BY <1>0, <1>2, <1>3, Powers
    <2>3. QED
      BY <1>1, <2>1, <2>2 DEF TableTypes
  <1>5. Placed = {} /\ Sum(Placed) = 0
    <2>0. LengthsOK
      BY <1>4, TableTypesFacts
    <2>1. \A t \in Coded : length[t] \in 1 .. 16 /\ t \in Nat
      BY <2>0, CodedFacts, SymbolFacts
    <2>2. Placed = {}
      <3>1. \A t \in Coded : ~(length[t] < 1) /\ ~(t < 0)
        BY <2>1
      <3>2. bit_num = 1 /\ sym = 0
        BY <1>1
      <3>3. QED
        BY <3>1, <3>2 DEF Placed, PlacedAt
    <2>3. Sum({}) = 0
      BY <2>0, SumFacts
    <2>4. QED
      BY <2>2, <2>3
  <1>6. table \in Tables
    BY <1>1 DEF Tables
  <1>7. pos * Sz(NBits) = Sum(Placed)
    <2>1. Sz(NBits) \in Nat
      BY TableSizes
    <2>2. 0 * Sz(NBits) = 0
      BY <2>1
    <2>3. QED
      BY <1>1, <1>5, <2>2
  <1>8. DirectPart
    <2>1. bit_num <= NBits + 1 /\ bit_num # NBits + 1 /\ pos <= Direct /\ 0 .. pos - 1 = {}
      BY <1>0, <1>1
    <2>2. bit_mask = E(NBits - bit_num)
      BY <1>1, <1>2, <1>3
    <2>3. QED
      BY <1>1, <1>6, <1>7, <2>1, <2>2 DEF DirectPart
  <1>9. QED
    BY <1>1, <1>4, <1>8 DEF TableInv

LEMMA PlacedMoves ==
    ASSUME TableTypes, length' = length, NEW S \in SUBSET Coded,
           \A t \in Coded : (length[t] < bit_num' \/ (length[t] = bit_num' /\ t < sym')) <=> t \in S
    PROVE  Sum(Placed)' = Sum(S)
  <1>1. LengthsOK /\ Coded' = Coded /\ Coded \in SUBSET Symbols
    BY TableTypesFacts, CodeStays, CodedFacts
  <1>2. Placed' = S
    BY <1>1 DEF Placed, PlacedAt
  <1>3. S \in SUBSET Symbols
    BY <1>1
  <1>4. Sum(S)' = Sum(S)
    BY <1>1, <1>3, SumsStay
  <1>5. QED
    BY <1>2, <1>4

\* A symbol has been placed: its code's part of the space is taken.
LEMMA SymbolPlaced ==
    ASSUME TableTypes, length' = length, bit_num' = bit_num, Unplaced # {},
           NEW s, s = Min(Unplaced), sym' = s + 1
    PROVE  Sum(Placed)' = Sum(Placed) + Space(s)
  <1>1. PICK S : S = PlacedAt(bit_num, s + 1)
    OBVIOUS
  <1>2. S \in SUBSET Coded
    BY <1>1 DEF PlacedAt
  <1>3. \A t \in Coded : (length[t] < bit_num' \/ (length[t] = bit_num' /\ t < sym')) <=> t \in S
    BY <1>1 DEF PlacedAt
  <1>4. Sum(Placed)' = Sum(S)
    BY <1>2, <1>3, PlacedMoves
  <1>5. Sum(PlacedAt(bit_num, s + 1)) = Sum(Placed) + Space(s)
    BY NextSymbol
  <1>6. QED
    BY <1>1, <1>4, <1>5

\* Nothing has been placed: a length is complete, or the last one is left.
LEMMA NothingPlaced ==
    ASSUME TableTypes, length' = length,
           \/ Unplaced = {} /\ bit_num' = bit_num + 1 /\ sym' = 0
           \/ bit_num' = bit_num /\ sym' = sym
    PROVE  Sum(Placed)' = Sum(Placed)
  <1>1. PICK S : S = Placed
    OBVIOUS
  <1>2. S \in SUBSET Coded
    BY <1>1 DEF Placed, PlacedAt
  <1>3. \A t \in Coded : (length[t] < bit_num' \/ (length[t] = bit_num' /\ t < sym')) <=> t \in S
    <2>1. CASE Unplaced = {} /\ bit_num' = bit_num + 1 /\ sym' = 0
      <3>1. S = PlacedAt(bit_num + 1, 0)
        BY <1>1, <2>1, LengthComplete
      <3>2. QED
        BY <2>1, <3>1 DEF PlacedAt
    <2>2. CASE bit_num' = bit_num /\ sym' = sym
      BY <1>1, <2>2 DEF Placed, PlacedAt
    <2>3. QED
      BY <2>1, <2>2
  <1>4. Sum(Placed)' = Sum(S)
    BY <1>2, <1>3, PlacedMoves
  <1>5. QED
    BY <1>1, <1>4

LEMMA WithinStays ==
    ASSUME TableTypes, length' = length
    PROVE  \A s, v : Within(s, v)' <=> Within(s, v)
  <1>1. (\A s : FirstCode(s)' = FirstCode(s)) /\ (\A s : Space(s)' = Space(s))
    BY TableTypesFacts, CodeStays
  <1>2. QED
    BY <1>1 DEF Within

LEMMA DirectSymbolHolds ==
    ASSUME TableInv, DirectSymbol
    PROVE  TableInv'
  <1> DEFINE s == Min(Unplaced)
             e == E(NBits - bit_num)
             d == Sz(NBits)
             z == Space(s)
             a == Sum(Placed)
  <1>1. TableTypes /\ DirectPart /\ pc = "direct"
    BY DEF TableInv, DirectSymbol
  <1>2. /\ length' = length /\ bit_num' = bit_num /\ sym' = s + 1 /\ pos' = pos + bit_mask
        /\ UNCHANGED <<table_mask, bit_mask, next_symbol>>
        /\ bit_num <= NBits /\ Unplaced # {}
    BY DEF DirectSymbol, Taken
  <1>3. /\ s \in Coded /\ length[s] = bit_num /\ s + 1 \in 0 .. NSyms /\ s \in 0 .. NSyms - 1
        /\ FirstCode(s) = a /\ z = Sz(bit_num) /\ a + z <= CodeSpace
        /\ a \in Nat /\ z \in Nat \ {0} /\ CodeSpace \in Nat
        /\ bit_num \in 1 .. 16 /\ ~Empty
    <2> HIDE DEF s
    <2>1. s = Min(Unplaced)
      BY DEF s
    <2>2. QED
      BY <1>1, <1>2, <2>1, NextSymbol
  <1>4. Sum(Placed)' = a + z
    <2> HIDE DEF s
    <2>1. s = Min(Unplaced)
      BY DEF s
    <2>2. QED
      BY <1>1, <1>2, <2>1, SymbolPlaced
  <1>5. e * d = z /\ e \in Nat \ {0} /\ d \in Nat \ {0} /\ d * Direct = 65536 /\ Direct \in Nat \ {0}
        /\ bit_mask = e /\ NBits \in 1 .. 16 /\ NSyms \in Nat /\ TableSize = Direct + 2 * NSyms
    <2>1. bit_num \in 1 .. NBits
      BY <1>2, <1>3
    <2>2. e * d = Sz(bit_num) /\ e \in Nat \ {0}
      BY <2>1, CodeSizes
    <2>3. bit_mask = e
      BY <1>1, <1>2 DEF DirectPart
    <2>4. d \in Nat \ {0} /\ d * Direct = 65536 /\ Direct \in Nat \ {0} /\ NBits \in 1 .. 16
          /\ TableSize = Direct + 2 * NSyms
      BY TableSizes
    <2>5. NSyms \in Nat /\ z = Sz(bit_num)
      BY <1>3, SymbolFacts
    <2> HIDE DEF d, e, z
    <2>6. QED
      BY <2>2, <2>3, <2>4, <2>5
  <1>6. pos \in Nat /\ pos * d = a /\ table_mask = Direct /\ pos <= Direct
    BY <1>1 DEF TableTypes, DirectPart
  <1>7. pos' \in Nat /\ pos' * d = a + z /\ pos' = pos + e
    <2> HIDE DEF a, z, d, e
    <2>1. pos' = pos + e
      BY <1>2, <1>5
    <2>2. (pos + e) * d = pos * d + e * d
      BY <1>5, <1>6
    <2>3. QED
      BY <1>5, <1>6, <2>1, <2>2
  <1>8. TableTypes'
    <2>1. (length \in [Symbols -> 0 .. PeekBits] /\ bit_num \in 1 .. 17 /\ bit_mask \in 0 .. E(15)
             /\ table_mask \in {Direct, Direct * 65536})'
      BY <1>1, <1>2 DEF TableTypes
    <2>2. pc' \in {"direct", "long", "done"} /\ ret' \in {0, 1}
      BY <1>1 DEF DirectSymbol, Taken, Return, TableTypes
    <2>3. sym' \in 0 .. NSyms
      BY <1>2, <1>3
    <2>4. QED
      BY <1>7, <2>1, <2>2, <2>3 DEF TableTypes
  <1>9. LengthsOK
    BY <1>1, TableTypesFacts
  <1>10. CASE pos' > table_mask
    <2>1. ret' = 1 /\ pc' = "done"
      BY <1>10 DEF DirectSymbol, Taken, Return
    <2>2. CodeSpace # 65536
      <3>1. (Direct + 1) * d <= pos' * d
        BY <1>5, <1>6, <1>7, <1>10
      <3>2. (Direct + 1) * d = d * Direct + d
        BY <1>5
      <3> HIDE DEF a, z, d
      <3>3. a + z \in Nat /\ a + z <= CodeSpace
        BY <1>3
      <3>4. QED
        BY <1>3, <1>5, <1>7, <3>1, <3>2, <3>3
    <2>3. CodeSpace' # 65536 /\ ~Empty'
      BY <1>2, <1>3, <1>9, <2>2, CodeStays
    <2>4. Made'
      BY <2>1, <2>3 DEF Made
    <2>5. QED
      BY <1>8, <2>1, <2>4 DEF TableInv
  <1>11. CASE ~(pos' > table_mask)
    <2>1. /\ ret' = ret /\ pc' = pc
          /\ table' = [k \in DOMAIN table |-> IF k \in pos .. pos' - 1 THEN s ELSE table[k]]
      BY <1>11 DEF DirectSymbol, Taken
    <2>2. table \in Tables
      BY <1>1 DEF DirectPart
    <2>3. pos' <= Direct
      BY <1>5, <1>6, <1>7, <1>11
    <2> HIDE DEF s, e, d, z, a
    <2>4. /\ table' \in Tables
          /\ \A k \in 0 .. Direct - 1 : table'[k] = IF k \in pos .. pos' - 1 THEN s ELSE table[k]
      <3>1. s \in 0 .. TableSize /\ \A k \in 0 .. Direct - 1 : k \in 0 .. TableSize - 1
        BY <1>3, <1>5
      <3>2. table \in [0 .. TableSize - 1 -> {Old} \union 0 .. TableSize]
        BY <2>2 DEF Tables
      <3>3. table' \in [0 .. TableSize - 1 -> {Old} \union 0 .. TableSize]
        BY <2>1, <3>1, <3>2
      <3>4. QED
        BY <2>1, <3>1, <3>2, <3>3 DEF Tables
    <2>5. ASSUME NEW k \in 0 .. pos' - 1
          PROVE  (table[k] \in Coded /\ Within(table[k], DirectNode(k)))'
      <3>0. k \in 0 .. Direct - 1
        BY <1>6, <1>7, <2>3, <1>5
      <3>1. Coded' = Coded
        BY <1>2, <1>9, CodeStays
      <3>2. table'[k] \in Coded /\ Within(table'[k], DirectNode(k))
        <4>1. CASE k \in pos .. pos' - 1
          <5>1. table'[k] = s
            BY <2>4, <3>0, <4>1
          <5> DEFINE x == k * d
          <5>2. x \in Nat /\ a <= x /\ x + d <= a + z
            <6>1. pos * d <= k * d
              BY <1>5, <1>6, <4>1
            <6>2. (k + 1) * d <= pos' * d
              BY <1>5, <1>7, <4>1
            <6>3. (k + 1) * d = x + d /\ x \in Nat
              BY <1>5, <3>0
            <6> HIDE DEF x
            <6>4. QED
              BY <1>3, <1>5, <1>6, <1>7, <6>1, <6>2, <6>3 DEF x
          <5>3. DirectNode(k) = [n |-> NBits, lo |-> x]
            BY DEF DirectNode, d
          <5> HIDE DEF x
          <5>4. DirectNode(k).n = NBits /\ DirectNode(k).lo = x
            BY <5>3
          <5>5. Within(s, DirectNode(k))
            BY <1>3, <5>2, <5>4 DEF Within, d, z
          <5>6. QED
            BY <1>3, <5>1, <5>5
        <4>2. CASE k \notin pos .. pos' - 1
          <5>1. k \in 0 .. pos - 1 /\ table'[k] = table[k]
            BY <1>6, <2>4, <3>0, <4>2
          <5>2. QED
            BY <1>1, <5>1 DEF DirectPart
        <4>3. QED
          BY <4>1, <4>2
      <3>3. PICK x : x = table'[k]
        OBVIOUS
      <3>4. PICK v : v = DirectNode(k)
        OBVIOUS
      <3>5. (v = DirectNode(k))'
        BY <3>4 DEF DirectNode, Sz
      <3>6. Within(x, v) /\ x \in Coded
        BY <3>2, <3>3, <3>4
      <3>7. Within(x, v)'
        BY <1>1, <1>2, <3>6, WithinStays
      <3>8. Within(table[k], DirectNode(k))'
        BY <3>3, <3>5, <3>7
      <3>9. QED
        BY <3>1, <3>3, <3>6, <3>8
    <2>6. DirectPart'
      <3>1. ret' = 0 /\ table_mask' = Direct /\ next_symbol' = FirstPair /\ bit_num' <= NBits + 1
            /\ bit_mask' = E(NBits - bit_num') /\ bit_num' # NBits + 1
        <4>1. bit_num # NBits + 1
          BY <1>2, <1>3, <1>5
        <4>2. QED
          BY <1>1, <1>2, <2>1, <4>1 DEF DirectPart
      <3>2. pos' * Sz(NBits) = Sum(Placed)'
        BY <1>4, <1>7 DEF d
      <3>3. QED
        BY <2>3, <2>4, <2>5, <3>1, <3>2 DEF DirectPart
    <2>7. QED
      BY <1>1, <1>8, <2>1, <2>6 DEF TableInv
  <1>12. QED
    BY <1>10, <1>11

LEMMA DirectLengthDoneHolds ==
    ASSUME TableInv, DirectLengthDone
    PROVE  TableInv'
  <1>1. TableTypes /\ DirectPart /\ pc = "direct" /\ LengthsOK
    BY TableTypesFacts DEF TableInv, DirectLengthDone
  <1>2. /\ length' = length /\ bit_num' = bit_num + 1 /\ sym' = 0 /\ bit_mask' = bit_mask \div 2
        /\ UNCHANGED <<table, pos, table_mask, next_symbol, pc, ret>>
        /\ bit_num <= NBits /\ Unplaced = {}
    BY DEF DirectLengthDone, NextLength
  <1>3. Sum(Placed)' = Sum(Placed)
    BY <1>1, <1>2, NothingPlaced
  <1>4. bit_num \in 1 .. 17 /\ NBits \in 1 .. 16 /\ NSyms \in Nat /\ bit_mask \in 0 .. E(15)
    BY <1>1, TableSizes, SymbolFacts DEF TableTypes
  <1>5. bit_num' \in 1 .. 17 /\ bit_num' <= NBits + 1 /\ sym' \in 0 .. NSyms
    BY <1>2, <1>4
  <1>6. bit_mask' \in 0 .. E(15)
    BY <1>2, <1>4, SmallPowers
  <1>7. bit_num' <= NBits => bit_mask' = E(NBits - bit_num')
    <2> SUFFICES ASSUME bit_num' <= NBits
                 PROVE  bit_mask' = E(NBits - bit_num')
      OBVIOUS
    <2> DEFINE n == NBits - bit_num
    <2>1. n \in 1 .. 16 /\ n - 1 = NBits - bit_num'
      BY <1>2, <1>4
    <2>2. bit_mask = E(n)
      BY <1>1, <1>2 DEF DirectPart
    <2> HIDE DEF n
    <2>3. bit_mask' = E(n - 1)
      BY <1>2, <2>1, <2>2, SmallPowers
    <2>4. QED
      BY <2>1, <2>3
  <1>8. TableTypes'
    BY <1>1, <1>2, <1>5, <1>6 DEF TableTypes
  <1>9. \A k \in 0 .. pos' - 1 : (table[k] \in Coded /\ Within(table[k], DirectNode(k)))'
    <2> SUFFICES ASSUME NEW k \in 0 .. pos - 1
                 PROVE  (table[k] \in Coded /\ Within(table[k], DirectNode(k)))'
      BY <1>2
    <2>1. table[k] \in Coded /\ Within(table[k], DirectNode(k))
      BY <1>1 DEF DirectPart
    <2>2. PICK x : x = table[k]
      OBVIOUS
    <2>3. PICK v : v = DirectNode(k)
      OBVIOUS
    <2>4. Within(x, v)'
      BY <1>1, <1>2, <2>1, <2>2, <2>3, WithinStays
    <2>5. (v = DirectNode(k))'
      BY <2>3 DEF DirectNode, Sz
    <2>6. Coded' = Coded
      BY <1>1, <1>2, CodeStays
    <2>7. table'[k] = x
      BY <1>2, <2>2
    <2>8. QED
      BY <2>1, <2>2, <2>4, <2>5, <2>6, <2>7
  <1>10. DirectPart'
    <2>1. ret' = 0 /\ table_mask' = Direct /\ next_symbol' = FirstPair /\ pos' <= Direct
          /\ (table \in Tables)'
      BY <1>1, <1>2 DEF DirectPart, Tables
    <2>2. pos' * Sz(NBits) = Sum(Placed)'
      BY <1>1, <1>2, <1>3 DEF DirectPart
    <2>3. QED
      BY <1>2, <1>5, <1>7, <1>9, <2>1, <2>2 DEF DirectPart
  <1>11. QED
    BY <1>1, <1>2, <1>8, <1>10 DEF TableInv

\* What stands behind the verdict.
LEMMA TypesOfLast ==
    ASSUME TableTypes, UNCHANGED <<length, pos, table_mask, bit_num, bit_mask, sym>>,
           pc' = "done", ret' \in {0, 1}
    PROVE  TableTypes'
  BY DEF TableTypes

LEMMA FinishedStays ==
    ASSUME LengthsOK, length' = length, table' = table, next_symbol' = next_symbol
    PROVE  (\E N : Finished(N)) => (\E N : Finished(N))'
  <1> SUFFICES ASSUME NEW N, Finished(N)
               PROVE  Finished(N)'
    OBVIOUS
  <1>1. PICK tab : tab = table
    OBVIOUS
  <1>2. PICK pair : pair = next_symbol
    OBVIOUS
  <1>3. Grown(N, tab, pair, 65536, 0)
    BY <1>1, <1>2 DEF Finished
  <1>4. Grown(N, tab, pair, 65536, 0)'
    BY <1>3, GrownStays
  <1>5. tab = table' /\ pair = next_symbol'
    BY <1>1, <1>2
  <1>6. QED
    BY <1>4, <1>5 DEF Finished

LEMMA SumShortStays ==
    ASSUME TableTypes, length' = length
    PROVE  \A k \in 1 .. 16 : Sum(ShortCodes(k))' = Sum(ShortCodes(k))
  <1> SUFFICES ASSUME NEW k \in 1 .. 16
               PROVE  Sum(ShortCodes(k))' = Sum(ShortCodes(k))
    OBVIOUS
  <1>1. LengthsOK
    BY TableTypesFacts
  <1>2. PICK S : S = ShortCodes(k)
    OBVIOUS
  <1>3. Coded' = Coded /\ Coded \in SUBSET Symbols
    BY <1>1, CodeStays, CodedFacts
  <1>4. (S = ShortCodes(k))'
    BY <1>2, <1>3 DEF ShortCodes
  <1>5. S \in SUBSET Symbols
    BY <1>2, <1>3 DEF ShortCodes
  <1>6. Sum(S)' = Sum(S)
    BY <1>1, <1>5, SumsStay
  <1>7. QED
    BY <1>2, <1>4, <1>6

LEMMA DirectFullHolds ==
    ASSUME TableInv, DirectFull
    PROVE  TableInv'
  <1> DEFINE d == Sz(NBits)
  <1>1. TableTypes /\ DirectPart /\ pc = "direct" /\ LengthsOK
    BY TableTypesFacts DEF TableInv, DirectFull
  <1>2. /\ pos = table_mask /\ bit_num > NBits /\ ret' = 0 /\ pc' = "done"
        /\ UNCHANGED <<length, table, pos, table_mask, bit_num, bit_mask, sym, next_symbol>>
    BY DEF DirectFull, Return
  <1>3. TableTypes'
    BY <1>1, <1>2, TypesOfLast
  <1>4. bit_num = NBits + 1 /\ sym = 0 /\ pos = Direct /\ table_mask = Direct
        /\ next_symbol = FirstPair /\ table \in Tables /\ pos * d = Sum(Placed)
    <2>1. bit_num \in Nat /\ NBits \in Nat
      BY <1>1, TableSizes DEF TableTypes
    <2>2. bit_num = NBits + 1
      BY <1>1, <1>2, <2>1 DEF DirectPart
    <2>3. QED
      BY <1>1, <1>2, <2>2 DEF DirectPart
  <1>5. d * Direct = 65536 /\ d \in Nat /\ Direct \in Nat /\ NBits \in 1 .. 16
    BY TableSizes
  <1>6. Direct * d = 65536
    <2> HIDE DEF d
    <2>1. QED
      BY <1>5
  <1>7. Sum(ShortCodes(NBits)) = 65536
    BY <1>1, <1>4, <1>6, PlacedSum
  <1>8. \E N : Finished(N)
    <2> DEFINE tab == table
               p == Direct
    <2>1. \A k \in 0 .. p - 1 : tab[k] \in Coded /\ Within(tab[k], DirectNode(k))
      BY <1>1, <1>4 DEF DirectPart
    <2>2. tab \in Tables /\ p \in 0 .. Direct
      BY <1>4, <1>5
    <2>3. \A k \in p .. Direct - 1 : tab[k] = 0
      BY <1>5
    <2> HIDE DEF tab, p, d
    <2>4. \E N : Grown(N, tab, FirstPair, p * Sz(NBits), 0)
      BY <1>1, <2>1, <2>2, <2>3, DirectGrown
    <2>5. p * Sz(NBits) = 65536
      BY <1>6 DEF p, d
    <2>6. QED
      BY <1>4, <2>4, <2>5 DEF Finished, tab
  <1>9. (\E N : Finished(N))'
    BY <1>1, <1>2, <1>8, FinishedStays
  <1>10. (\E k \in 1 .. 16 : Sum(ShortCodes(k)) = 65536)'
    <2>1. Sum(ShortCodes(NBits))' = 65536
      BY <1>1, <1>2, <1>5, <1>7, SumShortStays
    <2>2. QED
      BY <1>5, <2>1
  <1>11. pos' <= table_mask'
    BY <1>2, <1>4, <1>5
  <1>12. Made'
    BY <1>2, <1>9, <1>10, <1>11 DEF Made
  <1>13. QED
    BY <1>2, <1>3, <1>12 DEF TableInv

LEMMA EnterLongHolds ==
    ASSUME TableInv, EnterLong
    PROVE  TableInv'
  <1> DEFINE d == Sz(NBits)
             a == Sum(Placed)
             p == pos
  <1>1. TableTypes /\ DirectPart /\ pc = "direct" /\ LengthsOK
    BY TableTypesFacts DEF TableInv, EnterLong
  <1>2. /\ length' = length /\ bit_num' = bit_num /\ next_symbol' = next_symbol /\ ret' = ret
        /\ table' = [k \in DOMAIN table |-> IF k \in pos .. table_mask - 1 THEN 0 ELSE table[k]]
        /\ pos' = p * 2 ^ 16 /\ table_mask' = table_mask * 2 ^ 16 /\ bit_mask' = 2 ^ 15
        /\ sym' = 0 /\ pc' = "long" /\ bit_num > NBits
    BY DEF EnterLong
  <1>3. bit_num = NBits + 1 /\ sym = 0 /\ table_mask = Direct /\ ret = 0
        /\ next_symbol = FirstPair /\ table \in Tables /\ p * d = a /\ p <= Direct /\ p \in Nat
        /\ a \in Nat
    <2>1. bit_num \in Nat /\ NBits \in Nat /\ pos \in Nat
      BY <1>1, TableSizes DEF TableTypes
    <2>2. bit_num = NBits + 1
      BY <1>1, <1>2, <2>1 DEF DirectPart
    <2>3. QED
      BY <1>1, <1>2, <2>1, <2>2, PlacedSum DEF DirectPart
  <1>4. d * Direct = 65536 /\ d \in Nat /\ Direct \in Nat \ {0} /\ NBits \in 1 .. 16 /\ 2 ^ 16 = 65536
        /\ TableSize = Direct + 2 * NSyms /\ NSyms \in Nat
    BY TableSizes, SymbolFacts
  <1>5. pos' = p * 65536 /\ table_mask' = Direct * 65536
    BY <1>2, <1>3, <1>4
  <1>6. Sum(Placed)' = a
    BY <1>1, <1>2, <1>3, NothingPlaced
  <1>7. p * 65536 = a * Direct /\ p * 65536 <= Direct * 65536 /\ p * 65536 \in Nat
    <2> HIDE DEF p, d, a
    <2>1. p * (d * Direct) = (p * d) * Direct
      BY <1>3, <1>4
    <2>2. QED
      BY <1>3, <1>4, <2>1
  <1>8. bit_mask' = E(16 + NBits - bit_num') /\ bit_mask' \in 0 .. E(15)
    <2>1. E(15) \in 0 .. E(15)
      BY SmallPowers
    <2>2. bit_mask' = E(15)
      BY <1>2 DEF E
    <2>3. 16 + NBits - bit_num' = 15
      BY <1>2, <1>3, <1>4
    <2>4. QED
      BY <2>1, <2>2, <2>3
  <1>9. TableTypes'
    <2>1. pos' \in Nat /\ table_mask' \in {Direct, Direct * 65536}
      BY <1>5, <1>7
    <2>2. 0 \in 0 .. NSyms
      BY <1>4
    <2>3. QED
      BY <1>1, <1>2, <1>8, <2>1, <2>2 DEF TableTypes
  <1>10. PICK tab : tab = table'
    OBVIOUS
  <1>11. \E N : Grown(N, tab, FirstPair, a, 0)
    <2>0. table \in [0 .. TableSize - 1 -> {Old} \union 0 .. TableSize]
      BY <1>3 DEF Tables
    <2>1. tab = [k \in 0 .. TableSize - 1 |-> IF k \in p .. Direct - 1 THEN 0 ELSE table[k]]
      BY <1>2, <1>3, <1>10, <2>0
    <2>2. 0 \in 0 .. TableSize /\ \A k \in 0 .. Direct - 1 : k \in 0 .. TableSize - 1
      BY <1>4
    <2>3. tab \in Tables
      BY <2>0, <2>1, <2>2 DEF Tables
    <2>4. \A k \in 0 .. p - 1 : tab[k] \in Coded /\ Within(tab[k], DirectNode(k))
      <3> SUFFICES ASSUME NEW k \in 0 .. p - 1
                   PROVE  tab[k] \in Coded /\ Within(tab[k], DirectNode(k))
        OBVIOUS
      <3>1. k \in 0 .. TableSize - 1 /\ k \notin p .. Direct - 1
        BY <1>3, <1>4
      <3>2. tab[k] = table[k]
        BY <2>1, <3>1
      <3>3. QED
        BY <1>1, <3>2 DEF DirectPart
    <2>5. \A k \in p .. Direct - 1 : tab[k] = 0
      <3> HIDE DEF p
      <3> SUFFICES ASSUME NEW k \in p .. Direct - 1
                   PROVE  tab[k] = 0
        OBVIOUS
      <3>1. k \in 0 .. TableSize - 1
        BY <1>3, <1>4
      <3>2. QED
        BY <2>1, <3>1
    <2>6. p \in 0 .. Direct
      BY <1>3, <1>4
    <2> HIDE DEF p
    <2>7. \E N : Grown(N, tab, FirstPair, p * Sz(NBits), 0)
      BY <1>1, <2>3, <2>4, <2>5, <2>6, DirectGrown
    <2>8. QED
      BY <1>3, <2>7 DEF d
  <1>12. (\E N : Grown(N, table, next_symbol, Sum(Placed), 0))'
    <2>1. PICK N : Grown(N, tab, FirstPair, a, 0)
      BY <1>11
    <2>2. PICK pair : pair = FirstPair
      OBVIOUS
    <2>3. PICK c : c = a
      OBVIOUS
    <2>4. Grown(N, tab, pair, c, 0)
      BY <2>1, <2>2, <2>3
    <2>5. Grown(N, tab, pair, c, 0)'
      BY <1>1, <1>2, <2>4, GrownStays
    <2>6. pair = next_symbol' /\ c = Sum(Placed)' /\ tab = table'
      BY <1>2, <1>3, <1>6, <1>10, <2>2, <2>3
    <2>7. QED
      BY <2>5, <2>6
  <1>13. LongPart'
    <2>1. bit_num' >= NBits + 1
      BY <1>2, <1>3, <1>4
    <2>2. pos' = Sum(Placed)' * Direct /\ pos' <= table_mask'
      BY <1>5, <1>6, <1>7
    <2>3. QED
      BY <1>2, <1>3, <1>5, <1>8, <1>12, <2>1, <2>2 DEF LongPart
  <1>14. QED
    BY <1>2, <1>9, <1>13 DEF TableInv

\* The tree with one more long code.
LEMMA LongCodePlaced ==
    ASSUME TableTypes, LongPart, CodeSpace = 65536, bit_num <= 16, Unplaced # {},
           NEW s, s = Min(Unplaced)
    PROVE  \E N : Grown(N, [Path.table EXCEPT ![Path.leaf] = s], Path.pair,
                        Sum(Placed) + Space(s), 0)
  <1>1. LengthsOK /\ s \in Coded /\ length[s] = bit_num /\ FirstCode(s) = Sum(Placed)
        /\ length[s] <= PeekBits
    BY TableTypesFacts, NextSymbol
  <1>2. bit_num \in NBits + 1 .. 16 /\ bit_num <= PeekBits /\ length[s] >= NBits
    <2>1. bit_num \in Nat /\ NBits \in Nat /\ PeekBits \in Nat
      BY TableSizes DEF TableTypes
    <2>2. bit_num >= NBits + 1
      BY DEF LongPart
    <2>3. QED
      BY <1>1, <2>1, <2>2
  <1>3. LongCode(s)
    BY <1>1, <1>2 DEF LongCode, LongPart
  <1>4. \E N : OnPath(N, Path, FirstCode(s), bit_num)
    BY <1>1, <1>3, PathEnds
  <1>5. PICK N : OnPath(N, Path, FirstCode(s), bit_num)
    BY <1>4
  <1> DEFINE tab == Path.table
             pair == Path.pair
             l == Path.leaf
  <1>6. /\ Grown(N, tab, pair, FirstCode(s), length[s])
        /\ l \in 0 .. 2 * pair - 1
        /\ N[l].n = length[s] /\ N[l].lo <= FirstCode(s) /\ FirstCode(s) < N[l].lo + Sz(length[s])
    BY <1>1, <1>5 DEF OnPath
  <1> HIDE DEF tab, pair, l
  <1>7. Grown(N, [tab EXCEPT ![l] = s], pair, FirstCode(s) + Space(s), 0)
    BY <1>1, <1>2, <1>6, CodePlaced
  <1>8. QED
    BY <1>1, <1>7 DEF tab, pair, l

LEMMA LongSymbolHolds ==
    ASSUME TableInv, LongSymbol
    PROVE  TableInv'
  <1> DEFINE s == Min(Unplaced)
             z == Space(s)
             a == Sum(Placed)
             T == [Path.table EXCEPT ![Path.leaf] = s]
  <1>1. TableTypes /\ LongPart /\ pc = "long" /\ LengthsOK
    BY TableTypesFacts DEF TableInv, LongSymbol
  <1>2. /\ length' = length /\ bit_num' = bit_num /\ sym' = s + 1 /\ pos' = pos + bit_mask
        /\ table_mask' = table_mask /\ bit_mask' = bit_mask
        /\ bit_num <= 16 /\ Unplaced # {}
        /\ table' = T /\ next_symbol' = Path.pair
    BY DEF LongSymbol, Taken, MaxCodeBits
  <1>3. /\ s \in Coded /\ length[s] = bit_num /\ s + 1 \in 0 .. NSyms /\ s \in 0 .. NSyms - 1
        /\ FirstCode(s) = a /\ z = Sz(bit_num) /\ a + z <= CodeSpace
        /\ a \in Nat /\ z \in Nat \ {0} /\ CodeSpace \in Nat
        /\ bit_num \in 1 .. 16 /\ ~Empty
    <2> HIDE DEF s
    <2>1. s = Min(Unplaced)
      BY DEF s
    <2>2. QED
      BY <1>1, <1>2, <2>1, NextSymbol
  <1>4. Sum(Placed)' = a + z
    <2> HIDE DEF s
    <2>1. s = Min(Unplaced)
      BY DEF s
    <2>2. QED
      BY <1>1, <1>2, <2>1, SymbolPlaced
  <1>5. bit_mask = z * Direct /\ Direct \in Nat \ {0}
    <2>1. bit_num \in NBits .. 16
      <3>1. bit_num >= NBits + 1 /\ NBits \in Nat
        BY <1>1, TableSizes DEF LongPart
      <3>2. QED
        BY <1>2, <1>3, <3>1
    <2>2. E(16 + NBits - bit_num) = Sz(bit_num) * Direct
      BY <2>1, CodeSizes
    <2>3. bit_mask = E(16 + NBits - bit_num)
      BY <1>1 DEF LongPart
    <2>4. Direct \in Nat \ {0}
      BY TableSizes
    <2> HIDE DEF z
    <2>5. QED
      BY <1>3, <2>2, <2>3, <2>4
  <1>6. pos = a * Direct /\ table_mask = Direct * 65536
    BY <1>1 DEF LongPart
  <1>7. pos' = (a + z) * Direct /\ pos' \in Nat /\ table_mask = Direct * 65536
    <2> HIDE DEF a, z
    <2>1. (a + z) * Direct = a * Direct + z * Direct /\ (a + z) * Direct \in Nat
      BY <1>3, <1>5
    <2>2. QED
      BY <1>2, <1>5, <1>6, <2>1
  <1>8. TableTypes'
    <2>1. (length \in [Symbols -> 0 .. PeekBits] /\ bit_num \in 1 .. 17 /\ bit_mask \in 0 .. E(15)
             /\ table_mask \in {Direct, Direct * 65536})'
      BY <1>1, <1>2 DEF TableTypes
    <2>2. pc' \in {"direct", "long", "done"} /\ ret' \in {0, 1}
      BY <1>1 DEF LongSymbol, Taken, Return, TableTypes
    <2>3. sym' \in 0 .. NSyms
      BY <1>2, <1>3
    <2>4. QED
      BY <1>7, <2>1, <2>2, <2>3 DEF TableTypes
  <1>9. CASE pos' > table_mask
    <2>1. ret' = 1 /\ pc' = "done"
      BY <1>9 DEF LongSymbol, Taken, Return
    <2>2. CodeSpace # 65536
      <3> HIDE DEF a, z
      <3>1. a + z \in Nat /\ a + z <= CodeSpace
        BY <1>3
      <3>2. a + z <= 65536 => (a + z) * Direct <= 65536 * Direct
        BY <1>5, <3>1
      <3>3. 65536 * Direct = Direct * 65536
        BY <1>5
      <3>4. ~(a + z <= 65536)
        BY <1>5, <1>7, <1>9, <3>1, <3>2, <3>3
      <3>5. QED
        BY <1>3, <3>1, <3>4
    <2>3. CodeSpace' # 65536 /\ ~Empty'
      BY <1>1, <1>2, <1>3, <2>2, CodeStays
    <2>4. Made'
      BY <2>1, <2>3 DEF Made
    <2>5. QED
      BY <1>8, <2>1, <2>4 DEF TableInv
  <1>10. CASE ~(pos' > table_mask)
    <2>1. ret' = ret /\ pc' = pc
      BY <1>10 DEF LongSymbol, Taken
    <2>2. pos' <= table_mask'
      BY <1>2, <1>5, <1>7, <1>10
    <2>3. PICK tab : tab = T
      OBVIOUS
    <2>4. PICK pair : pair = Path.pair
      OBVIOUS
    <2>5. PICK c : c = a + z
      OBVIOUS
    <2>6. CodeSpace = 65536 => \E N : Grown(N, tab, pair, c, 0)
      <3> HIDE DEF s
      <3>1. s = Min(Unplaced)
        BY DEF s
      <3>2. QED
        BY <1>1, <1>2, <2>3, <2>4, <2>5, <3>1, LongCodePlaced
    <2>7. CodeSpace' = CodeSpace
      BY <1>1, <1>2, CodeStays
    <2>8. CodeSpace' = 65536 => \E N : Grown(N, tab, pair, c, 0)'
      BY <1>1, <1>2, <2>6, <2>7, GrownStays
    <2>9. tab = table' /\ pair = next_symbol' /\ c = Sum(Placed)'
      BY <1>2, <1>4, <2>3, <2>4, <2>5
    <2>10. (CodeSpace = 65536 => \E N : Grown(N, table, next_symbol, Sum(Placed), 0))'
      BY <2>8, <2>9
    <2>11. (ret = 0 /\ table_mask = Direct * 65536 /\ bit_num >= NBits + 1
            /\ bit_mask = E(16 + NBits - bit_num))'
      BY <1>1, <1>2, <2>1 DEF LongPart
    <2>12. pos' = Sum(Placed)' * Direct
      BY <1>4, <1>7
    <2>13. LongPart'
      BY <2>2, <2>10, <2>11, <2>12 DEF LongPart
    <2>14. QED
      BY <1>1, <1>8, <2>1, <2>13 DEF TableInv
  <1>11. QED
    BY <1>9, <1>10

\* The long part of the table is left as it is.
LEMMA LongGrownStays ==
    ASSUME LengthsOK, length' = length, table' = table, next_symbol' = next_symbol,
           Sum(Placed)' = Sum(Placed),
           CodeSpace = 65536 => \E N : Grown(N, table, next_symbol, Sum(Placed), 0)
    PROVE  (CodeSpace = 65536 => \E N : Grown(N, table, next_symbol, Sum(Placed), 0))'
  <1>1. PICK tab : tab = table
    OBVIOUS
  <1>2. PICK pair : pair = next_symbol
    OBVIOUS
  <1>3. PICK c : c = Sum(Placed)
    OBVIOUS
  <1>4. CodeSpace = 65536 => \E N : Grown(N, tab, pair, c, 0)
    BY <1>1, <1>2, <1>3
  <1>5. CodeSpace' = CodeSpace
    BY CodeStays
  <1>6. CodeSpace' = 65536 => \E N : Grown(N, tab, pair, c, 0)'
    BY <1>4, <1>5, GrownStays
  <1>7. tab = table' /\ pair = next_symbol' /\ c = Sum(Placed)'
    BY <1>1, <1>2, <1>3
  <1>8. QED
    BY <1>6, <1>7

LEMMA LongLengthDoneHolds ==
    ASSUME TableInv, LongLengthDone
    PROVE  TableInv'
  <1>1. TableTypes /\ LongPart /\ pc = "long" /\ LengthsOK
    BY TableTypesFacts DEF TableInv, LongLengthDone
  <1>2. /\ length' = length /\ bit_num' = bit_num + 1 /\ sym' = 0 /\ bit_mask' = bit_mask \div 2
        /\ UNCHANGED <<table, pos, table_mask, next_symbol, pc, ret>>
        /\ bit_num <= 16 /\ Unplaced = {}
    BY DEF LongLengthDone, NextLength, MaxCodeBits
  <1>3. Sum(Placed)' = Sum(Placed)
    BY <1>1, <1>2, NothingPlaced
  <1>4. bit_num \in 1 .. 17 /\ NBits \in 1 .. 16 /\ NSyms \in Nat /\ bit_mask \in 0 .. E(15)
        /\ bit_num >= NBits + 1
    BY <1>1, TableSizes, SymbolFacts DEF TableTypes, LongPart
  <1>5. bit_num' \in 1 .. 17 /\ bit_num' >= NBits + 1 /\ sym' \in 0 .. NSyms
    BY <1>2, <1>4
  <1>6. bit_mask' \in 0 .. E(15)
    BY <1>2, <1>4, SmallPowers
  <1>7. bit_mask' = E(16 + NBits - bit_num')
    <2> DEFINE n == 16 + NBits - bit_num
    <2>1. n \in 1 .. 16 /\ n - 1 = 16 + NBits - bit_num'
      BY <1>2, <1>4
    <2>2. bit_mask = E(n)
      BY <1>1 DEF LongPart
    <2> HIDE DEF n
    <2>3. bit_mask' = E(n - 1)
      BY <1>2, <2>1, <2>2, SmallPowers
    <2>4. QED
      BY <2>1, <2>3
  <1>8. TableTypes'
    BY <1>1, <1>2, <1>5, <1>6 DEF TableTypes
  <1>9. (CodeSpace = 65536 => \E N : Grown(N, table, next_symbol, Sum(Placed), 0))'
    BY <1>1, <1>2, <1>3, LongGrownStays DEF LongPart
  <1>10. LongPart'
    <2>1. ret' = 0 /\ table_mask' = Direct * 65536 /\ pos' = Sum(Placed)' * Direct
          /\ pos' <= table_mask'
      BY <1>1, <1>2, <1>3 DEF LongPart
    <2>2. QED
      BY <1>5, <1>7, <1>9, <2>1 DEF LongPart
  <1>11. QED
    BY <1>1, <1>2, <1>8, <1>10 DEF TableInv

LEMMA LongDoneHolds ==
    ASSUME TableInv, LongDone
    PROVE  TableInv'
  <1> DEFINE c == CodeSpace
  <1>1. TableTypes /\ LongPart /\ pc = "long" /\ LengthsOK
    BY TableTypesFacts DEF TableInv, LongDone
  <1>2. /\ bit_num > 16 /\ ret' = Verdict /\ pc' = "done"
        /\ UNCHANGED <<length, table, pos, table_mask, bit_num, bit_mask, sym, next_symbol>>
    BY DEF LongDone, Return, MaxCodeBits
  <1>3. bit_num = 17
    BY <1>1, <1>2 DEF TableTypes
  <1>4. ret' \in {0, 1} /\ (ret' = 0 <=> (pos = table_mask \/ Empty))
    BY <1>2 DEF Verdict
  <1>5. TableTypes'
    BY <1>1, <1>2, <1>4, TypesOfLast
  <1>6. Sum(Placed) = c /\ c \in Nat /\ Sum(ShortCodes(16)) = c
    <2>1. Placed = Coded /\ ShortCodes(16) = Coded /\ CodeSpace \in Nat
      BY <1>1, <1>3, PlacedSum
    <2>2. Sum(Coded) = CodeSpace
      BY <1>1, CodedFacts
    <2>3. QED
      BY <2>1, <2>2
  <1>7. pos = c * Direct /\ table_mask = Direct * 65536 /\ pos <= table_mask /\ Direct \in Nat \ {0}
    BY <1>1, <1>6, TableSizes DEF LongPart
  <1>8. pos = table_mask <=> c = 65536
    <2> HIDE DEF c
    <2>1. c < 65536 => (c + 1) * Direct <= 65536 * Direct
      BY <1>6, <1>7
    <2>2. c > 65536 => (65536 + 1) * Direct <= c * Direct
      BY <1>6, <1>7
    <2>3. (c + 1) * Direct = c * Direct + Direct /\ 65536 * Direct = Direct * 65536
          /\ (65536 + 1) * Direct = 65536 * Direct + Direct /\ c * Direct \in Nat
      BY <1>6, <1>7
    <2>4. CASE c = 65536
      BY <1>7, <2>3, <2>4
    <2>5. CASE c < 65536
      BY <1>7, <2>1, <2>3, <2>5
    <2>6. CASE c > 65536
      BY <1>7, <2>2, <2>3, <2>6
    <2>7. QED
      BY <1>6, <2>4, <2>5, <2>6
  <1>9. CodeSpace' = c /\ (Empty' <=> Empty)
    BY <1>1, <1>2, CodeStays
  <1>10. ASSUME ret' = 1 PROVE CodeSpace' # 65536 /\ ~Empty'
    BY <1>4, <1>8, <1>9, <1>10
  <1>11. ASSUME ret' = 0, ~Empty' PROVE c = 65536
    BY <1>4, <1>8, <1>9, <1>11
  <1>12. ASSUME c = 65536 PROVE (\E k \in 1 .. 16 : Sum(ShortCodes(k)) = 65536)'
    <2>1. Sum(ShortCodes(16))' = 65536
      BY <1>1, <1>2, <1>6, <1>12, SumShortStays
    <2>2. QED
      BY <2>1
  <1>13. ASSUME c = 65536 PROVE (\E N : Finished(N))'
    <2>1. \E N : Finished(N)
      BY <1>1, <1>6, <1>13 DEF LongPart, Finished
    <2>2. QED
      BY <1>1, <1>2, <2>1, FinishedStays
  <1>14. pos' <= table_mask'
    BY <1>2, <1>7
  <1>15. Made'
    BY <1>10, <1>11, <1>12, <1>13, <1>14 DEF Made
  <1>16. QED
    BY <1>2, <1>5, <1>15 DEF TableInv

LEMMA TableRests ==
    ASSUME TableInv, UNCHANGED tableVars
    PROVE  TableInv'
  <1>1. /\ length' = length
        /\ UNCHANGED <<table, pos, table_mask, bit_num, bit_mask, sym, next_symbol, pc, ret>>
    BY DEF tableVars
  <1>2. TableTypes /\ LengthsOK
    BY TableTypesFacts DEF TableInv
  <1>3. TableTypes'
    BY <1>1, <1>2 DEF TableTypes
  <1>4. Sum(Placed)' = Sum(Placed)
    BY <1>1, <1>2, NothingPlaced
  <1>5. ASSUME DirectPart PROVE DirectPart'
    <2>1. \A k \in 0 .. pos' - 1 : (table[k] \in Coded /\ Within(table[k], DirectNode(k)))'
      <3> SUFFICES ASSUME NEW k \in 0 .. pos - 1
                   PROVE  (table[k] \in Coded /\ Within(table[k], DirectNode(k)))'
        BY <1>1
      <3>1. table[k] \in Coded /\ Within(table[k], DirectNode(k))
        BY <1>5 DEF DirectPart
      <3>2. PICK x : x = table[k]
        OBVIOUS
      <3>3. PICK v : v = DirectNode(k)
        OBVIOUS
      <3>4. Within(x, v)'
        BY <1>1, <1>2, <3>1, <3>2, <3>3, WithinStays
      <3>5. (v = DirectNode(k))'
        BY <3>3 DEF DirectNode, Sz
      <3>6. Coded' = Coded
        BY <1>1, <1>2, CodeStays
      <3>7. table'[k] = x
        BY <1>1, <3>2
      <3>8. QED
        BY <3>1, <3>2, <3>4, <3>5, <3>6, <3>7
    <2>2. (/\ ret = 0 /\ table_mask = Direct /\ next_symbol = FirstPair /\ bit_num <= NBits + 1
           /\ (bit_num <= NBits => bit_mask = E(NBits - bit_num)) /\ (bit_num = NBits + 1 => sym = 0)
           /\ pos <= Direct /\ table \in Tables)'
      BY <1>1, <1>5 DEF DirectPart, Tables
    <2>3. pos' * Sz(NBits) = Sum(Placed)'
      BY <1>1, <1>4, <1>5 DEF DirectPart
    <2>4. QED
      BY <2>1, <2>2, <2>3 DEF DirectPart
  <1>6. ASSUME LongPart PROVE LongPart'
    <2>1. (CodeSpace = 65536 => \E N : Grown(N, table, next_symbol, Sum(Placed), 0))'
      BY <1>1, <1>2, <1>4, <1>6, LongGrownStays DEF LongPart
    <2>2. (/\ ret = 0 /\ table_mask = Direct * 65536 /\ bit_num >= NBits + 1
           /\ bit_mask = E(16 + NBits - bit_num) /\ pos <= table_mask)'
      BY <1>1, <1>6 DEF LongPart
    <2>3. pos' = Sum(Placed)' * Direct
      BY <1>1, <1>4, <1>6 DEF LongPart
    <2>4. QED
      BY <2>1, <2>2, <2>3 DEF LongPart
  <1>7. ASSUME Made PROVE Made'
    <2>1. CodeSpace' = CodeSpace /\ (Empty' <=> Empty)
      BY <1>1, <1>2, CodeStays
    <2>2. (\E N : Finished(N)) => (\E N : Finished(N))'
      BY <1>1, <1>2, FinishedStays
    <2>3. (\E k \in 1 .. 16 : Sum(ShortCodes(k)) = 65536) => (\E k \in 1 .. 16 : Sum(ShortCodes(k)) = 65536)'
      BY <1>1, <1>2, SumShortStays
    <2>4. ret' = ret /\ pos' = pos /\ table_mask' = table_mask
      BY <1>1
    <2>5. QED
      BY <1>7, <2>1, <2>2, <2>3, <2>4 DEF Made
  <1>8. pc' = pc
    BY <1>1
  <1>9. QED
    BY <1>3, <1>5, <1>6, <1>7, <1>8 DEF TableInv

LEMMA TableStep ==
    ASSUME TableInv, TableNext \/ UNCHANGED tableVars
    PROVE  TableInv'
  BY DirectSymbolHolds, DirectLengthDoneHolds, DirectFullHolds, EnterLongHolds, LongSymbolHolds,
     LongLengthDoneHolds, LongDoneHolds, TableRests DEF TableNext

-----------------------------------------------------------------------------

LEMMA TableRefuses ==
    ASSUME TableInv
    PROVE  RefusesBadCodes
  <1> SUFFICES ASSUME pc = "done"
               PROVE  /\ Complete \/ Empty => ret = 0
                      /\ CodeSpace < 65536 /\ ~Empty => ret = 1
                      /\ ret = 0 /\ ~Empty => \E k \in 1 .. MaxCodeBits : Sum(ShortCodes(k)) = 65536
    <2>1. 2 ^ MaxCodeBits = 65536
      BY DEF MaxCodeBits
    <2>2. QED
      BY <2>1 DEF RefusesBadCodes, Sum, ShortCodes
  <1>1. TableTypes /\ Made /\ LengthsOK
    BY TableTypesFacts DEF TableInv
  <1>2. ret \in {0, 1}
    BY <1>1 DEF TableTypes
  <1>3. Complete <=> CodeSpace = 65536
    <2>1. 2 ^ MaxCodeBits = 65536
      BY DEF MaxCodeBits
    <2>2. QED
      BY <2>1 DEF Complete
  <1>4. \A k \in 1 .. 16 : Sum(ShortCodes(k)) <= CodeSpace /\ Sum(ShortCodes(k)) \in Nat
    <2>1. Coded \in SUBSET Symbols /\ CodeSpace = Sum(Coded)
      BY <1>1, CodedFacts
    <2>2. \A k \in 1 .. 16 : ShortCodes(k) \in SUBSET Coded /\ ShortCodes(k) \in SUBSET Symbols
      BY <2>1 DEF ShortCodes
    <2>3. QED
      BY <1>1, <2>1, <2>2, SumFacts
  <1>5. CodeSpace \in Nat
    BY <1>1, CodedFacts
  <1>6. ret = 0 /\ ~Empty => \E k \in 1 .. 16 : Sum(ShortCodes(k)) = 65536
    BY <1>1 DEF Made
  <1>7. ret = 1 => CodeSpace # 65536 /\ ~Empty
    BY <1>1 DEF Made
  <1>8. CodeSpace < 65536 /\ ~Empty => ret = 1
    BY <1>2, <1>4, <1>5, <1>6
  <1>9. QED
    BY <1>2, <1>3, <1>6, <1>7, <1>8 DEF MaxCodeBits

LEMMA PeeksAreNext16 == Peeks \in SUBSET Next16
  <1> DEFINE d == Sz(PeekBits)
             m == E(PeekBits)
  <1>1. PeekBits \in 0 .. 16 /\ 16 - PeekBits \in 0 .. 32 /\ PeekBits \in 0 .. 32 - (16 - PeekBits)
        /\ (16 - PeekBits) + PeekBits = 16
    BY TableSizes
  <1>2. E(16 - PeekBits) * E(PeekBits) = E(16)
    BY <1>1, PowersMultiply
  <1>3. d = E(16 - PeekBits)
    BY DEF Sz, E, MaxCodeBits
  <1>4. d * m = 65536 /\ d \in Nat \ {0} /\ m \in Nat \ {0}
    BY <1>1, <1>2, <1>3, Powers, Sizes16
  <1>5. Peeks = {k * d : k \in 0 .. m - 1}
    BY DEF Peeks, Sz, E
  <1> HIDE DEF d, m
  <1>6. ASSUME NEW k \in 0 .. m - 1 PROVE k * d \in Nat /\ k * d < 65536
    <2>1. (k + 1) * d <= m * d
      BY <1>4
    <2>2. (k + 1) * d = k * d + d /\ m * d = d * m /\ k * d \in Nat
      BY <1>4
    <2>3. QED
      BY <1>4, <2>1, <2>2
  <1>7. ASSUME NEW x \in Nat, x < 65536 PROVE x \in Next16
    BY <1>7, Next16Facts
  <1>8. QED
    BY <1>5, <1>6, <1>7

LEMMA TableDecodes ==
    ASSUME TableInv
    PROVE  DecodesCanonically
  <1> SUFFICES ASSUME pc = "done", ret = 0, ~Empty, NEW bits \in Peeks
               PROVE  /\ Lookup(bits) \in Coded
                      /\ bits - FirstCode(Lookup(bits)) \in 0 .. Space(Lookup(bits)) - 1
    BY DEF DecodesCanonically
  <1>1. TableTypes /\ Made /\ LengthsOK
    BY TableTypesFacts DEF TableInv
  <1>2. PICK N : Finished(N)
    BY <1>1 DEF Made
  <1>3. bits \in Next16 /\ bits \in Nat
    BY PeeksAreNext16, Next16Facts
  <1> DEFINE s == Lookup(bits)
  <1>4. Ends(s, bits)
    BY <1>1, <1>2, <1>3, LookupFinds
  <1> HIDE DEF s
  <1>5. s \in Coded /\ FirstCode(s) <= bits /\ bits < FirstCode(s) + Space(s)
    BY <1>4 DEF Ends, Covers
  <1>6. FirstCode(s) \in Nat /\ Space(s) \in Nat
    BY <1>1, <1>5, CodedFacts
  <1>7. bits - FirstCode(s) \in 0 .. Space(s) - 1
    BY <1>3, <1>5, <1>6
  <1>8. QED
    BY <1>5, <1>7 DEF s

\* A complete code fits.
LEMMA TreeFits ==
    ASSUME TableInv, pc = "direct" \/ Complete
    PROVE  /\ table \in Tables
           /\ next_symbol >= FirstPair /\ 2 * next_symbol <= TableSize
  <1>1. TableTypes /\ LengthsOK
    BY TableTypesFacts DEF TableInv
  <1>2. ASSUME NEW N, NEW c, Grown(N, table, next_symbol, c, 0)
        PROVE  /\ table \in Tables
               /\ next_symbol >= FirstPair /\ 2 * next_symbol <= TableSize
    <2>1. 2 * next_symbol <= TableSize /\ next_symbol >= FirstPair
      BY <1>1, <1>2, GrownFacts
    <2>2. table \in Tables
      BY <1>2 DEF Grown
    <2>3. QED
      BY <2>1, <2>2
  <1>3. CASE pc = "direct"
    <2>1. DirectPart
      BY <1>3 DEF TableInv
    <2>2. table \in Tables /\ next_symbol = FirstPair
      BY <2>1 DEF DirectPart
    <2>3. 2 * FirstPair = Direct /\ TableSize = Direct + 2 * NSyms /\ FirstPair \in Nat
          /\ Direct \in Nat /\ NSyms \in Nat
      BY TableSizes, SymbolFacts
    <2>4. QED
      BY <2>2, <2>3
  <1>4. CASE pc # "direct"
    <2>1. CodeSpace = 65536
      <3>1. 2 ^ MaxCodeBits = 65536
        BY DEF MaxCodeBits
      <3>2. QED
        BY <1>4, <3>1 DEF Complete
    <2>2. CASE pc = "long"
      <3>1. \E N : Grown(N, table, next_symbol, Sum(Placed), 0)
        BY <2>1, <2>2 DEF TableInv, LongPart
      <3>2. QED
        BY <1>2, <3>1
    <2>3. CASE pc = "done"
      <3>1. Made
        BY <2>3 DEF TableInv
      <3>2. ~Empty
        <4>1. Empty => CodeSpace = 0
          BY <1>1, PlacedSum
        <4>2. QED
          BY <2>1, <4>1
      <3>3. ret = 0
        BY <1>1, <2>1, <3>1 DEF Made, TableTypes
      <3>4. PICK N : Finished(N)
        BY <3>1, <3>2, <3>3 DEF Made
      <3>5. QED
        BY <1>2, <3>4 DEF Finished
    <2>4. QED
      BY <1>1, <1>4, <2>2, <2>3 DEF TableTypes
  <1>5. QED
    BY <1>3, <1>4

LEMMA TableTyped ==
    ASSUME TableInv
    PROVE  TableTypeOK
  <1>1. TableTypes /\ LengthsOK
    BY TableTypesFacts DEF TableInv
  <1>2. /\ pc = "direct" => DirectPart
        /\ pc = "long" => LongPart
        /\ pc = "done" => Made
    BY DEF TableInv
  <1>3. length \in [Symbols -> 0 .. MaxCodeBits]
    BY <1>1 DEF LengthsOK, MaxCodeBits
  <1>4. /\ bit_num \in 1 .. MaxCodeBits + 1 /\ sym \in 0 .. NSyms
        /\ pc \in {"direct", "long", "done"} /\ ret \in {0, 1}
    BY <1>1 DEF TableTypes, MaxCodeBits
  <1>5. bit_mask \in 0 .. 2 ^ 15
    BY <1>1 DEF TableTypes, E
  <1>6. table_mask \in {Direct, Direct * 2 ^ 16}
    <2>1. 2 ^ 16 = 65536
      BY TableSizes
    <2>2. QED
      BY <1>1, <2>1 DEF TableTypes
  <1>7. pos \in 0 .. table_mask \/ ret = 1
    <2>1. pos \in Nat
      BY <1>1 DEF TableTypes
    <2>2. table_mask \in Nat
      <3>1. Direct \in Nat
        BY TableSizes
      <3>2. QED
        BY <1>1, <3>1 DEF TableTypes
    <2>3. CASE pc = "direct"
      BY <1>2, <2>1, <2>2, <2>3 DEF DirectPart
    <2>4. CASE pc = "long"
      BY <1>2, <2>1, <2>2, <2>4 DEF LongPart
    <2>5. CASE pc = "done"
      BY <1>2, <1>4, <2>1, <2>2, <2>5 DEF Made
    <2>6. QED
      BY <1>4, <2>3, <2>4, <2>5
  <1>8. pc = "direct" \/ Complete =>
          /\ table \in [0 .. TableSize - 1 -> {Old} \union 0 .. TableSize]
          /\ next_symbol >= FirstPair /\ 2 * next_symbol <= TableSize
    BY TreeFits DEF Tables
  <1>9. QED
    BY <1>3, <1>4, <1>5, <1>6, <1>7, <1>8 DEF TableTypeOK

=============================================================================
