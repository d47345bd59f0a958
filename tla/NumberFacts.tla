----------------------------- MODULE NumberFacts -----------------------------
(***************************************************************************)
(* Facts about numbers that the proofs need: division, the least element   *)
(* of a set of naturals, and what counting up to a number defines.         *)
(***************************************************************************)
EXTENDS Integers, WellFoundedInduction, TLAPS

-----------------------------------------------------------------------------
(* Division *)

\* A remainder lies below the divisor; this is what makes a hash a slot.
LEMMA ModRange ==
    ASSUME NEW a \in Int, NEW n \in Nat \ {0}
    PROVE  a % n \in 0 .. n - 1
  OBVIOUS

\* Quotients and remainders of naturals are naturals not above the dividend.
LEMMA DivModNat ==
    ASSUME NEW a \in Nat, NEW n \in Nat \ {0}
    PROVE  a \div n \in Nat /\ a % n \in Nat /\ a % n <= a
  OBVIOUS

\* What division is: the only quotient whose remainder is below the divisor.
LEMMA DivFacts ==
    ASSUME NEW a \in Int, NEW n \in Nat \ {0}
    PROVE  /\ a \div n \in Int
           /\ a = n * (a \div n) + (a % n)
           /\ a % n \in 0 .. n - 1
  <1>1. a % n \in 0 .. n - 1
    BY ModRange
  <1>2. a \div n \in Int
    OBVIOUS
  <1>3. a = n * (a \div n) + (a % n)
    OBVIOUS
  <1>4. QED
    BY <1>1, <1>2, <1>3

LEMMA DivUnique ==
    ASSUME NEW a \in Int, NEW n \in Nat \ {0}, NEW q \in Int,
           NEW r \in 0 .. n - 1, a = n * q + r
    PROVE  a \div n = q /\ a % n = r
  OBVIOUS

\* An offset that stays in its block.
LEMMA DivAdd ==
    ASSUME NEW a \in Int, NEW n \in Nat \ {0}, NEW j \in Nat,
           (a % n) + j < n
    PROVE  (a + j) \div n = a \div n /\ (a + j) % n = (a % n) + j
  <1>1. a = n * (a \div n) + (a % n) /\ a \div n \in Int /\ a % n \in 0 .. n - 1
    BY DivFacts
  <1>2. (a % n) + j \in 0 .. n - 1 /\ a + j \in Int
    BY <1>1
  <1>4. a + j = n * (a \div n) + ((a % n) + j)
    BY <1>1
  <1>3. QED
    BY <1>1, <1>2, <1>4, DivUnique

\* Whole multiples do not show in a remainder.
LEMMA ModOfSum ==
    ASSUME NEW a \in Int, NEW n \in Nat \ {0}
    PROVE  ((a + n) % n) = (a % n) /\ ((a - n) % n) = (a % n)
  <1> DEFINE q == a \div n
             r == a % n
  <1>1. a = n * q + r /\ q \in Int /\ r \in 0 .. n - 1
    BY DivFacts
  <1> HIDE DEF q, r
  <1>2. a + n = n * (q + 1) + r /\ q + 1 \in Int /\ a + n \in Int
    BY <1>1
  <1>3. a - n = n * (q - 1) + r /\ q - 1 \in Int /\ a - n \in Int
    BY <1>1
  <1>4. ((a + n) % n) = r
    BY <1>1, <1>2, DivUnique
  <1>5. ((a - n) % n) = r
    BY <1>1, <1>3, DivUnique
  <1>6. QED
    BY <1>4, <1>5 DEF r

\* A number below the divisor is its own remainder.
LEMMA ModSmall ==
    ASSUME NEW n \in Nat \ {0}, NEW a \in 0 .. n - 1
    PROVE  (a % n) = a
  <1>1. a = n * 0 + a
    OBVIOUS
  <1>2. QED
    BY <1>1, DivUnique

LEMMA DivMonotone ==
    ASSUME NEW a \in Int, NEW b \in Int, NEW n \in Nat \ {0}, a <= b
    PROVE  a \div n <= b \div n
  OBVIOUS

\* What lies between two numbers of one interval lies in it.
LEMMA DivBetween ==
    ASSUME NEW a \in Int, NEW b \in Int, NEW c \in Int, NEW n \in Nat \ {0},
           a <= b, b <= c, a \div n = c \div n
    PROVE  b \div n = c \div n
  BY DivMonotone

\* The first block of an interval.
LEMMA IntervalStart ==
    ASSUME NEW a \in Nat, NEW n \in Nat \ {0}
    PROVE  /\ (a - (a % n)) \div n = a \div n
           /\ (a - (a % n)) % n = 0
           /\ a - (a % n) \in 0 .. a
  <1>1. /\ a = n * (a \div n) + (a % n)
        /\ a \div n \in Int /\ a % n \in 0 .. n - 1
    BY DivFacts
  <1>2. /\ a - (a % n) = n * (a \div n) + 0 /\ 0 \in 0 .. n - 1
        /\ a - (a % n) \in Int
    BY <1>1
  <1>3. (a - (a % n)) \div n = a \div n /\ (a - (a % n)) % n = 0
    BY <1>1, <1>2, DivUnique
  <1>4. a % n <= a
    BY DivModNat
  <1>5. QED
    BY <1>1, <1>3, <1>4

\* More of the same is more.
LEMMA TimesMonotone ==
    ASSUME NEW a \in Int, NEW b \in Int, NEW n \in Nat, a <= b
    PROVE  a * n <= b * n
  OBVIOUS

-----------------------------------------------------------------------------
(* Least elements *)

\* A set of naturals has a least element: what CHOOSE picks when a model asks
\* for the lowest of several, and where a wrong value shows first.
LEMMA LeastNat ==
    ASSUME NEW T \in SUBSET Nat, T # {}
    PROVE  \E x \in T : \A y \in T : x <= y
  <1> DEFINE R == {p \in Nat \X Nat : p[1] < p[2]}
  <1>1. IsWellFoundedOn(R, Nat)
    BY NatLessThanWellFounded DEF OpToRel
  <1>2. ASSUME NEW x \in Nat, NEW y \in Nat, <<y, x>> \notin R
        PROVE  x <= y
    BY <1>2
  <1>3. T \subseteq Nat
    OBVIOUS
  <1> HIDE DEF R
  <1>4. PICK x \in T : \A y \in T : ~(<<y, x>> \in R)
    BY <1>1, <1>3, WFMin
  <1>5. \A y \in T : x <= y
    BY <1>2, <1>3, <1>4
  <1>6. QED
    BY <1>5

-----------------------------------------------------------------------------
(* Iteration *)

\* What holds at 0 and is handed on from each number to the next.
LEMMA UpTo ==
    ASSUME NEW n \in Nat, NEW T, 0 \in T, \A k \in 0 .. n - 1 : k \in T => k + 1 \in T
    PROVE  \A k \in 0 .. n : k \in T
  <1> DEFINE Wrong == {k \in 0 .. n : k \notin T}
  <1>1. ASSUME Wrong # {} PROVE FALSE
    <2>1. Wrong \in SUBSET Nat
      OBVIOUS
    <2> HIDE DEF Wrong
    <2>2. PICK k \in Wrong : \A m \in Wrong : k <= m
      BY <1>1, <2>1, LeastNat
    <2>3. k \in 0 .. n /\ k \notin T
      BY <2>2 DEF Wrong
    <2>4. k # 0
      BY <2>3
    <2>5. k - 1 \in 0 .. n - 1 /\ k - 1 \in 0 .. n /\ ~(k <= k - 1) /\ (k - 1) + 1 = k
      BY <2>3, <2>4
    <2>6. k - 1 \in T
      BY <2>2, <2>5 DEF Wrong
    <2>7. QED
      BY <2>3, <2>5, <2>6
  <1>2. QED
    BY <1>1

\* The values that step computes, each from the one before.
Iterates(g, n, S, base, step) ==
    /\ g \in [0 .. n -> S]
    /\ g[0] = base
    /\ \A k \in 1 .. n : g[k] = step[<<k, g[k - 1]>>]

\* A function that is defined from its value at the number before exists.
LEMMA IterationExists ==
    ASSUME NEW n \in Nat, NEW S, NEW base, NEW step,
           base \in S, step \in [(1 .. n) \X S -> S]
    PROVE  \E g : Iterates(g, n, S, base, step)
  <1> DEFINE Good(g, m) == g \in [0 .. m -> S] /\ g[0] = base
                           /\ \A k \in 1 .. m : g[k] = step[<<k, g[k - 1]>>]
             T == {m \in 0 .. n : \E g : Good(g, m)}
  <1>1. 0 \in T
    <2> DEFINE g == [k \in 0 .. 0 |-> base]
    <2>1. Good(g, 0)
      OBVIOUS
    <2> HIDE DEF g
    <2>2. (\E f : Good(f, 0)) /\ 0 \in 0 .. n
      BY <2>1
    <2>3. QED
      BY <2>2
  <1>2. ASSUME NEW m \in 0 .. n - 1, m \in T
        PROVE  m + 1 \in T
    <2>1. PICK g : Good(g, m)
      BY <1>2
    <2>2. m \in Nat /\ m \in 0 .. m /\ m + 1 \in 1 .. n /\ m + 1 \in 0 .. n
      OBVIOUS
    <2> DEFINE x == step[<<m + 1, g[m]>>]
               h == [k \in 0 .. m + 1 |-> IF k <= m THEN g[k] ELSE x]
    <2>3. g[m] \in S
      BY <2>1, <2>2
    <2>4. x \in S
      BY <2>2, <2>3
    <2>5. h \in [0 .. m + 1 -> S]
      <3> HIDE DEF x
      <3>1. \A k \in 0 .. m + 1 : k <= m => k \in 0 .. m
        OBVIOUS
      <3>2. QED
        BY <2>1, <2>4, <3>1
    <2>6. h[0] = base
      BY <2>1, <2>2
    <2>7. ASSUME NEW k \in 1 .. m + 1
          PROVE  h[k] = step[<<k, h[k - 1]>>]
      <3>1. k - 1 \in 0 .. m + 1 /\ k - 1 <= m /\ k \in 0 .. m + 1
        OBVIOUS
      <3>2. h[k - 1] = g[k - 1]
        BY <3>1
      <3>3. CASE k <= m
        <4>1. k \in 1 .. m /\ h[k] = g[k]
          BY <3>1, <3>3
        <4>2. g[k] = step[<<k, g[k - 1]>>]
          BY <2>1, <4>1
        <4>3. QED
          BY <3>2, <4>1, <4>2
      <3>4. CASE ~(k <= m)
        <4>1. k = m + 1 /\ k - 1 = m /\ h[k] = x
          BY <3>1, <3>4
        <4>2. QED
          BY <3>2, <4>1
      <3>5. QED
        BY <3>3, <3>4
    <2> HIDE DEF h
    <2>8. Good(h, m + 1)
      BY <2>5, <2>6, <2>7
    <2>9. QED
      BY <2>2, <2>8
  <1> HIDE DEF T
  <1>3. \A m \in 0 .. n : m \in T
    BY <1>1, <1>2, UpTo
  <1>4. n \in T
    BY <1>3
  <1>5. QED
    BY <1>4 DEF T, Iterates

=============================================================================
