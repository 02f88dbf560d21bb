--------------------------- MODULE ModArithmetic ---------------------------
(***************************************************************************)
(* Division with remainder, for the proofs: page and sector boundaries and *)
(* ring-buffer indices are all taken modulo a constant.                    *)
(***************************************************************************)
EXTENDS Integers, TLAPS

\* Quotient and remainder.
LEMMA DivMod ==
  ASSUME NEW n \in Nat, NEW d \in Nat \ {0}
  PROVE  /\ n % d \in 0 .. d - 1
         /\ n \div d \in Nat
         /\ n = d * (n \div d) + (n % d)
  OBVIOUS

\* The same with names for both.
LEMMA Remainder ==
  ASSUME NEW n \in Nat, NEW d \in Nat \ {0}
  PROVE  \E q \in Nat, r \in Nat : q = n \div d /\ r = n % d /\ r < d /\ n = d * q + r
<1>1. n % d \in 0 .. d - 1 /\ n \div d \in Nat /\ n = d * (n \div d) + (n % d)
  BY DivMod
<1>2. n % d \in Nat /\ n % d < d
  BY <1>1
<1>. QED
  BY <1>1, <1>2

\* The remainder is the only one.
LEMMA ModUnique ==
  ASSUME NEW q \in Nat, NEW r \in Nat, NEW d \in Nat \ {0}, r < d
  PROVE  (d * q + r) % d = r
  OBVIOUS

\* A number with remainder zero is a multiple, and a multiple has remainder zero.
LEMMA Multiple ==
  ASSUME NEW n \in Nat, NEW d \in Nat \ {0}
  PROVE  n % d = 0 <=> \E q \in Nat : n = d * q
<1>1. n = d * (n \div d) + (n % d) /\ n \div d \in Nat
  BY DivMod
<1>2. ASSUME NEW q \in Nat, n = d * q
      PROVE  n % d = 0
  <2>1. (d * q + 0) % d = 0
    BY ModUnique
  <2>. QED
    BY <1>2, <2>1
<1>3. ASSUME n % d = 0
      PROVE  \E q \in Nat : n = d * q
  <2>. WITNESS n \div d \in Nat
  <2>. QED
    BY <1>1, <1>3
<1>. QED
  BY <1>2, <1>3

\* Two different multiples of d are at least d apart.
LEMMA MultipleGap ==
  ASSUME NEW p \in Nat, NEW q \in Nat, NEW d \in Nat \ {0}, d * p < d * q
  PROVE  d * p + d <= d * q
  OBVIOUS

\* The block of length d that starts at a multiple of d holds the numbers that
\* round down to its start.
LEMMA BlockMembers ==
  ASSUME NEW a \in Nat, NEW b \in Nat, NEW d \in Nat \ {0}, a % d = 0
  PROVE  (b - (b % d) = a) <=> (a <= b /\ b < a + d)
<1>1. b % d \in 0 .. d - 1
  BY DivMod
<1>2. CASE b - (b % d) = a
  BY <1>1, <1>2
<1>3. CASE a <= b /\ b < a + d
  <2>1. PICK q \in Nat : a = d * q
    BY Multiple
  <2>2. PICK r \in Nat : r = b - a /\ r < d
    BY <1>3
  <2>3. (d * q + r) % d = r
    BY <2>2, ModUnique
  <2>4. b = d * q + r
    BY <2>1, <2>2
  <2>. QED
    BY <2>1, <2>3, <2>4
<1>. QED
  BY <1>2, <1>3, <1>1

\* Rounding down gives a multiple, and the block from there fits below every
\* multiple that lies above.
LEMMA RoundDown ==
  ASSUME NEW n \in Nat, NEW d \in Nat \ {0}
  PROVE  /\ n - (n % d) \in Nat
         /\ (n - (n % d)) % d = 0
         /\ \A m \in Nat : m % d = 0 /\ n < m => n - (n % d) + d <= m
<1>1. /\ n % d \in 0 .. d - 1
      /\ n \div d \in Nat
      /\ n = d * (n \div d) + (n % d)
  BY DivMod
<1>2. (d * (n \div d) + 0) % d = 0
  BY <1>1, ModUnique
<1>3. ASSUME NEW m \in Nat, m % d = 0, n < m
      PROVE  n - (n % d) + d <= m
  <2>1. m = d * (m \div d) /\ m \div d \in Nat
    BY <1>3, DivMod
  <2>2. d * (n \div d) < d * (m \div d)
    BY <1>1, <1>3, <2>1
  <2>3. d * (n \div d) + d <= d * (m \div d)
    BY <1>1, <2>1, <2>2, MultipleGap
  <2>. QED
    BY <1>1, <2>1, <2>3
<1>. QED
  BY <1>1, <1>2, <1>3

\* Divisibility is transitive, and multiples of d are closed under addition.
LEMMA Divides ==
  ASSUME NEW n \in Nat, NEW m \in Nat \ {0}, NEW d \in Nat \ {0},
         n % m = 0, m % d = 0
  PROVE  n % d = 0
<1>1. PICK q \in Nat : n = m * q
  BY Multiple
<1>2. PICK p \in Nat : m = d * p
  BY Multiple
<1>3. p * q \in Nat /\ n = d * (p * q)
  BY <1>1, <1>2
<1>. QED
  BY <1>3, Multiple

LEMMA AddMultiple ==
  ASSUME NEW n \in Nat, NEW m \in Nat, NEW d \in Nat \ {0}, n % d = 0, m % d = 0
  PROVE  (n + m) % d = 0
<1>1. PICK q \in Nat : n = d * q
  BY Multiple
<1>2. PICK p \in Nat : m = d * p
  BY Multiple
<1>3. q + p \in Nat /\ n + m = d * (q + p)
  BY <1>1, <1>2
<1>4. n + m \in Nat
  OBVIOUS
<1>. QED
  BY <1>3, <1>4, Multiple

\* The next offset in a page, wrapping at its end, stays in the page's array.
LEMMA NextWraps ==
  ASSUME NEW p \in Nat, NEW d \in Nat \ {0}, NEW n \in Nat, n % d = 0, p < n
  PROVE  /\ (p + 1) % d = 0 => p + 1 - d \in 0 .. n - 1
         /\ (p + 1) % d # 0 => p + 1 < n
<1>1. CASE (p + 1) % d = 0
  <2>1. p + 1 = d * ((p + 1) \div d) /\ (p + 1) \div d \in Nat
    BY <1>1, DivMod
  <2>2. (p + 1) \div d >= 1
    BY <2>1
  <2>3. p + 1 >= d
    BY <2>1, <2>2
  <2>. QED
    BY <1>1, <2>3
<1>2. CASE (p + 1) % d # 0
  BY <1>2
<1>. QED
  BY <1>1, <1>2

\* Two numbers have the same quotient when they round down to the same multiple.
LEMMA SameQuotient ==
  ASSUME NEW a \in Nat, NEW b \in Nat, NEW d \in Nat \ {0}
  PROVE  a \div d = b \div d <=> a - (a % d) = b - (b % d)
<1>1. /\ a = d * (a \div d) + (a % d) /\ b = d * (b \div d) + (b % d)
      /\ a % d \in 0 .. d - 1 /\ b % d \in 0 .. d - 1 /\ a \div d \in Nat /\ b \div d \in Nat
  BY DivMod
<1>2. CASE a \div d = b \div d
  BY <1>1, <1>2
<1>3. CASE a - (a % d) = b - (b % d)
  <2>1. d * (a \div d) = d * (b \div d)
    BY <1>1, <1>3
  <2>2. ~(a \div d < b \div d)
    <3>1. SUFFICES ASSUME a \div d + 1 <= b \div d  PROVE FALSE
      BY <1>1
    <3>2. d * (a \div d) + d <= d * (b \div d)
      BY <1>1, <3>1
    <3>3. QED  BY <2>1, <3>2, <1>1
  <2>3. ~(b \div d < a \div d)
    <3>1. SUFFICES ASSUME b \div d + 1 <= a \div d  PROVE FALSE
      BY <1>1
    <3>2. d * (b \div d) + d <= d * (a \div d)
      BY <1>1, <3>1
    <3>3. QED  BY <2>1, <3>2, <1>1
  <2>4. QED  BY <1>1, <2>2, <2>3
<1>4. QED  BY <1>2, <1>3

\* A number in the block that starts at a multiple of d has its quotient, no other has.
LEMMA BlockQuotient ==
  ASSUME NEW a \in Nat, NEW b \in Nat, NEW d \in Nat \ {0}, a % d = 0
  PROVE  b \div d = a \div d <=> a <= b /\ b < a + d
<1>1. a - (a % d) = a
  OBVIOUS
<1>2. b \div d = a \div d <=> b - (b % d) = a - (a % d)
  BY SameQuotient
<1>3. b - (b % d) = a <=> a <= b /\ b < a + d
  BY BlockMembers
<1>4. QED  BY <1>1, <1>2, <1>3
=============================================================================
