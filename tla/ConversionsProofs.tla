------------------------- MODULE ConversionsProofs -------------------------
(***************************************************************************)
(* Proofs about Conversions, for every second, every fraction of a second, *)
(* every price below the limit and every increment of the forms named in   *)
(* Numbers: what is read and posted is right, and order is kept.           *)
(*                                                                         *)
(* The powers and remainders are defined by recursion.  Induction is used  *)
(* on a set of numbers in place of a predicate, and follows from the       *)
(* library's theorem that less-than is well founded on the naturals.       *)
(***************************************************************************)
EXTENDS Conversions, WellFoundedInduction, TLAPS

-----------------------------------------------------------------------------
(* Induction.                                                              *)

Less == OpToRel(<, Nat)

LEMMA LessIs == \A x, y \in Nat : x < y => <<x, y>> \in Less
BY Zenon DEF OpToRel, Less

LEMMA LeastNumber ==
  ASSUME NEW T, T \subseteq Nat, T # {}
  PROVE  \E x \in T : \A y \in T : ~ (y < x)
<1>1. \E x \in T : \A y \in T : ~ (<<y, x>> \in Less)
  BY NatLessThanWellFounded, WFMin, Zenon DEF Less
<1> QED BY <1>1, LessIs

\* A set that has 0, and with each number the next, has them all.
LEMMA SetInduction ==
  ASSUME NEW S, 0 \in S, \A n \in Nat : n \in S => n + 1 \in S
  PROVE  Nat \subseteq S
<1> SUFFICES ASSUME Nat \ S # {} PROVE FALSE
  OBVIOUS
<1>1. PICK x \in Nat \ S : \A y \in Nat \ S : ~ (y < x)
  BY LeastNumber
<1>2. x # 0 /\ x - 1 \in Nat /\ x - 1 < x
  OBVIOUS
<1> QED BY <1>1, <1>2

-----------------------------------------------------------------------------
(* Powers.                                                                 *)

Powers(g, b, n) == g = [i \in 0..n |-> IF i = 0 THEN 1 ELSE b * g[i - 1]]

LEMMA PowersExist ==
  ASSUME NEW b
  PROVE  \A n \in Nat : \E g : Powers(g, b, n)
<1> DEFINE S == {n \in Nat : \E g : Powers(g, b, n)}
<1>1. 0 \in S
  <2> DEFINE g == [i \in 0..0 |-> 1]
  <2>1. Powers(g, b, 0)
    BY DEF Powers
  <2> QED BY <2>1
<1>2. ASSUME NEW n \in Nat, n \in S PROVE n + 1 \in S
  <2>1. PICK g : Powers(g, b, n)
    BY <1>2
  <2> DEFINE h == [i \in 0..(n + 1) |-> IF i = n + 1 THEN b * g[n] ELSE g[i]]
  <2>2. ASSUME NEW i \in 0..(n + 1) PROVE h[i] = IF i = 0 THEN 1 ELSE b * h[i - 1]
    BY <2>1 DEF Powers
  <2>3. h = [i \in 0..(n + 1) |-> h[i]]
    OBVIOUS
  <2> HIDE DEF h
  <2>4. Powers(h, b, n + 1)
    BY <2>2, <2>3 DEF Powers
  <2> QED BY <2>4
<1> HIDE DEF S
<1>3. Nat \subseteq S
  BY <1>1, <1>2, SetInduction
<1> QED BY <1>3 DEF S

LEMMA PowersUnique ==
  ASSUME NEW b, NEW n \in Nat, NEW m \in Nat, NEW g, NEW h, Powers(g, b, n), Powers(h, b, m)
  PROVE  \A i \in Nat : i <= n /\ i <= m => g[i] = h[i]
<1> DEFINE S == {i \in Nat : i <= n /\ i <= m => g[i] = h[i]}
<1>1. 0 \in S
  BY DEF Powers
<1>2. ASSUME NEW i \in Nat, i \in S PROVE i + 1 \in S
  BY <1>2 DEF Powers
<1> HIDE DEF S
<1>3. Nat \subseteq S
  BY <1>1, <1>2, SetInduction
<1> QED BY <1>3 DEF S

LEMMA PowerOf2Chosen ==
  ASSUME NEW n \in Nat
  PROVE  \E g : Powers(g, 2, n) /\ PowerOf2(n) = g[n]
<1> DEFINE f == CHOOSE f : f = [i \in 0..n |-> IF i = 0 THEN 1 ELSE 2 * f[i - 1]]
<1>1. PowerOf2(n) = f[n]
  BY Zenon DEF PowerOf2
<1>2. f = CHOOSE g : Powers(g, 2, n)
  BY Zenon DEF Powers
<1>3. Powers(f, 2, n)
  BY <1>2, PowersExist, Zenon
<1> QED BY <1>1, <1>3

LEMMA PowerOf10Chosen ==
  ASSUME NEW n \in Nat
  PROVE  \E g : Powers(g, 10, n) /\ PowerOf10(n) = g[n]
<1> DEFINE f == CHOOSE f : f = [i \in 0..n |-> IF i = 0 THEN 1 ELSE 10 * f[i - 1]]
<1>1. PowerOf10(n) = f[n]
  BY Zenon DEF PowerOf10
<1>2. f = CHOOSE g : Powers(g, 10, n)
  BY Zenon DEF Powers
<1>3. Powers(f, 10, n)
  BY <1>2, PowersExist, Zenon
<1> QED BY <1>1, <1>3

\* What the recursion says.
LEMMA PowerOf2Step ==
  /\ PowerOf2(0) = 1
  /\ \A n \in Nat : PowerOf2(n + 1) = 2 * PowerOf2(n)
<1>1. PowerOf2(0) = 1
  BY PowerOf2Chosen DEF Powers
<1>2. ASSUME NEW n \in Nat PROVE PowerOf2(n + 1) = 2 * PowerOf2(n)
  <2>1. PICK g : Powers(g, 2, n) /\ PowerOf2(n) = g[n]
    BY PowerOf2Chosen
  <2>2. PICK h : Powers(h, 2, n + 1) /\ PowerOf2(n + 1) = h[n + 1]
    BY PowerOf2Chosen
  <2>3. g[n] = h[n]
    BY <2>1, <2>2, PowersUnique
  <2>4. h[n + 1] = 2 * h[n]
    BY <2>2 DEF Powers
  <2> QED BY <2>1, <2>2, <2>3, <2>4
<1> QED BY <1>1, <1>2

LEMMA PowerOf10Step ==
  /\ PowerOf10(0) = 1
  /\ \A n \in Nat : PowerOf10(n + 1) = 10 * PowerOf10(n)
<1>1. PowerOf10(0) = 1
  BY PowerOf10Chosen DEF Powers
<1>2. ASSUME NEW n \in Nat PROVE PowerOf10(n + 1) = 10 * PowerOf10(n)
  <2>1. PICK g : Powers(g, 10, n) /\ PowerOf10(n) = g[n]
    BY PowerOf10Chosen
  <2>2. PICK h : Powers(h, 10, n + 1) /\ PowerOf10(n + 1) = h[n + 1]
    BY PowerOf10Chosen
  <2>3. g[n] = h[n]
    BY <2>1, <2>2, PowersUnique
  <2>4. h[n + 1] = 10 * h[n]
    BY <2>2 DEF Powers
  <2> QED BY <2>1, <2>2, <2>3, <2>4
<1> QED BY <1>1, <1>2

LEMMA PowerOf2Positive == \A n \in Nat : PowerOf2(n) \in Nat \ {0}
<1> DEFINE S == {n \in Nat : PowerOf2(n) \in Nat \ {0}}
<1>1. 0 \in S
  BY PowerOf2Step
<1>2. ASSUME NEW n \in Nat, n \in S PROVE n + 1 \in S
  BY <1>2, PowerOf2Step
<1> HIDE DEF S
<1>3. Nat \subseteq S
  BY <1>1, <1>2, SetInduction
<1> QED BY <1>3 DEF S

LEMMA PowerOf2Sum ==
  ASSUME NEW a \in Nat, NEW b \in Nat
  PROVE  PowerOf2(a + b) = PowerOf2(a) * PowerOf2(b)
<1> DEFINE S == {n \in Nat : PowerOf2(a + n) = PowerOf2(a) * PowerOf2(n)}
<1>1. 0 \in S
  BY PowerOf2Step, PowerOf2Positive
<1>2. ASSUME NEW n \in Nat, n \in S PROVE n + 1 \in S
  <2>1. PowerOf2(n + 1) = 2 * PowerOf2(n)
    BY PowerOf2Step
  <2>2. PowerOf2((a + n) + 1) = 2 * PowerOf2(a + n)
    BY PowerOf2Step
  <2>3. a + (n + 1) = (a + n) + 1
    OBVIOUS
  <2>4. PowerOf2(a) \in Nat /\ PowerOf2(n) \in Nat
    BY PowerOf2Positive
  <2>5. PowerOf2(a) * (2 * PowerOf2(n)) = 2 * (PowerOf2(a) * PowerOf2(n))
    BY <2>4
  <2> QED BY <1>2, <2>1, <2>2, <2>3, <2>5
<1> HIDE DEF S
<1>3. Nat \subseteq S
  BY <1>1, <1>2, SetInduction
<1> QED BY <1>3 DEF S

LEMMA PowerOf2Grows ==
  ASSUME NEW a \in Nat, NEW b \in Nat, a <= b
  PROVE  PowerOf2(a) <= PowerOf2(b)
<1>1. PICK d \in Nat : b = a + d
  BY b - a \in Nat /\ b = a + (b - a)
<1>2. PowerOf2(b) = PowerOf2(a) * PowerOf2(d)
  BY <1>1, PowerOf2Sum
<1>3. PowerOf2(a) \in Nat /\ PowerOf2(d) \in Nat /\ PowerOf2(d) >= 1
  BY PowerOf2Positive
<1> QED BY <1>2, <1>3

\* The powers that occur.
LEMMA PowersOf2 ==
  /\ PowerOf2(7) = 128 /\ PowerOf2(8) = 256 /\ PowerOf2(9) = 512 /\ PowerOf2(10) = 1024
  /\ PowerOf2(17) = 131072 /\ PowerOf2(18) = 262144 /\ PowerOf2(19) = 524288
  /\ PowerOf2(20) = 1048576
  /\ PowerOf2(27) = 134217728 /\ PowerOf2(28) = 268435456 /\ PowerOf2(29) = 536870912
  /\ PowerOf2(30) = 1073741824
  /\ PowerOf2(52) = 4503599627370496
<1>1. PowerOf2(1) = 2 /\ PowerOf2(2) = 4 /\ PowerOf2(3) = 8 /\ PowerOf2(4) = 16
  <2>1. PowerOf2(0 + 1) = 2 /\ PowerOf2(1 + 1) = 4
    BY PowerOf2Step
  <2>2. PowerOf2(2 + 1) = 8 /\ PowerOf2(3 + 1) = 16
    BY <2>1, PowerOf2Step
  <2> QED BY <2>1, <2>2
<1>2. PowerOf2(4 + 3) = 16 * 8 /\ PowerOf2(4 + 4) = 16 * 16
  BY <1>1, PowerOf2Sum
<1>3. PowerOf2(8 + 1) = 256 * 2 /\ PowerOf2(8 + 2) = 256 * 4
  BY <1>1, <1>2, PowerOf2Sum
<1>4. PowerOf2(10 + 7) = 1024 * 128 /\ PowerOf2(10 + 8) = 1024 * 256 /\ PowerOf2(10 + 9) = 1024 * 512
      /\ PowerOf2(10 + 10) = 1024 * 1024
  BY <1>2, <1>3, PowerOf2Sum
<1>5. PowerOf2(20 + 7) = 1048576 * 128 /\ PowerOf2(20 + 8) = 1048576 * 256
      /\ PowerOf2(20 + 9) = 1048576 * 512 /\ PowerOf2(20 + 10) = 1048576 * 1024
  BY <1>2, <1>3, <1>4, PowerOf2Sum
<1>6. PowerOf2(30 + 20) = 1073741824 * 1048576
  BY <1>4, <1>5, PowerOf2Sum
<1>7. PowerOf2(50 + 2) = (1073741824 * 1048576) * 4
  BY <1>1, <1>6, PowerOf2Sum
<1> QED BY <1>2, <1>3, <1>4, <1>5, <1>7

-----------------------------------------------------------------------------
(* Remainders of doubled numbers.                                          *)

Remainders(g, x, n, m) == g = [i \in 0..n |-> IF i = 0 THEN x ELSE (2 * g[i - 1]) % m]

LEMMA RemaindersExist ==
  ASSUME NEW x, NEW m
  PROVE  \A n \in Nat : \E g : Remainders(g, x, n, m)
<1> DEFINE S == {n \in Nat : \E g : Remainders(g, x, n, m)}
<1>1. 0 \in S
  <2> DEFINE g == [i \in 0..0 |-> x]
  <2>1. Remainders(g, x, 0, m)
    BY DEF Remainders
  <2> QED BY <2>1
<1>2. ASSUME NEW n \in Nat, n \in S PROVE n + 1 \in S
  <2>1. PICK g : Remainders(g, x, n, m)
    BY <1>2
  <2> DEFINE h == [i \in 0..(n + 1) |-> IF i = n + 1 THEN (2 * g[n]) % m ELSE g[i]]
  <2>2. ASSUME NEW i \in 0..(n + 1) PROVE h[i] = IF i = 0 THEN x ELSE (2 * h[i - 1]) % m
    BY <2>1 DEF Remainders
  <2>3. h = [i \in 0..(n + 1) |-> h[i]]
    OBVIOUS
  <2> HIDE DEF h
  <2>4. Remainders(h, x, n + 1, m)
    BY <2>2, <2>3 DEF Remainders
  <2> QED BY <2>4
<1> HIDE DEF S
<1>3. Nat \subseteq S
  BY <1>1, <1>2, SetInduction
<1> QED BY <1>3 DEF S

\* The remainder is what is left of x * 2^n when some multiple of m is taken off.
LEMMA DoubledModIs ==
  ASSUME NEW m \in Units, NEW x \in 0..(m - 1), NEW n \in Nat
  PROVE  \E r \in 0..(m - 1), d \in Nat :
           r = DoubledMod(x, n, m) /\ x * PowerOf2(n) = d * m + r
<1> DEFINE f == CHOOSE f : f = [i \in 0..n |-> IF i = 0 THEN x ELSE (2 * f[i - 1]) % m]
<1>1. DoubledMod(x, n, m) = f[n]
  BY Zenon DEF DoubledMod
<1>2. f = CHOOSE g : Remainders(g, x, n, m)
  BY Zenon DEF Remainders
<1>3. Remainders(f, x, n, m)
  BY <1>2, RemaindersExist
<1> HIDE DEF f
<1> DEFINE Good(i) == \E r \in 0..(m - 1), d \in Nat : r = f[i] /\ x * PowerOf2(i) = d * m + r
           S == {i \in Nat : i <= n => Good(i)}
<1>4. 0 \in S
  <2>1. f[0] = x /\ PowerOf2(0) = 1
    BY <1>3, PowerOf2Step DEF Remainders
  <2>2. m \in Nat /\ x \in Nat /\ x * PowerOf2(0) = 0 * m + x
    BY <2>1 DEF Units, NanosPerSecond
  <2> QED BY <2>1, <2>2
<1>5. ASSUME NEW i \in Nat, i \in S PROVE i + 1 \in S
  <2> SUFFICES ASSUME i + 1 <= n PROVE Good(i + 1)
    OBVIOUS
  <2>1. PICK r \in 0..(m - 1), d \in Nat : r = f[i] /\ x * PowerOf2(i) = d * m + r
    BY <1>5
  <2>2. f[i + 1] = (2 * r) % m
    BY <1>3, <2>1 DEF Remainders
  <2>3. x * PowerOf2(i + 1) = 2 * (x * PowerOf2(i)) /\ x * PowerOf2(i) \in Nat
    <3>1. PowerOf2(i + 1) = 2 * PowerOf2(i) /\ PowerOf2(i) \in Nat /\ x \in Nat
      BY PowerOf2Step, PowerOf2Positive DEF Units, NanosPerSecond
    <3> QED BY <3>1
  <2>4. x * PowerOf2(i + 1) = (2 * d) * m + 2 * r
    BY <2>1, <2>3 DEF Units, NanosPerSecond
  <2>5. CASE 2 * r < m
    <3>1. (2 * r) % m = 2 * r /\ 2 * r \in 0..(m - 1) /\ 2 * d \in Nat
      BY <2>5 DEF Units, NanosPerSecond
    <3> QED BY <2>2, <2>4, <3>1
  <2>6. CASE 2 * r >= m
    <3>1. /\ (2 * r) % m = 2 * r - m /\ 2 * r - m \in 0..(m - 1) /\ 2 * d + 1 \in Nat
          /\ (2 * d) * m + 2 * r = (2 * d + 1) * m + (2 * r - m)
      BY <2>6 DEF Units, NanosPerSecond
    <3> QED BY <2>2, <2>4, <3>1
  <2>7. m \in Nat
    BY DEF Units, NanosPerSecond
  <2> QED BY <2>5, <2>6, <2>7
<1> HIDE DEF S
<1>6. Nat \subseteq S
  BY <1>4, <1>5, SetInduction
<1>7. Good(n)
  BY <1>6 DEF S
<1> QED BY <1>1, <1>7

-----------------------------------------------------------------------------
(* The doubles of thousandths.                                             *)

LEMMA UnitsAre == Units = {1000, 1000000, 1000000000}
BY DEF Units, NanosPerSecond

\* Doubled often enough, k reaches s for a first time.
LEMMA FirstToReach ==
  ASSUME NEW k \in Nat, NEW s \in Nat, NEW m \in Nat, k * PowerOf2(m) >= s
  PROVE  \E x \in 0..m : k * PowerOf2(x) >= s /\ \A y \in 0..(x - 1) : k * PowerOf2(y) < s
<1> DEFINE T == {h \in Nat : k * PowerOf2(h) >= s}
<1>1. T \subseteq Nat /\ T # {} /\ m \in T
  OBVIOUS
<1>2. PICK x \in T : \A y \in T : ~(y < x)
  <2> HIDE DEF T
  <2> QED BY <1>1, LeastNumber, Zenon
<1>3. x \in Nat /\ ~(m < x) /\ k * PowerOf2(x) >= s
  BY <1>1, <1>2
<1>4. ASSUME NEW y \in 0..(x - 1) PROVE k * PowerOf2(y) < s
  <2>1. y \in Nat /\ y < x
    BY <1>3
  <2>2. ~(k * PowerOf2(y) >= s)
    BY <1>2, <2>1
  <2>3. k * PowerOf2(y) \in Nat
    BY <2>1, PowerOf2Positive
  <2> QED BY <2>2, <2>3
<1> QED BY <1>3, <1>4

LEMMA FirstOfThirty ==
  ASSUME NEW k \in Nat, NEW s \in Nat, k * PowerOf2(30) >= s
  PROVE  \E x \in 0..30 : k * PowerOf2(x) >= s /\ \A y \in 0..(x - 1) : k * PowerOf2(y) < s
<1>1. PICK m \in Nat : m = 30
  OBVIOUS
<1>2. \E x \in 0..m : k * PowerOf2(x) >= s /\ \A y \in 0..(x - 1) : k * PowerOf2(y) < s
  <2>1. k * PowerOf2(m) >= s
    BY <1>1
  <2> QED BY <2>1, FirstToReach, Zenon
<1> QED BY <1>1, <1>2

\* The exponents EndsBelow speaks of exist and are what their comments say.
LEMMA DoublingsIs ==
  ASSUME NEW s \in Units, NEW k \in 1..(s - 1)
  PROVE  \E h \in 1..31 :
           h = Doublings(k, s) /\ s <= k * PowerOf2(h) /\ k * PowerOf2(h) < 2 * s
<1> DEFINE Good(h) == k * PowerOf2(h) >= s /\ \A g \in 0..(h - 1) : k * PowerOf2(g) < s
<1>1. k \in Nat /\ k >= 1 /\ k < s /\ s \in Nat /\ s <= 1000000000
  BY UnitsAre
<1>2. \A h \in Nat : PowerOf2(h) \in Nat /\ k * PowerOf2(h) \in Nat
  BY <1>1, PowerOf2Positive
<1>3. k * PowerOf2(30) >= s
  BY <1>1, PowersOf2, SMT
<1>4. PICK x \in 0..30 : Good(x)
  BY <1>1, <1>3, FirstOfThirty, SMT
<1>5. x \in 0..31
  OBVIOUS
<1>6. Doublings(k, s) = CHOOSE h \in 0..31 : Good(h)
  BY SMT DEF Doublings
<1>7. PICK h : h = Doublings(k, s)
  OBVIOUS
<1>8. h \in 0..31 /\ Good(h)
  <2> HIDE DEF Good
  <2> QED BY <1>4, <1>5, <1>6, <1>7, SMT
<1>9. h # 0
  BY <1>1, <1>8, PowerOf2Step, SMT
<1>10. k * PowerOf2(h - 1) < s
  BY <1>8, <1>9, SMT
<1>11. h - 1 \in Nat /\ (h - 1) + 1 = h
  BY <1>8, <1>9, SMT
<1>12. PowerOf2(h) = 2 * PowerOf2(h - 1)
  BY <1>11, PowerOf2Step, SMT
<1>13. k * PowerOf2(h) = 2 * (k * PowerOf2(h - 1))
  BY <1>1, <1>2, <1>11, <1>12, SMT
<1> QED BY <1>1, <1>2, <1>7, <1>8, <1>9, <1>10, <1>11, <1>13, SMT

LEMMA BitsBelowIs ==
  ASSUME NEW k \in Nat, 1 < k, k <= PowerOf2(30)
  PROVE  \E b \in 0..30 : b = BitsBelow(k) /\ PowerOf2(b) < k /\ k <= 2 * PowerOf2(b)
<1> DEFINE Good(b) == PowerOf2(b) < k /\ k <= 2 * PowerOf2(b)
<1>1. \A b \in Nat : PowerOf2(b) \in Nat
  BY PowerOf2Positive
<1>2. PICK x \in 0..30 : 2 * PowerOf2(x) >= k /\ \A y \in 0..(x - 1) : 2 * PowerOf2(y) < k
  <2>1. 2 * PowerOf2(30) >= k
    BY <1>1
  <2>2. 2 \in Nat /\ \A a \in Nat : a * PowerOf2(30) >= k =>
          \E x \in 0..30 : a * PowerOf2(x) >= k /\ \A y \in 0..(x - 1) : a * PowerOf2(y) < k
    BY FirstOfThirty
  <2> QED BY <2>1, <2>2
<1>3. PowerOf2(x) < k
  <2>1. CASE x = 0
    BY <2>1, PowerOf2Step
  <2>2. CASE x # 0
    <3>1. x - 1 \in Nat /\ (x - 1) + 1 = x /\ x - 1 \in 0..(x - 1)
      BY <2>2
    <3>2. PowerOf2(x) = 2 * PowerOf2(x - 1)
      BY <3>1, PowerOf2Step
    <3> QED BY <1>2, <3>1, <3>2
  <2> QED BY <2>1, <2>2
<1>4. BitsBelow(k) = CHOOSE b \in 0..30 : Good(b)
  BY DEF BitsBelow
<1>5. Good(x)
  BY <1>1, <1>2, <1>3
<1> HIDE DEF Good
<1>6. Good(BitsBelow(k)) /\ BitsBelow(k) \in 0..30
  BY <1>4, <1>5
<1> QED BY <1>6 DEF Good

LEMMA BitsBelowType ==
  ASSUME NEW k \in Nat, 1 <= k, k <= PowerOf2(30)
  PROVE  BitsBelow(k) \in -1..30
<1>1. CASE k = 1
  BY <1>1 DEF BitsBelow
<1>2. CASE k # 1
  BY <1>2, BitsBelowIs
<1> QED BY <1>1, <1>2

\* Half the distance from k to the double before it: a power of two between a
\* quarter and a half of k * 2^h.
LEMMA HalfSpacing ==
  ASSUME NEW s \in Units, NEW k \in 1..(s - 1), NEW h \in 1..31, h = Doublings(k, s),
         s <= k * PowerOf2(h)
  PROVE  \E n \in Nat :
           /\ n = h + BitsBelow(k) - 1
           /\ 2 * PowerOf2(n) < k * PowerOf2(h) /\ k * PowerOf2(h) <= 4 * PowerOf2(n)
<1>1. s \in Nat /\ 1000 <= s /\ s <= 1000000000 /\ k \in Nat /\ 1 <= k /\ k < s
  BY UnitsAre
<1>2. PowerOf2(h) \in Nat /\ PowerOf2(h) >= 1
  BY PowerOf2Positive
<1>3. CASE k = 1
  <2>1. BitsBelow(k) = -1
    BY <1>3 DEF BitsBelow
  <2>2. h >= 2
    <3>1. h = 1 => PowerOf2(h) = 2
      <4>1. PowerOf2(0 + 1) = 2
        BY PowerOf2Step
      <4> QED BY <4>1
    <3> QED BY <1>1, <1>2, <1>3, <3>1
  <2>3. PICK n \in Nat : h = n + 2
    BY <2>2 , h - 2 \in Nat /\ h = (h - 2) + 2
  <2>4. PowerOf2(n + 1) = 2 * PowerOf2(n) /\ PowerOf2((n + 1) + 1) = 2 * PowerOf2(n + 1)
        /\ PowerOf2(n) \in Nat /\ PowerOf2(n) >= 1 /\ (n + 1) + 1 = n + 2
    BY PowerOf2Step, PowerOf2Positive
  <2>5. PowerOf2(h) = 4 * PowerOf2(n) /\ n = h + BitsBelow(k) - 1
    BY <2>1, <2>3, <2>4
  <2> QED BY <1>2, <1>3, <2>4, <2>5
<1>4. CASE k # 1
  <2>1. PICK b \in 0..30 : b = BitsBelow(k) /\ PowerOf2(b) < k /\ k <= 2 * PowerOf2(b)
    <3>1. 1 < k /\ k <= PowerOf2(30)
      BY <1>1, <1>4, PowersOf2, SMT
    <3> QED BY <1>1, <3>1, BitsBelowIs, SMT
  <2>2. PICK n \in Nat : n = h + b - 1
    OBVIOUS
  <2>0. b \in Nat /\ h \in Nat
    OBVIOUS
  <2>3. n + 1 = b + h
    BY <2>2
  <2>4. PowerOf2(n + 1) = 2 * PowerOf2(n) /\ PowerOf2(n) \in Nat
    BY PowerOf2Step, PowerOf2Positive
  <2>5. PowerOf2(b + h) = PowerOf2(b) * PowerOf2(h) /\ PowerOf2(b) \in Nat
    <3>1. \A x, y \in Nat : PowerOf2(x + y) = PowerOf2(x) * PowerOf2(y)
      BY PowerOf2Sum, Zenon
    <3> QED BY <2>0, <3>1, PowerOf2Positive, Zenon
  <2>6. 2 * PowerOf2(n) = PowerOf2(b) * PowerOf2(h)
    BY <2>3, <2>4, <2>5
  <2>7. PowerOf2(b) * PowerOf2(h) < k * PowerOf2(h)
    BY <1>1, <1>2, <2>1, <2>5
  <2>8. k * PowerOf2(h) <= (2 * PowerOf2(b)) * PowerOf2(h)
    BY <1>1, <1>2, <2>1, <2>5
  <2>9. (2 * PowerOf2(b)) * PowerOf2(h) = 4 * PowerOf2(n)
    <3>1. \A x, y \in Nat : (2 * x) * y = 2 * (x * y)
      OBVIOUS
    <3>2. (2 * PowerOf2(b)) * PowerOf2(h) = 2 * (PowerOf2(b) * PowerOf2(h))
      BY <1>2, <2>5, <3>1
    <3> QED BY <2>4, <2>6, <3>2
  <2> QED BY <2>1, <2>2, <2>6, <2>7, <2>8, <2>9
<1> QED BY <1>3, <1>4

\* Between these powers there is no other.
LEMMA NoPowerBetween ==
  ASSUME NEW n \in Nat
  PROVE  /\ PowerOf2(n) <= PowerOf2(8) \/ PowerOf2(n) >= PowerOf2(9)
         /\ PowerOf2(n) <= PowerOf2(18) \/ PowerOf2(n) >= PowerOf2(19)
         /\ PowerOf2(n) <= PowerOf2(28) \/ PowerOf2(n) >= PowerOf2(29)
<1>1. \A a, b \in Nat : a <= b => PowerOf2(a) <= PowerOf2(b)
  BY PowerOf2Grows
<1>2. n <= 8 \/ 9 <= n
  OBVIOUS
<1>3. n <= 18 \/ 19 <= n
  OBVIOUS
<1>4. n <= 28 \/ 29 <= n
  OBVIOUS
<1>5. 8 \in Nat /\ 9 \in Nat /\ 18 \in Nat /\ 19 \in Nat /\ 28 \in Nat /\ 29 \in Nat
  OBVIOUS
<1> QED BY <1>1, <1>2, <1>3, <1>4, <1>5

\* What 2^52 leaves of an even number from 1000 to 1998, divided by 1000.
LEMMA RestOfThousand ==
  ASSUME NEW q \in Nat, 1000 <= 2 * q, 2 * q < 2000, NEW rest \in Int, NEW d \in Nat,
         0 <= rest, 2 * rest < 1000, (2 * q) * 4503599627370496 = 1000 * d + rest
  PROVE  rest = 0 \/ 2 * q >= 1074
<1>1. PICK i \in Nat : q = 500 + i
  BY q - 500 \in Nat /\ q = 500 + (q - 500), SMT
<1>2. PICK j \in Int : rest + 8 * i = 1000 * j
  <2>1. rest + 8 * i = 1000 * (4503599627370496 + i * 9007199254741 - d)
    BY <1>1, SMT
  <2>2. 4503599627370496 + i * 9007199254741 - d \in Int
    BY SMT
  <2> QED BY <2>1, <2>2, SMT
<1> QED BY <1>1, <1>2, SMT

\* Units in a thousandth of a second.
Thousandths == {1, 1000, 1000000}

\* A whole number of thousandths is never read as less.
LEMMA ThousandthsExact ==
  ASSUME NEW c \in Thousandths, NEW ms \in 1..999
  PROVE  ~EndsBelow(ms * c, 1000 * c)
<1> DEFINE s == 1000 * c
           k == ms * c
<1>1. s \in Units /\ k \in 1..(s - 1) /\ s \in Nat /\ k \in Nat /\ c \in Nat /\ ms \in Nat
  BY UnitsAre, SMT DEF Thousandths
<1>2. PICK h \in 1..31 : h = Doublings(k, s) /\ s <= k * PowerOf2(h) /\ k * PowerOf2(h) < 2 * s
  <2> HIDE DEF s, k
  <2> QED BY <1>1, DoublingsIs, Zenon
<1>3. PICK n \in Nat :
        /\ n = h + BitsBelow(k) - 1
        /\ 2 * PowerOf2(n) < k * PowerOf2(h) /\ k * PowerOf2(h) <= 4 * PowerOf2(n)
  <2> HIDE DEF s, k
  <2> QED BY <1>1, <1>2, HalfSpacing, Zenon
<1>4. PICK e \in Nat : e = h + 52
  BY SMT
<1>5. PICK r \in 0..(s - 1), d \in Nat : r = DoubledMod(k, e, s) /\ k * PowerOf2(e) = d * s + r
  <2>1. k \in 0..(s - 1)
    BY <1>1, SMT
  <2> HIDE DEF s, k
  <2> QED BY <1>1, <2>1, DoubledModIs, Zenon
<1> SUFFICES ASSUME 2 * r < s, r > PowerOf2(n) PROVE FALSE
  <2> SUFFICES ASSUME EndsBelow(k, s) PROVE 2 * r < s /\ r > PowerOf2(n)
    OBVIOUS
  <2> HIDE DEF s, k
  <2>1. /\ 2 * DoubledMod(k, Doublings(k, s) + 52, s) < s
        /\ DoubledMod(k, Doublings(k, s) + 52, s)
             > PowerOf2(Doublings(k, s) + 52 + BitsBelow(k) - 53)
    BY Zenon DEF EndsBelow
  <2>2. 2 * r < s /\ r > PowerOf2(e + BitsBelow(k) - 53)
    BY <1>2, <1>4, <1>5, <2>1, SMT
  <2>3. PICK b : b = BitsBelow(k)
    OBVIOUS
  <2>4. b \in Int
    <3>1. 1 <= k /\ k <= PowerOf2(30)
      BY <1>1, UnitsAre, PowersOf2, SMT
    <3> QED BY <1>1, <2>3, <3>1, BitsBelowType, SMT
  <2>5. e + b - 53 = n
    BY <1>3, <1>4, <2>3, <2>4, SMT
  <2> QED BY <2>2, <2>3, <2>5, SMT
<1>6. PowerOf2(n) \in Nat \ {0} /\ PowerOf2(h) \in Nat
  BY PowerOf2Positive, SMT
<1>7. PICK q \in Nat : ms * PowerOf2(h) = 2 * q
  <2>1. h - 1 \in Nat /\ (h - 1) + 1 = h
    BY SMT
  <2>2. PowerOf2(h) = 2 * PowerOf2(h - 1) /\ PowerOf2(h - 1) \in Nat
    BY <2>1, PowerOf2Step, PowerOf2Positive, SMT
  <2>3. ms * PowerOf2(h) = 2 * (ms * PowerOf2(h - 1)) /\ ms * PowerOf2(h - 1) \in Nat
    BY <1>1, <2>2, SMT
  <2> QED BY <2>3
<1>8. k * PowerOf2(h) = c * (2 * q)
  BY <1>1, <1>6, <1>7, SMT
<1>9. 1000 <= 2 * q /\ 2 * q < 2000
  BY <1>1, <1>2, <1>8, SMT
<1>10. k * PowerOf2(e) = c * ((2 * q) * 4503599627370496)
  <2>1. PowerOf2(e) = PowerOf2(h) * 4503599627370496
    <3>1. PowerOf2(e) = PowerOf2(h) * PowerOf2(52)
      <4>1. \A a, b \in Nat : PowerOf2(a + b) = PowerOf2(a) * PowerOf2(b)
        BY PowerOf2Sum, Zenon
      <4>2. h \in Nat /\ 52 \in Nat
        BY SMT
      <4>3. PowerOf2(h + 52) = PowerOf2(h) * PowerOf2(52)
        BY <4>1, <4>2, SMT
      <4> QED BY <1>4, <4>3, SMT
    <3> QED BY <3>1, PowersOf2, SMT
  <2>2. k * PowerOf2(e) = (k * PowerOf2(h)) * 4503599627370496
    BY <1>1, <1>6, <2>1, SMT
  <2> QED BY <1>1, <1>8, <2>2, SMT
<1> DEFINE rest == (2 * q) * 4503599627370496 - 1000 * d
<1>11. rest \in Int
  BY <1>5, <1>7, SMT
<1>12. r = c * rest
  BY <1>1, <1>5, <1>10, SMT DEF Thousandths
<1>13. 0 <= rest /\ 2 * rest < 1000 /\ rest # 0
  <2> HIDE DEF rest
  <2> QED BY <1>1, <1>5, <1>6, <1>11, <1>12, SMT
<1>14. 2 * q >= 1074
  <2>1. (2 * q) * 4503599627370496 = 1000 * d + rest
    BY <1>5, <1>7, SMT
  <2> HIDE DEF rest
  <2> QED BY <1>5, <1>7, <1>9, <1>11, <1>13, <2>1, RestOfThousand, SMT
<1>15. c * 1074 <= 4 * PowerOf2(n) /\ 2 * PowerOf2(n) < 1000 * c
  BY <1>1, <1>3, <1>6, <1>8, <1>14, SMT
<1>16. /\ PowerOf2(n) <= 256 \/ PowerOf2(n) >= 512
       /\ PowerOf2(n) <= 262144 \/ PowerOf2(n) >= 524288
       /\ PowerOf2(n) <= 268435456 \/ PowerOf2(n) >= 536870912
  BY NoPowerBetween, PowersOf2, SMT
<1>17. c = 1 \/ c = 1000 \/ c = 1000000
  BY SMT DEF Thousandths
<1>18. PICK p \in Nat : p = PowerOf2(n)
  BY <1>6, SMT
<1> QED BY <1>15, <1>16, <1>17, <1>18, SMT

-----------------------------------------------------------------------------
(* What a fraction of a second is read as.                                 *)

Fracs == {n \in Nat : n < NanosPerSecond}

LEMMA FracsAre == Fracs = 0..(NanosPerSecond - 1)
<1>1. NanosPerSecond \in Nat
  BY SMT DEF NanosPerSecond
<1>2. \A m \in Nat : {n \in Nat : n < m} = 0..(m - 1)
  BY SMT
<1> QED BY <1>1, <1>2, SMT DEF Fracs

\* A unit in nanoseconds, and the units in a thousandth of a second.
LEMMA UnitSizes ==
  ASSUME NEW s \in Units
  PROVE  \/ s = 1000 /\ NanosPerSecond \div s = 1000000 /\ s \div 1000 = 1
         \/ s = 1000000 /\ NanosPerSecond \div s = 1000 /\ s \div 1000 = 1000
         \/ s = 1000000000 /\ NanosPerSecond \div s = 1 /\ s \div 1000 = 1000000
BY UnitsAre, SMT DEF NanosPerSecond

\* Whole units, less one at most, and that only where there is no rest.
LEMMA FractionIs ==
  ASSUME NEW s \in Units, NEW frac \in Fracs
  PROVE  \E k \in Nat, step \in Nat \ {0}, rest \in Nat :
           /\ step = NanosPerSecond \div s /\ k = frac \div step /\ rest = frac % step
           /\ frac = k * step + rest /\ rest < step /\ k < s
           /\ Fraction(frac, s) = IF rest = 0 /\ EndsBelow(k, s) THEN k - 1 ELSE k
<1>1. frac \in Nat /\ frac < 1000000000
  BY SMT DEF Fracs, NanosPerSecond
<1> DEFINE step == NanosPerSecond \div s
           k == frac \div step
           rest == frac % step
<1>2. /\ step \in Nat \ {0} /\ k \in Nat /\ rest \in Nat
      /\ frac = k * step + rest /\ rest < step /\ k < s
  <2>1. CASE s = 1000 /\ step = 1000000
    BY <1>1, <2>1, SMT
  <2>2. CASE s = 1000000 /\ step = 1000
    BY <1>1, <2>2, SMT
  <2>3. CASE s = 1000000000 /\ step = 1
    BY <1>1, <2>3, SMT
  <2> QED BY <2>1, <2>2, <2>3, UnitSizes, SMT
<1>3. Fraction(frac, s) = IF rest = 0 /\ EndsBelow(k, s) THEN k - 1 ELSE k
  BY SMT DEF Fraction
<1> HIDE DEF rest, k
<1>4. k = frac \div step /\ rest = frac % step
  BY SMT DEF k, rest
<1> HIDE DEF step
<1>5. step = NanosPerSecond \div s
  BY SMT DEF step
<1> SUFFICES /\ step = NanosPerSecond \div s /\ k = frac \div step /\ rest = frac % step
             /\ frac = k * step + rest /\ rest < step /\ k < s
             /\ Fraction(frac, s) = IF rest = 0 /\ EndsBelow(k, s) THEN k - 1 ELSE k
             /\ k \in Nat /\ step \in Nat \ {0} /\ rest \in Nat
  BY Zenon
<1> QED BY <1>2, <1>3, <1>4, <1>5, SMT

\* A greater fraction is read as no less.
LEMMA FractionGrows ==
  ASSUME NEW s \in Units, NEW f \in Fracs, NEW g \in Fracs, f <= g
  PROVE  Fraction(f, s) <= Fraction(g, s)
<1>1. PICK k \in Nat, step \in Nat \ {0}, a \in Nat :
        /\ step = NanosPerSecond \div s /\ k = f \div step /\ a = f % step
        /\ f = k * step + a /\ a < step /\ k < s
        /\ Fraction(f, s) = IF a = 0 /\ EndsBelow(k, s) THEN k - 1 ELSE k
  BY FractionIs, Zenon
<1>2. PICK m \in Nat, same \in Nat \ {0}, b \in Nat :
        /\ same = NanosPerSecond \div s /\ m = g \div same /\ b = g % same
        /\ g = m * same + b /\ b < same /\ m < s
        /\ Fraction(g, s) = IF b = 0 /\ EndsBelow(m, s) THEN m - 1 ELSE m
  BY FractionIs, Zenon
<1>3. /\ k \in Nat /\ m \in Nat /\ a \in Nat /\ b \in Nat /\ step \in Nat
      /\ f = k * step + a /\ a < step
      /\ g = m * step + b /\ b < step
      /\ Fraction(f, s) = IF a = 0 /\ EndsBelow(k, s) THEN k - 1 ELSE k
      /\ Fraction(g, s) = IF b = 0 /\ EndsBelow(m, s) THEN m - 1 ELSE m
  BY <1>1, <1>2, Zenon
<1>4. k <= m
  <2> SUFFICES ASSUME m + 1 <= k PROVE FALSE
    BY <1>3, SMT
  <2>1. (m + 1) * step <= k * step
    BY <1>3, SMT
  <2>2. (m + 1) * step = m * step + step
    BY <1>3, SMT
  <2>3. m * step \in Nat /\ k * step \in Nat
    BY <1>3, SMT
  <2> QED BY <1>3, <2>1, <2>2, <2>3, SMT
<1>5. CASE k < m
  BY <1>3, <1>5, SMT
<1>6. CASE k = m /\ ~(b = 0 /\ EndsBelow(m, s))
  BY <1>3, <1>6, SMT
<1>7. CASE k = m /\ b = 0 /\ EndsBelow(m, s)
  <2>1. k * step \in Nat
    BY <1>3, SMT
  <2>2. a = 0
    BY <1>3, <1>7, <2>1, SMT
  <2> QED BY <1>3, <1>7, <2>2, SMT
<1> QED BY <1>3, <1>4, <1>5, <1>6, <1>7, SMT

\* Thousandths are read as they are, in every unit.
LEMMA FractionOfThousandths ==
  ASSUME NEW s \in Units, NEW ms \in 0..999
  PROVE  /\ ms * 1000000 \in Fracs
         /\ Fraction(ms * 1000000, s) = ms * (s \div 1000)
         /\ ~EndsBelow(ms * (s \div 1000), s)
<1>1. ms * 1000000 \in Fracs
  BY SMT DEF Fracs, NanosPerSecond
<1>2. PICK c \in Thousandths : c = s \div 1000 /\ s = 1000 * c
  BY UnitSizes, SMT DEF Thousandths
<1>3. c \in Nat
  BY SMT DEF Thousandths
<1>4. ~EndsBelow(ms * c, s)
  <2>1. CASE ms = 0
    <3>1. ~(ms * c > 0)
      BY <1>3, <2>1, SMT
    <3> QED BY <3>1, SMT DEF EndsBelow
  <2>2. CASE ms # 0
    <3>1. ms \in 1..999
      BY <2>2, SMT
    <3>2. c \in Thousandths
      BY <1>2, Zenon
    <3>3. ~EndsBelow(ms * c, 1000 * c)
      BY <3>1, <3>2, ThousandthsExact, SMT
    <3> QED BY <1>2, <3>3, SMT
  <2> QED BY <2>1, <2>2
<1>5. (ms * 1000000) \div (NanosPerSecond \div s) = ms * c
  BY <1>2, UnitSizes, SMT
<1>6. Fraction(ms * 1000000, s) = ms * c
  BY <1>1, <1>4, <1>5, FractionIs, SMT
<1> QED BY <1>1, <1>2, <1>4, <1>6, SMT

LEMMA MillisecondsExact ==
  ASSUME NEW k \in 0..999
  PROVE  ~EndsBelow(k, 1000)
<1>1. CASE k = 0
  <2>1. ~(k > 0)
    BY <1>1, SMT
  <2> QED BY <2>1, SMT DEF EndsBelow
<1>2. CASE k # 0
  <2>1. PICK c \in Thousandths : c = 1
    BY SMT DEF Thousandths
  <2>2. k \in 1..999
    BY <1>2, SMT
  <2>3. ~EndsBelow(k * c, 1000 * c)
    <3>1. c \in Thousandths
      BY <2>1, Zenon
    <3> QED BY <2>2, <3>1, ThousandthsExact, SMT
  <2>4. k * c = k /\ 1000 * c = 1000
    BY <2>1, SMT
  <2> QED BY <2>3, <2>4, SMT
<1> QED BY <1>1, <1>2, Zenon

-----------------------------------------------------------------------------
(* Timestamps.                                                             *)

TimestampsInv ==
  /\ unit \in Units
  /\ text \in [sec : Nat, frac : Fracs, fields : 0..6]
  /\ value = to_units(text, unit)

LEMMA TimestampsInit == ConversionInit => TimestampsInv
<1> SUFFICES ASSUME ConversionInit PROVE TimestampsInv
  OBVIOUS
<1>1. unit \in Units /\ text = [sec |-> 0, frac |-> 0, fields |-> 0] /\ value = Zero
  BY Zenon DEF ConversionInit, Init
<1>2. 0 \in Fracs
  BY SMT DEF Fracs, NanosPerSecond
<1>3. text \in [sec : Nat, frac : Fracs, fields : 0..6] /\ text.fields < 6
  BY <1>1, <1>2, SMT
<1>4. value = to_units(text, unit)
  BY <1>1, <1>3, SMT DEF to_units
<1> QED BY <1>1, <1>3, <1>4, Zenon DEF TimestampsInv

\* What a text received is.
LEMMA ReceiveIs ==
  ASSUME ReadTimestamps
  PROVE  /\ text' \in [sec : Nat, frac : Fracs, fields : 0..6]
         /\ text'.sec > text.sec \/ (text'.sec = text.sec /\ text'.frac >= text.frac)
         /\ value' = to_units(text', unit) /\ unit' = unit
<1>1. PICK sec \in Seconds, frac \in Fractions, fields \in {5, 6} :
        Receive([sec |-> sec, frac |-> frac, fields |-> fields])
  BY SMT DEF ReadTimestamps, Next
<1> DEFINE t == [sec |-> sec, frac |-> frac, fields |-> fields]
<1>2. sec \in Nat /\ frac \in Fracs /\ fields \in 0..6
  <2>1. sec \in Nat /\ frac \in Fracs
    BY <1>1, TimestampAssumption, FracsAre, Zenon
  <2> QED BY <1>1, <2>1, SMT
<1>3. t \in [sec : Nat, frac : Fracs, fields : 0..6]
  BY <1>2, SMT
<1> HIDE DEF t
<1>4. /\ t.sec > text.sec \/ (t.sec = text.sec /\ t.frac >= text.frac)
      /\ text' = t /\ value' = to_units(t, unit) /\ unit' = unit
  BY <1>1, Zenon DEF Receive, t
<1> QED BY <1>3, <1>4, Zenon

LEMMA TimestampsNext ==
  TimestampsInv /\ [ReadTimestamps \/ PostPrices]_conversionVars => TimestampsInv'
<1> SUFFICES ASSUME TimestampsInv, [ReadTimestamps \/ PostPrices]_conversionVars
             PROVE  TimestampsInv'
  OBVIOUS
<1>1. CASE ReadTimestamps
  BY <1>1, ReceiveIs, Zenon DEF TimestampsInv
<1>2. CASE UNCHANGED vars
  BY <1>2, Zenon DEF TimestampsInv, vars
<1> QED BY <1>1, <1>2, Zenon DEF PostPrices, conversionVars

LEMMA TimestampsAlways == ConversionSpec => []TimestampsInv
BY TimestampsInit, TimestampsNext, PTL DEF ConversionSpec

(***************************************************************************)
(* Two texts of a feed, the later one after the earlier: the values they   *)
(* are read as stand in the same order, whatever was lost.                 *)
(***************************************************************************)
THEOREM OrderKeptCorrect == ConversionSpec => OrderKept
<1>1. ASSUME TimestampsInv, [ReadTimestamps \/ PostPrices]_conversionVars
      PROVE  [text.fields = 6 /\ text'.fields = 6 =>
                \/ value.sec < value'.sec
                \/ value.sec = value'.sec /\ value.part <= value'.part]_vars
  <2> SUFFICES ASSUME ReadTimestamps, text.fields = 6, text'.fields = 6
               PROVE  \/ value.sec < value'.sec
                      \/ value.sec = value'.sec /\ value.part <= value'.part
    BY <1>1, Zenon DEF PostPrices, conversionVars
  <2>1. /\ text' \in [sec : Nat, frac : Fracs, fields : 0..6]
        /\ text'.sec > text.sec \/ (text'.sec = text.sec /\ text'.frac >= text.frac)
        /\ value' = to_units(text', unit)
    BY ReceiveIs, Zenon
  <2>2. unit \in Units /\ text \in [sec : Nat, frac : Fracs, fields : 0..6]
        /\ value = to_units(text, unit)
    BY <1>1, Zenon DEF TimestampsInv
  <2>3. value.sec = text.sec /\ value.part = Fraction(text.frac, unit)
    BY <2>2, SMT DEF to_units
  <2>4. value'.sec = text'.sec /\ value'.part = Fraction(text'.frac, unit)
    BY <2>1, SMT DEF to_units
  <2>5. text.sec \in Nat /\ text'.sec \in Nat /\ text.frac \in Fracs /\ text'.frac \in Fracs
    BY <2>1, <2>2, SMT
  <2>6. CASE text'.sec > text.sec
    BY <2>3, <2>4, <2>5, <2>6, SMT
  <2>7. CASE text'.sec = text.sec /\ text'.frac >= text.frac
    <3>1. text.frac <= text'.frac
      BY <2>5, <2>7, SMT DEF Fracs
    <3>2. Fraction(text.frac, unit) <= Fraction(text'.frac, unit)
      BY <2>2, <2>5, <3>1, FractionGrows, Zenon
    <3> QED BY <2>3, <2>4, <2>7, <3>2, Zenon
  <2> QED BY <2>1, <2>6, <2>7, Zenon
<1> QED BY <1>1, TimestampsAlways, PTL DEF ConversionSpec, OrderKept

(***************************************************************************)
(* Three digits of a second survive the way to text and back, in every     *)
(* unit: milliseconds are whole thousandths, and no rounding of a double   *)
(* takes one away (ThousandthsExact).                                      *)
(***************************************************************************)
THEOREM RoundTripCorrect == ConversionSpec => []RoundTrip
<1>1. TimestampsInv => RoundTrip
  <2> SUFFICES ASSUME TimestampsInv,
                      NEW ms \in {text.frac \div 1000000, text.frac % 1000}
               PROVE  to_units(timestamp_to_string(text.sec, ms), unit)
                        = [sec |-> text.sec, part |-> ms * (unit \div 1000)]
    BY SMT DEF RoundTrip
  <2>1. unit \in Units /\ text.frac \in Fracs
    BY SMT DEF TimestampsInv
  <2>2. ms \in 0..999
    <3>1. text.frac \in Nat /\ text.frac < 1000000000
      BY <2>1, SMT DEF Fracs, NanosPerSecond
    <3> QED BY <3>1, SMT
  <2>3. Fraction(ms * 1000000, unit) = ms * (unit \div 1000)
    BY <2>1, <2>2, FractionOfThousandths, SMT
  <2> QED BY <2>3, SMT DEF to_units, timestamp_to_string
<1> QED BY <1>1, TimestampsAlways, PTL

(***************************************************************************)
(* A text is read as it stands or one unit too low, and milliseconds are   *)
(* read as they stand.                                                     *)
(***************************************************************************)
THEOREM WithinOneUnitCorrect == ConversionSpec => []WithinOneUnit
<1>1. TimestampsInv => WithinOneUnit
  <2> SUFFICES ASSUME TimestampsInv, text.fields = 6
               PROVE  LET exact == text.frac \div (NanosPerSecond \div unit)
                      IN  /\ value.sec = text.sec
                          /\ value.part \in {exact, exact - 1}
                          /\ unit = 1000 => value.part = exact
    BY Zenon DEF WithinOneUnit
  <2>1. unit \in Units /\ text.frac \in Fracs
    BY SMT DEF TimestampsInv
  <2>2. value.sec = text.sec /\ value.part = Fraction(text.frac, unit)
    BY SMT DEF TimestampsInv, to_units
  <2>3. PICK k \in Nat, step \in Nat \ {0}, rest \in Nat :
          /\ step = NanosPerSecond \div unit /\ k = text.frac \div step /\ rest = text.frac % step
          /\ text.frac = k * step + rest /\ rest < step /\ k < unit
          /\ Fraction(text.frac, unit) = IF rest = 0 /\ EndsBelow(k, unit) THEN k - 1 ELSE k
    BY <2>1, FractionIs, Zenon
  <2>4. unit = 1000 => ~EndsBelow(k, unit)
    <3> SUFFICES ASSUME unit = 1000 PROVE ~EndsBelow(k, unit)
      OBVIOUS
    <3>1. k \in Nat /\ k < unit
      BY <2>3, Zenon
    <3>2. k \in 0..999
      BY <3>1, SMT
    <3> QED BY <3>2, MillisecondsExact, SMT
  <2>5. value.part = k \/ value.part = k - 1
    BY <2>2, <2>3, Zenon
  <2>6. unit = 1000 => value.part = k
    BY <2>2, <2>3, <2>4, Zenon
  <2> QED BY <2>2, <2>3, <2>5, <2>6, Zenon
<1> QED BY <1>1, TimestampsAlways, PTL

-----------------------------------------------------------------------------
(* Prices.                                                                 *)

LEMMA PowersOf10 ==
  /\ PowerOf10(0) = 1 /\ PowerOf10(1) = 10 /\ PowerOf10(2) = 100 /\ PowerOf10(3) = 1000
  /\ PowerOf10(4) = 10000 /\ PowerOf10(5) = 100000 /\ PowerOf10(6) = 1000000
  /\ PowerOf10(7) = 10000000 /\ PowerOf10(8) = 100000000
<1>1. PowerOf10(0 + 1) = 10 /\ PowerOf10(0) = 1
  BY PowerOf10Step, SMT
<1>2. PowerOf10(1 + 1) = 100
  BY <1>1, PowerOf10Step, SMT
<1>3. PowerOf10(2 + 1) = 1000
  BY <1>2, PowerOf10Step, SMT
<1>4. PowerOf10(3 + 1) = 10000
  BY <1>3, PowerOf10Step, SMT
<1>5. PowerOf10(4 + 1) = 100000
  BY <1>4, PowerOf10Step, SMT
<1>6. PowerOf10(5 + 1) = 1000000
  BY <1>5, PowerOf10Step, SMT
<1>7. PowerOf10(6 + 1) = 10000000
  BY <1>6, PowerOf10Step, SMT
<1>8. PowerOf10(7 + 1) = 100000000
  BY <1>7, PowerOf10Step, SMT
<1> QED BY <1>1, <1>2, <1>3, <1>4, <1>5, <1>6, <1>7, <1>8, SMT

\* What the last decimal of an increment may be worth, in units of 10^-8.
LastDecimals == {1, 10, 100, 1000, 10000, 100000, 1000000, 10000000, 100000000}

LEMMA LastDecimal ==
  ASSUME NEW d \in 0..8
  PROVE  PowerOf10(8 - d) \in LastDecimals
<1>1. d = 0 \/ d = 1 \/ d = 2 \/ d = 3 \/ d = 4 \/ d = 5 \/ d = 6 \/ d = 7 \/ d = 8
  BY SMT
<1> QED BY <1>1, PowersOf10, SMT DEF LastDecimals

\* Whole last decimals and a rest; the largest price there is has no rest.
LEMMA DecimalsAndRest ==
  ASSUME NEW u \in LastDecimals, NEW n \in Nat
  PROVE  \E q \in Nat, r \in Nat :
           /\ q = n \div u /\ r = n % u
           /\ n = q * u + r /\ r < u
<1>1. u \in Nat \ {0}
  BY SMT DEF LastDecimals
<1> DEFINE q == n \div u
           r == n % u
<1>2. q \in Nat /\ r \in Nat /\ n = q * u + r /\ r < u
  BY SMT DEF LastDecimals
<1> HIDE DEF q, r
<1>3. q = n \div u /\ r = n % u
  BY SMT DEF q, r
<1> QED BY <1>2, <1>3, Zenon

LEMMA LastDecimalDivides ==
  ASSUME NEW u \in LastDecimals
  PROVE  \E z \in Nat : norm_factor = z * u
<1>1. /\ 100000000 = 100000000 * 1 /\ 100000000 = 10000000 * 10 /\ 100000000 = 1000000 * 100
      /\ 100000000 = 100000 * 1000 /\ 100000000 = 10000 * 10000 /\ 100000000 = 1000 * 100000
      /\ 100000000 = 100 * 1000000 /\ 100000000 = 10 * 10000000 /\ 100000000 = 1 * 100000000
  BY SMT
<1>2. \E z \in LastDecimals : norm_factor = z * u
  BY <1>1, SMT DEF LastDecimals, norm_factor
<1> QED BY <1>2, SMT DEF LastDecimals

\* The number of last decimals that Rounded leaves.
LEMMA RoundedIs ==
  ASSUME NEW u \in LastDecimals, NEW n \in Nat, ties \in BOOLEAN
  PROVE  \E q \in Nat, r \in Nat :
           /\ n = q * u + r /\ r < u
           /\ Rounded(n, u) = IF 2 * r > u \/ (2 * r = u /\ u > 1 /\ ties) THEN q * u + u ELSE q * u
<1>1. PICK q \in Nat, r \in Nat : q = n \div u /\ r = n % u /\ n = q * u + r /\ r < u
  BY DecimalsAndRest, Zenon
<1>2. Rounded(n, u) = IF 2 * r > u \/ (2 * r = u /\ u > 1 /\ ties) THEN q * u + u ELSE q * u
  BY <1>1, SMT DEF Rounded
<1> QED BY <1>1, <1>2, Zenon

\* At most half a last decimal is lost or won, and nothing when there is no rest.
LEMMA RoundedNear ==
  ASSUME NEW u \in LastDecimals, NEW n \in Nat, ties \in BOOLEAN
  PROVE  /\ Rounded(n, u) \in Nat
         /\ 2 * (Rounded(n, u) - n) <= u /\ 2 * (n - Rounded(n, u)) <= u
         /\ n % u = 0 => Rounded(n, u) = n
         /\ n <= norm_factor => Rounded(n, u) <= norm_factor
<1>1. PICK q \in Nat, r \in Nat :
        /\ n = q * u + r /\ r < u
        /\ Rounded(n, u) = IF 2 * r > u \/ (2 * r = u /\ u > 1 /\ ties) THEN q * u + u ELSE q * u
  BY RoundedIs, Zenon
<1>2. u \in Nat \ {0}
  BY SMT DEF LastDecimals
<1>3. q * u \in Nat
  BY <1>1, <1>2, SMT
<1>4. n % u = 0 => Rounded(n, u) = n
  <2> SUFFICES ASSUME n % u = 0 PROVE Rounded(n, u) = n
    OBVIOUS
  <2>1. PICK k \in Nat, a \in Nat : k = n \div u /\ a = n % u /\ n = k * u + a /\ a < u
    BY DecimalsAndRest, Zenon
  <2>2. a = 0 /\ k * u = n
    BY <1>2, <2>1, SMT
  <2>3. Rounded(n, u) = IF 2 * a > u \/ (2 * a = u /\ u > 1 /\ ties) THEN k * u + u ELSE k * u
    BY <2>1, SMT DEF Rounded
  <2> QED BY <1>2, <2>2, <2>3, SMT
<1>5. n <= norm_factor => Rounded(n, u) <= norm_factor
  <2> SUFFICES ASSUME n <= norm_factor PROVE Rounded(n, u) <= norm_factor
    OBVIOUS
  <2>1. PICK z \in Nat : norm_factor = z * u
    BY LastDecimalDivides, Zenon
  <2>2. z * u \in Nat
    BY <1>2, <2>1, SMT
  <2>3. CASE q + 1 <= z
    <3>1. (q + 1) * u <= z * u
      BY <1>1, <1>2, <2>1, <2>3, SMT
    <3>2. (q + 1) * u = q * u + u
      BY <1>1, <1>2, SMT
    <3> QED BY <1>1, <1>2, <1>3, <2>1, <2>2, <3>1, <3>2, SMT
  <2>4. CASE z <= q
    <3>1. z * u <= q * u
      BY <1>1, <1>2, <2>1, <2>4, SMT
    <3>2. r = 0 /\ q * u = z * u
      BY <1>1, <1>2, <1>3, <2>1, <2>2, <3>1, SMT
    <3> QED BY <1>1, <1>2, <2>1, <3>2, SMT
  <2> QED BY <1>1, <2>1, <2>3, <2>4, SMT
<1> QED BY <1>1, <1>2, <1>3, <1>4, <1>5, SMT

\* A greater number is rounded to no less.
LEMMA RoundedGrows ==
  ASSUME NEW u \in LastDecimals, NEW n \in Nat, NEW m \in Nat, n <= m, ties \in BOOLEAN
  PROVE  Rounded(n, u) <= Rounded(m, u)
<1>1. PICK q \in Nat, r \in Nat :
        /\ n = q * u + r /\ r < u
        /\ Rounded(n, u) = IF 2 * r > u \/ (2 * r = u /\ u > 1 /\ ties) THEN q * u + u ELSE q * u
  BY RoundedIs, Zenon
<1>2. PICK k \in Nat, a \in Nat :
        /\ m = k * u + a /\ a < u
        /\ Rounded(m, u) = IF 2 * a > u \/ (2 * a = u /\ u > 1 /\ ties) THEN k * u + u ELSE k * u
  BY RoundedIs, Zenon
<1>3. u \in Nat \ {0}
  BY SMT DEF LastDecimals
<1>4. q * u \in Nat /\ k * u \in Nat
  BY <1>1, <1>2, <1>3, SMT
<1>5. CASE q + 1 <= k
  <2>1. (q + 1) * u <= k * u /\ (q + 1) * u = q * u + u
    BY <1>1, <1>2, <1>3, <1>5, SMT
  <2> QED BY <1>1, <1>2, <1>3, <1>4, <2>1, SMT
<1>6. CASE k = q
  <2>1. r <= a
    BY <1>1, <1>2, <1>4, <1>6, SMT
  <2> QED BY <1>1, <1>2, <1>3, <1>4, <1>6, <2>1, SMT
<1>7. CASE k + 1 <= q
  <2>1. (k + 1) * u <= q * u /\ (k + 1) * u = k * u + u
    BY <1>1, <1>2, <1>3, <1>7, SMT
  <2> QED BY <1>1, <1>2, <1>3, <1>4, <2>1, SMT
<1> QED BY <1>1, <1>2, <1>5, <1>6, <1>7, SMT

Prices == [whole : Nat, nanos : {n \in Nat : n < 10 * norm_factor}, below : BOOLEAN]

\* The eight decimals are those of the price, or the last of them one higher.
LEMMA FixedIs ==
  ASSUME NEW p \in Prices
  PROVE  /\ fix_floating_error(p).whole = p.whole
         /\ fix_floating_error(p).units \in Nat
         /\ fix_floating_error(p).units <= norm_factor
         /\ fix_floating_error(p).units \in {p.nanos \div 10, p.nanos \div 10 + 1}
         /\ p.nanos % 10 = 0 => fix_floating_error(p).units = p.nanos \div 10
<1>1. p.nanos \in Nat /\ p.nanos < 1000000000
  BY SMT DEF Prices, norm_factor
<1>2. /\ fix_floating_error(p).whole = p.whole
      /\ fix_floating_error(p).units =
           IF (p.nanos + 1) % 10 = 0 /\ p.below THEN (p.nanos + 1) \div 10 - 1
                                                ELSE (p.nanos + 1) \div 10
  BY SMT DEF fix_floating_error
<1> QED BY <1>1, <1>2, SMT DEF norm_factor

LEMMA FixedGrows ==
  ASSUME NEW p \in Prices, NEW q \in Prices, p.nanos < q.nanos
  PROVE  fix_floating_error(p).units <= fix_floating_error(q).units
<1>1. p.nanos \in Nat /\ q.nanos \in Nat
  BY SMT DEF Prices
<1> QED BY <1>1, SMT DEF fix_floating_error

\* The increments, with the one made up for a product that is not known.
IncrementsAndNone == [factor : {0, 1, 2, 5, 25}, decimals : 0..8]

NumbersInv ==
  /\ increment \in IncrementsAndNone
  /\ ties \in BOOLEAN
  /\ price \in Prices
  /\ posted = to_string(price, increment)

\* A whole unit is carried, and the rest is what Rounded left.
LEMMA ToStringIs ==
  ASSUME NEW p \in Prices, NEW inc \in IncrementsAndNone, ties \in BOOLEAN
  PROVE  \E u \in LastDecimals, n \in Nat, r \in Nat :
           /\ u = PowerOf10(8 - inc.decimals)
           /\ n = fix_floating_error(p).units /\ n <= norm_factor
           /\ r = Rounded(n, u) /\ r <= norm_factor
           /\ to_string(p, inc).whole = IF r = norm_factor THEN p.whole + 1 ELSE p.whole
           /\ to_string(p, inc).units = IF r = norm_factor THEN 0 ELSE r
<1>1. PICK u \in LastDecimals : u = PowerOf10(8 - inc.decimals)
  <2>1. inc.decimals \in 0..8
    BY SMT DEF IncrementsAndNone
  <2> QED BY <2>1, LastDecimal, SMT
<1>2. PICK n \in Nat :
        n = fix_floating_error(p).units /\ n <= norm_factor /\ fix_floating_error(p).whole = p.whole
  BY FixedIs, SMT
<1>3. PICK r \in Nat : r = Rounded(n, u) /\ r <= norm_factor
  BY <1>1, <1>2, RoundedNear, SMT
<1>4. /\ to_string(p, inc).whole = p.whole + r \div norm_factor
      /\ to_string(p, inc).units = r % norm_factor
  BY <1>1, <1>2, <1>3, SMT DEF to_string, compute_number_decimals
<1>5. /\ r \div norm_factor = IF r = norm_factor THEN 1 ELSE 0
      /\ r % norm_factor = IF r = norm_factor THEN 0 ELSE r
  BY <1>3, SMT DEF norm_factor
<1>6. p.whole \in Nat
  BY SMT DEF Prices
<1>7. /\ to_string(p, inc).whole = IF r = norm_factor THEN p.whole + 1 ELSE p.whole
      /\ to_string(p, inc).units = IF r = norm_factor THEN 0 ELSE r
  BY <1>4, <1>5, <1>6, SMT
<1> QED BY <1>1, <1>2, <1>3, <1>7, Zenon

LEMMA NumbersInitially == ConversionInit => NumbersInv
<1> SUFFICES ASSUME ConversionInit PROVE NumbersInv
  OBVIOUS
<1>1. /\ increment \in Increments \cup {NoIncrement} /\ ties \in BOOLEAN
      /\ price = [whole |-> 0, nanos |-> 0, below |-> FALSE]
      /\ posted = [whole |-> 0, units |-> 0]
  BY Zenon DEF ConversionInit, NumbersInit
<1>2. increment \in IncrementsAndNone
  <2>1. NoIncrement \in IncrementsAndNone
    BY SMT DEF NoIncrement, IncrementsAndNone
  <2>2. Increments \subseteq IncrementsAndNone
    BY NumbersAssumption, SMT DEF IncrementsAndNone
  <2> QED BY <1>1, <2>1, <2>2, Zenon
<1>3. price \in Prices /\ price.nanos = 0 /\ price.whole = 0
  BY <1>1, SMT DEF Prices, norm_factor
<1>4. posted = to_string(price, increment)
  <2>1. PICK u \in LastDecimals : u = PowerOf10(8 - increment.decimals)
    BY <1>1, <1>2, <1>3, ToStringIs, Zenon
  <2>2. fix_floating_error(price).units = 0 /\ fix_floating_error(price).whole = 0
    BY <1>3, FixedIs, SMT
  <2>3. Rounded(0, u) = 0
    <3>1. 0 % u = 0
      BY <2>1, SMT DEF LastDecimals
    <3> QED BY <1>1, <2>1, <3>1, RoundedNear, SMT
  <2> QED BY <1>1, <2>1, <2>2, <2>3, SMT DEF to_string, compute_number_decimals, norm_factor
<1> QED BY <1>1, <1>2, <1>3, <1>4, Zenon DEF NumbersInv

\* What a price posted is.
LEMMA PostIs ==
  ASSUME PostPrices
  PROVE  /\ price' \in Prices /\ Below(price, price')
         /\ posted' = to_string(price', increment)
         /\ increment' = increment /\ ties' = ties
<1>1. PICK p \in Doubles : Post(p)
  BY Zenon DEF PostPrices, NumbersNext
<1>2. p \in Prices
  <2>1. 10 * norm_factor \in Nat /\ Limit \in Nat
    BY SMT DEF norm_factor, Limit
  <2>2. \A m \in Nat : 0..(m - 1) = {n \in Nat : n < m} /\ 0..m \subseteq Nat
    BY SMT
  <2>3. Wholes \subseteq Nat /\ Nanos \subseteq {n \in Nat : n < 10 * norm_factor}
    BY <2>1, <2>2, NumbersAssumption, SMT
  <2> QED BY <1>1, <2>3, Zenon DEF Doubles, Prices
<1> QED BY <1>1, <1>2, Zenon DEF Post

LEMMA NumbersStep ==
  NumbersInv /\ [ReadTimestamps \/ PostPrices]_conversionVars => NumbersInv'
<1> SUFFICES ASSUME NumbersInv, [ReadTimestamps \/ PostPrices]_conversionVars
             PROVE  NumbersInv'
  OBVIOUS
<1>1. CASE PostPrices
  <2>1. /\ price' \in Prices /\ posted' = to_string(price', increment)
        /\ increment' = increment /\ ties' = ties
    BY <1>1, PostIs, Zenon
  <2>2. posted' = to_string(price, increment)'
    BY <2>1, Zenon DEF to_string, Rounded
  <2> QED BY <2>1, <2>2, Zenon DEF NumbersInv
<1>2. CASE UNCHANGED numberVars
  <2>1. increment' = increment /\ ties' = ties /\ price' = price /\ posted' = posted
    BY <1>2, Zenon DEF numberVars
  <2>2. to_string(price, increment)' = to_string(price, increment)
    BY <2>1, Zenon DEF to_string, Rounded
  <2> QED BY <2>1, <2>2, Zenon DEF NumbersInv
<1> QED BY <1>1, <1>2, Zenon DEF ReadTimestamps, conversionVars, numberVars

LEMMA NumbersAlways == ConversionSpec => []NumbersInv
BY NumbersInitially, NumbersStep, PTL DEF ConversionSpec

(***************************************************************************)
(* A price that is a multiple of its product's increment is posted digit   *)
(* for digit, wherever the double that holds it lies.                      *)
(***************************************************************************)
THEOREM PriceKeptCorrect == ConversionSpec => []PriceKept
<1>1. NumbersInv => PriceKept
  <2> SUFFICES ASSUME NumbersInv, OnIncrement
               PROVE  posted = [whole |-> price.whole, units |-> price.nanos \div 10]
    BY Zenon DEF PriceKept
  <2>1. /\ increment \in IncrementsAndNone /\ ties \in BOOLEAN /\ price \in Prices
        /\ posted = to_string(price, increment)
    BY Zenon DEF NumbersInv
  <2>2. PICK u \in LastDecimals, n \in Nat, r \in Nat :
          /\ u = PowerOf10(8 - increment.decimals)
          /\ n = fix_floating_error(price).units /\ n <= norm_factor
          /\ r = Rounded(n, u) /\ r <= norm_factor
          /\ to_string(price, increment).whole = IF r = norm_factor THEN price.whole + 1 ELSE price.whole
          /\ to_string(price, increment).units = IF r = norm_factor THEN 0 ELSE r
    BY <2>1, ToStringIs, Zenon
  <2>3. price.nanos % (10 * u) = 0
    BY <2>2, Zenon DEF OnIncrement
  <2>4. price.nanos \in Nat /\ price.nanos < 1000000000
    BY <2>1, SMT DEF Prices, norm_factor
  <2>5. price.nanos % 10 = 0 /\ (price.nanos \div 10) % u = 0
    BY <2>2, <2>3, <2>4, SMT DEF LastDecimals
  <2>6. n = price.nanos \div 10
    BY <2>1, <2>2, <2>5, FixedIs, SMT
  <2>7. r = n
    BY <2>1, <2>2, <2>5, <2>6, RoundedNear, SMT
  <2>8. r # norm_factor
    BY <2>4, <2>6, <2>7, SMT DEF norm_factor
  <2>9. to_string(price, increment) = [whole |-> to_string(price, increment).whole,
                                       units |-> to_string(price, increment).units]
    BY SMT DEF to_string
  <2> QED BY <2>1, <2>2, <2>6, <2>7, <2>8, <2>9, Zenon
<1> QED BY <1>1, NumbersAlways, PTL

(***************************************************************************)
(* A price off the increment is posted within half a last decimal, and at  *)
(* most the next whole number up.                                          *)
(***************************************************************************)
THEOREM PriceNearCorrect == ConversionSpec => []PriceNear
<1>1. NumbersInv => PriceNear
  <2> SUFFICES ASSUME NumbersInv PROVE PriceNear
    OBVIOUS
  <2>1. /\ increment \in IncrementsAndNone /\ ties \in BOOLEAN /\ price \in Prices
        /\ posted = to_string(price, increment)
    BY Zenon DEF NumbersInv
  <2>2. PICK u \in LastDecimals, n \in Nat, r \in Nat :
          /\ u = PowerOf10(8 - increment.decimals)
          /\ n = fix_floating_error(price).units /\ n <= norm_factor
          /\ r = Rounded(n, u) /\ r <= norm_factor
          /\ to_string(price, increment).whole = IF r = norm_factor THEN price.whole + 1 ELSE price.whole
          /\ to_string(price, increment).units = IF r = norm_factor THEN 0 ELSE r
    BY <2>1, ToStringIs, Zenon
  <2>3. PICK a \in Int : a = price.nanos \div 10 /\ (n = a \/ n = a + 1)
    <3>1. price.nanos \in Nat
      BY <2>1, SMT DEF Prices
    <3> QED BY <2>1, <2>2, <3>1, FixedIs, SMT
  <2>4. u \in Nat /\ 2 * (r - n) <= u /\ 2 * (n - r) <= u
    <3>1. u \in Nat
      BY <2>2, SMT DEF LastDecimals
    <3> QED BY <2>1, <2>2, <3>1, RoundedNear, SMT
  <2>5. price.whole \in Nat
    BY <2>1, SMT DEF Prices
  <2>6. PICK w \in Int, v \in Int : w = posted.whole /\ v = posted.units
    BY <2>1, <2>2, <2>5, SMT
  <2>7. /\ w - price.whole \in {0, 1}
        /\ (w - price.whole) * norm_factor + v = r
    BY <2>1, <2>2, <2>5, <2>6, SMT DEF norm_factor
  <2>8. 2 * (r - a) \in (-u - 2)..(u + 2)
    BY <2>2, <2>3, <2>4, SMT
  <2>9. (posted.whole - price.whole) * norm_factor + posted.units - price.nanos \div 10 = r - a
    <3>1. norm_factor \in Nat
      BY SMT DEF norm_factor
    <3> QED BY <2>3, <2>6, <2>7, <3>1, SMT
  <2>10. posted.whole - price.whole \in {0, 1}
    BY <2>6, <2>7, Zenon
  <2> QED BY <2>2, <2>8, <2>9, <2>10, Zenon DEF PriceNear
<1> QED BY <1>1, NumbersAlways, PTL

(***************************************************************************)
(* A higher price of the same product is never posted lower.               *)
(***************************************************************************)
THEOREM PriceOrderKeptCorrect == ConversionSpec => PriceOrderKept
<1>1. ASSUME NumbersInv, [ReadTimestamps \/ PostPrices]_conversionVars
      PROVE  [\/ posted.whole < posted'.whole
              \/ posted.whole = posted'.whole /\ posted.units <= posted'.units]_numberVars
  <2> SUFFICES ASSUME PostPrices
               PROVE  \/ posted.whole < posted'.whole
                      \/ posted.whole = posted'.whole /\ posted.units <= posted'.units
    BY <1>1, Zenon DEF ReadTimestamps, conversionVars
  <2>1. /\ increment \in IncrementsAndNone /\ ties \in BOOLEAN /\ price \in Prices
        /\ posted = to_string(price, increment)
    BY <1>1, Zenon DEF NumbersInv
  <2>2. PICK p \in Prices : p = price' /\ Below(price, p) /\ posted' = to_string(p, increment)
    BY PostIs, Zenon
  <2>3. PICK u \in LastDecimals, n \in Nat, r \in Nat :
          /\ u = PowerOf10(8 - increment.decimals)
          /\ n = fix_floating_error(price).units /\ n <= norm_factor
          /\ r = Rounded(n, u) /\ r <= norm_factor
          /\ to_string(price, increment).whole = IF r = norm_factor THEN price.whole + 1 ELSE price.whole
          /\ to_string(price, increment).units = IF r = norm_factor THEN 0 ELSE r
    BY <2>1, ToStringIs, Zenon
  <2>4. PICK same \in LastDecimals, m \in Nat, s \in Nat :
          /\ same = PowerOf10(8 - increment.decimals)
          /\ m = fix_floating_error(p).units /\ m <= norm_factor
          /\ s = Rounded(m, same) /\ s <= norm_factor
          /\ to_string(p, increment).whole = IF s = norm_factor THEN p.whole + 1 ELSE p.whole
          /\ to_string(p, increment).units = IF s = norm_factor THEN 0 ELSE s
    BY <2>1, ToStringIs, Zenon
  <2>5. price.whole \in Nat /\ p.whole \in Nat /\ norm_factor \in Nat \ {0}
    BY <2>1, <2>2, SMT DEF Prices, norm_factor
  <2>6. CASE price.whole < p.whole
    BY <2>1, <2>2, <2>3, <2>4, <2>5, <2>6, SMT
  <2>7. CASE price.whole = p.whole /\ price.nanos < p.nanos
    <3>1. n <= m
      BY <2>1, <2>2, <2>3, <2>4, <2>7, FixedGrows, Zenon
    <3>2. r <= s
      BY <2>1, <2>3, <2>4, <3>1, RoundedGrows, Zenon
    <3> QED BY <2>1, <2>2, <2>3, <2>4, <2>5, <2>7, <3>2, SMT
  <2> QED BY <2>2, <2>6, <2>7, Zenon DEF Below
<1> QED BY <1>1, NumbersAlways, PTL DEF ConversionSpec, PriceOrderKept

=============================================================================
