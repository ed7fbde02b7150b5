---------------------------- MODULE FaresProofs ----------------------------
(***************************************************************************)
(* Proofs about checkout (module Fares) and what it is made of (Segments,  *)
(* Routes, FareRules, Quotes), for any width of a word, any routes,        *)
(* vessels, requests, quotes and rulesets.                                 *)
(*                                                                         *)
(* The words. A number below a power of two is its set of bits, shown by   *)
(* halving (BitsByHalves, WordExists); the mask of a span is its segments  *)
(* (MaskOfSpan), and signed reading is one to one. From then on rows are   *)
(* sets (WordsAreSets).                                                    *)
(*                                                                         *)
(* The rules. A switch that began alone still is, until another one begins;*)
(* it has then seen all active rows (Undivided) and leaves its own as the  *)
(* only one.                                                               *)
(*                                                                         *)
(* The quote. Every price in a request's locals and in a token is the one  *)
(* its ruleset gives for its own line at the day of the token (PricedRight,*)
(* TokenHolds); a line of an order gets the price of a line that is equal  *)
(* to it, which there is because prices and lines go together (AllPriced). *)
(*                                                                         *)
(* The ledger. Each row is exactly what is sold of it (SeatExact,          *)
(* PoolExact), and every step is quiet, or one cart more, or one cart less *)
(* (Quietly, Takes, Gives); a cart has one line at most for a row, so that *)
(* each row is claimed or released once. The occupancy read off such rows  *)
(* is one of Quotes, whose theorems then hold of a checkout too.           *)
(***************************************************************************)
EXTENDS Fares, FiniteSetTheorems, WellFoundedInduction, TLAPS

-----------------------------------------------------------------------------
(* Numbers *)

\* A set of numbers has a least one.
LEMMA LeastNumber ==
  ASSUME NEW T \in SUBSET Nat, T # {}
  PROVE  \E n \in T : \A m \in T : n <= m
<1> DEFINE R == OpToRel(<, Nat)
<1>1. IsWellFoundedOn(R, Nat)
  BY NatLessThanWellFounded
<1>2. PICK n \in T : \A m \in T : ~(<<m, n>> \in R)
  <2> HIDE DEF R
  <2> QED
    BY <1>1, WFMin
<1>3. \A m \in T : ~(m < n)
  BY <1>2 DEF OpToRel
<1> QED
  BY <1>3

\* What holds for zero and with a number for the next holds for all.
LEMMA Induction ==
  ASSUME NEW T \in SUBSET Nat, 0 \in T, \A n \in T : n + 1 \in T
  PROVE  \A n \in Nat : n \in T
<1>1. SUFFICES ASSUME Nat \ T # {} PROVE FALSE
  OBVIOUS
<1>2. PICK n \in Nat \ T : \A m \in Nat \ T : n <= m
  BY <1>1, LeastNumber
<1>3. n # 0 /\ n - 1 \in Nat /\ n - 1 \in T
  BY <1>2
<1> QED
  BY <1>2, <1>3

\* The least of a set.
LEMMA LeastIs ==
  ASSUME NEW S \in SUBSET Int, NEW x \in S, \A y \in S : x <= y
  PROVE  Min(S) = x
<1>1. Min(S) \in S /\ \A y \in S : Min(S) <= y
  BY DEF Min
<1>2. PICK y \in Int : y = Min(S)
  BY <1>1
<1>3. x \in Int /\ x <= y /\ y <= x
  BY <1>1, <1>2
<1> QED
  BY <1>2, <1>3

\* Over a finite set a measure has its largest value somewhere: a smallest set
\* without one would have one again without one of its members.
LEMMA Largest ==
  ASSUME NEW S, IsFiniteSet(S), S # {}, NEW h \in [S -> Nat]
  PROVE  \E s \in S : \A t \in S : h[t] <= h[s]
<1> DEFINE Topped(A) == \E s \in A : \A t \in A : h[t] <= h[s]
           Bad(n) == \E A \in SUBSET S : IsFiniteSet(A) /\ A # {} /\ Cardinality(A) = n /\ ~Topped(A)
           T == {n \in Nat : Bad(n)}
<1>1. SUFFICES ASSUME ~Topped(S) PROVE FALSE
  OBVIOUS
<1>2. T # {}
  <2>1. Cardinality(S) \in Nat
    BY FS_CardinalityType
  <2>2. Bad(Cardinality(S))
    BY <1>1
  <2> QED
    BY <2>1, <2>2
<1>3. PICK n \in T : \A m \in T : n <= m
  <2> HIDE DEF T
  <2>1. T \in SUBSET Nat
    BY DEF T
  <2> QED
    BY <1>2, <2>1, LeastNumber
<1>4. PICK A \in SUBSET S : IsFiniteSet(A) /\ A # {} /\ Cardinality(A) = n /\ ~Topped(A)
  BY <1>3
<1>5. PICK x \in A : TRUE
  BY <1>4
<1> DEFINE B == A \ {x}
<1>6. IsFiniteSet(B) /\ Cardinality(B) = n - 1 /\ Cardinality(B) \in Nat
  BY <1>4, FS_RemoveElement, FS_CardinalityType
<1>7. B # {}
  BY <1>4, <1>5
<1>8. Topped(B)
  <2>1. n - 1 \notin T
    BY <1>3, <1>6
  <2> QED
    BY <2>1, <1>4, <1>6, <1>7
<1>9. PICK s \in B : \A t \in B : h[t] <= h[s]
  BY <1>8
<1>10. h[s] \in Nat /\ h[x] \in Nat /\ \A t \in B : h[t] \in Nat
  BY <1>4, <1>5, <1>9
<1>11. CASE h[x] <= h[s]
  BY <1>4, <1>9, <1>11
<1>12. CASE h[s] <= h[x]
  <2>1. \A t \in B : h[t] <= h[x]
    BY <1>9, <1>10, <1>12
  <2>2. \A t \in A : h[t] <= h[x]
    BY <2>1, <1>10
  <2> QED
    BY <1>4, <1>5, <2>2
<1> QED
  BY <1>10, <1>11, <1>12

-----------------------------------------------------------------------------
(* Words *)

IsPower(f, n) == f = [k \in 0..n |-> IF k = 0 THEN 1 ELSE 2 * f[k - 1]]

LEMMA PowerExists == \A n \in Nat : \E f : IsPower(f, n)
<1> DEFINE T == {n \in Nat : \E f : IsPower(f, n)}
<1>1. 0 \in T
  <2>1. IsPower([k \in 0..0 |-> 1], 0)
    BY DEF IsPower
  <2> QED
    BY <2>1
<1>2. ASSUME NEW n \in T PROVE n + 1 \in T
  <2>1. PICK f : IsPower(f, n)
    OBVIOUS
  <2> DEFINE g == [k \in 0..n + 1 |-> IF k = 0 THEN 1 ELSE 2 * f[k - 1]]
  <2>2. \A k \in 0..n : g[k] = f[k]
    BY <2>1 DEF IsPower
  <2>3. \A k \in 0..n + 1 : k # 0 => k - 1 \in 0..n
    OBVIOUS
  <2>4. \A k \in 0..n + 1 : k # 0 => g[k - 1] = f[k - 1]
    BY <2>2, <2>3
  <2>5. g = [k \in 0..n + 1 |-> IF k = 0 THEN 1 ELSE 2 * g[k - 1]]
    BY <2>4
  <2>6. IsPower(g, n + 1)
    <3> HIDE DEF g
    <3> QED
      BY <2>5 DEF IsPower
  <2> QED
    BY <2>6
<1> QED
  <2> HIDE DEF T
  <2>1. \A n \in Nat : n \in T
    BY <1>1, <1>2, Induction DEF T
  <2> QED
    BY <2>1 DEF T

LEMMA PowerIsOne ==
  /\ Power[0] = 1
  /\ \A k \in Positions : Power[k + 1] = 2 * Power[k]
<1>1. PICK f : IsPower(f, MaxSegments)
  BY PowerExists, RoutesAssumption
<1>2. IsPower(Power, MaxSegments)
  BY <1>1 DEF IsPower, Power
<1>3. \A k \in Positions : k + 1 \in 0..MaxSegments /\ k + 1 # 0 /\ (k + 1) - 1 = k
  BY RoutesAssumption DEF Positions
<1> QED
  BY <1>2, <1>3, RoutesAssumption DEF IsPower

LEMMA PowerType == \A k \in 0..MaxSegments : Power[k] \in Nat \ {0}
<1> DEFINE T == {n \in Nat : n <= MaxSegments => Power[n] \in Nat \ {0}}
<1>1. 0 \in T
  BY PowerIsOne
<1>2. ASSUME NEW n \in T PROVE n + 1 \in T
  BY PowerIsOne, RoutesAssumption DEF Positions
<1>3. \A n \in Nat : n \in T
  <2> HIDE DEF T
  <2> QED
    BY <1>1, <1>2, Induction DEF T
<1> QED
  BY <1>3, RoutesAssumption

\* A quotient is what leaves a remainder below the divisor.
LEMMA Quotient ==
  ASSUME NEW p \in Nat \ {0}, NEW q \in Int, NEW r \in 0..p - 1
  PROVE  (q * p + r) \div p = q /\ (q * p + r) % p = r
OBVIOUS

LEMMA Divided ==
  ASSUME NEW a \in Int, NEW p \in Nat \ {0}
  PROVE  /\ a \div p \in Int /\ a % p \in 0..p - 1
         /\ a = (a \div p) * p + (a % p)
         /\ a \in Nat => a \div p \in Nat
OBVIOUS

LEMMA Halving ==
  ASSUME NEW w \in Nat, NEW p \in Nat \ {0}
  PROVE  w \div (2 * p) = (w \div 2) \div p
<1>1. PICK h \in Nat, b \in 0..1 : w = 2 * h + b /\ w \div 2 = h
  OBVIOUS
<1>2. PICK q \in Nat, r \in 0..p - 1 : h = q * p + r /\ h \div p = q
  BY Divided
<1>3. w = q * (2 * p) + (2 * r + b)
  BY <1>1, <1>2
<1>4. 2 * r + b \in 0..2 * p - 1 /\ 2 * p \in Nat \ {0}
  OBVIOUS
<1>5. w \div (2 * p) = q
  BY <1>3, <1>4, Quotient
<1> QED
  BY <1>1, <1>2, <1>5

\* Bit k of a word.
Bit(w, k) == (w \div Power[k]) % 2 = 1

LEMMA BitsByHalves ==
  ASSUME NEW w \in Nat
  PROVE  /\ w \div 2 \in Nat
         /\ Bit(w, 0) <=> w % 2 = 1
         /\ \A k \in Positions : k + 1 \in Positions => (Bit(w, k + 1) <=> Bit(w \div 2, k))
<1>1. w \div 2 \in Nat /\ w \div 1 = w
  OBVIOUS
<1>2. ASSUME NEW k \in Positions, k + 1 \in Positions
      PROVE  w \div Power[k + 1] = (w \div 2) \div Power[k]
  <2>1. Power[k + 1] = 2 * Power[k] /\ Power[k] \in Nat \ {0}
    BY PowerIsOne, PowerType, RoutesAssumption DEF Positions
  <2> QED
    BY <2>1, Halving
<1> QED
  BY <1>1, <1>2, PowerIsOne DEF Bit

\* Two words of n bits with the same bits are the same.
LEMMA WordsDiffer ==
  ASSUME NEW n \in Nat, n <= MaxSegments, NEW v \in 0..Power[n] - 1, NEW w \in 0..Power[n] - 1,
         \A k \in 0..n - 1 : Bit(v, k) <=> Bit(w, k)
  PROVE  v = w
<1> DEFINE Same(i, x, y) == \A k \in 0..i - 1 : Bit(x, k) <=> Bit(y, k)
           Differ(i) == i <= MaxSegments =>
                          \A x, y \in 0..Power[i] - 1 : Same(i, x, y) => x = y
           T == {i \in Nat : Differ(i)}
<1>1. 0 \in T
  BY PowerIsOne
<1>2. ASSUME NEW i \in T PROVE i + 1 \in T
  <2>1. SUFFICES ASSUME i + 1 <= MaxSegments, NEW x \in 0..Power[i + 1] - 1,
                        NEW y \in 0..Power[i + 1] - 1, Same(i + 1, x, y)
                 PROVE  x = y
    OBVIOUS
  <2>2. /\ i \in Nat /\ i \in Positions /\ Power[i + 1] = 2 * Power[i] /\ Power[i] \in Nat \ {0}
        /\ 0 \in Positions
    BY <2>1, PowerIsOne, PowerType, RoutesAssumption DEF Positions
  <2>3. /\ x \in Nat /\ y \in Nat
        /\ x \div 2 \in 0..Power[i] - 1 /\ y \div 2 \in 0..Power[i] - 1
    BY <2>2
  <2>4. x % 2 = y % 2
    <3>1. Bit(x, 0) <=> Bit(y, 0)
      BY <2>1, <2>2
    <3>2. x % 2 = 1 <=> y % 2 = 1
      BY <2>3, <3>1, BitsByHalves
    <3> QED
      BY <2>3, <3>2
  <2>5. Same(i, x \div 2, y \div 2)
    <3> SUFFICES ASSUME NEW k \in 0..i - 1 PROVE Bit(x \div 2, k) <=> Bit(y \div 2, k)
      OBVIOUS
    <3>1. k \in Positions /\ k + 1 \in Positions /\ k + 1 \in 0..(i + 1) - 1
      BY <2>1, <2>2, RoutesAssumption DEF Positions
    <3>2. Bit(x, k + 1) <=> Bit(y, k + 1)
      BY <2>1, <3>1
    <3> QED
      BY <2>3, <3>1, <3>2, BitsByHalves
  <2>6. x \div 2 = y \div 2
    <3>1. i <= MaxSegments
      BY <2>1, <2>2, RoutesAssumption
    <3>2. \A p, q \in 0..Power[i] - 1 : Same(i, p, q) => p = q
      BY <3>1
    <3> HIDE DEF Same
    <3> QED
      BY <2>3, <2>5, <3>2
  <2> QED
    BY <2>3, <2>4, <2>6
<1>3. \A i \in Nat : i \in T
  <2> HIDE DEF T
  <2> QED
    BY <1>1, <1>2, Induction DEF T
<1> QED
  BY <1>3

LEMMA WordExists ==
  ASSUME NEW n \in Nat, n <= MaxSegments, NEW B \in SUBSET (0..n - 1)
  PROVE  \E w \in 0..Power[n] - 1 : \A k \in 0..n - 1 : Bit(w, k) <=> k \in B
<1> DEFINE Says(i, w, C) == \A k \in 0..i - 1 : Bit(w, k) <=> k \in C
           Has(i) == i <= MaxSegments =>
                       \A C \in SUBSET (0..i - 1) : \E w \in 0..Power[i] - 1 : Says(i, w, C)
           T == {i \in Nat : Has(i)}
<1>1. 0 \in T
  <2>1. 0 \in 0..Power[0] - 1
    BY PowerIsOne
  <2> QED
    BY <2>1
<1>2. ASSUME NEW i \in T PROVE i + 1 \in T
  <2>1. SUFFICES ASSUME i + 1 <= MaxSegments, NEW C \in SUBSET (0..(i + 1) - 1)
                 PROVE  \E w \in 0..Power[i + 1] - 1 : Says(i + 1, w, C)
    OBVIOUS
  <2>2. /\ i \in Nat /\ i \in Positions /\ Power[i + 1] = 2 * Power[i] /\ Power[i] \in Nat \ {0}
        /\ 0 \in Positions
    BY <2>1, PowerIsOne, PowerType, RoutesAssumption DEF Positions
  <2> DEFINE D == {k \in 0..i - 1 : k + 1 \in C}
  <2>3. PICK h \in 0..Power[i] - 1 : Says(i, h, D)
    <3>1. i <= MaxSegments /\ D \in SUBSET (0..i - 1)
      BY <2>1, <2>2, RoutesAssumption
    <3> HIDE DEF Says
    <3> QED
      BY <3>1
  <2>4. PICK b \in {0, 1} : b = 1 <=> 0 \in C
    OBVIOUS
  <2>5. PICK w \in Nat : w = 2 * h + b
    OBVIOUS
  <2>6. w \in 0..Power[i + 1] - 1 /\ w \div 2 = h /\ w % 2 = b
    BY <2>2, <2>5
  <2>7. Says(i + 1, w, C)
    <3> SUFFICES ASSUME NEW k \in 0..(i + 1) - 1 PROVE Bit(w, k) <=> k \in C
      OBVIOUS
    <3>1. CASE k = 0
      BY <2>4, <2>6, <3>1, BitsByHalves
    <3>2. CASE k # 0
      <4>1. PICK j \in 0..i - 1 : k = j + 1
        BY <2>2, <3>2, k - 1 \in 0..i - 1, (k - 1) + 1 = k
      <4>2. j \in Positions /\ j + 1 \in Positions
        BY <2>1, <2>2, <4>1, RoutesAssumption DEF Positions
      <4>3. Bit(w, k) <=> Bit(h, j)
        BY <2>6, <4>1, <4>2, BitsByHalves
      <4> QED
        BY <2>3, <4>1, <4>3
    <3> QED
      BY <3>1, <3>2
  <2> QED
    BY <2>6, <2>7
<1>3. \A i \in Nat : i \in T
  <2> HIDE DEF T
  <2> QED
    BY <1>1, <1>2, Induction DEF T
<1> QED
  BY <1>3

\* Words and sets of positions are one to one.
LEMMA SetsAreWords ==
  /\ \A B \in SUBSET Positions : WordOf[B] \in 0..Word - 1 /\ Bits(WordOf[B]) = B
  /\ \A w \in 0..Word - 1 : Bits(w) \in SUBSET Positions /\ WordOf[Bits(w)] = w
<1>1. \A w, k : k \in Bits(w) <=> k \in Positions /\ Bit(w, k)
  BY DEF Bits, Bit
<1>2. ASSUME NEW B \in SUBSET Positions
      PROVE  WordOf[B] \in 0..Word - 1 /\ Bits(WordOf[B]) = B
  <2>1. PICK w \in 0..Word - 1 : \A k \in Positions : Bit(w, k) <=> k \in B
    BY WordExists, RoutesAssumption DEF Word, Positions
  <2>2. Bits(w) = B
    BY <1>1, <2>1
  <2> QED
    BY <2>2 DEF WordOf
<1>3. ASSUME NEW w \in 0..Word - 1
      PROVE  Bits(w) \in SUBSET Positions /\ WordOf[Bits(w)] = w
  <2>1. Bits(w) \in SUBSET Positions
    BY DEF Bits
  <2>2. PICK v : v = WordOf[Bits(w)]
    OBVIOUS
  <2>3. v \in 0..Word - 1 /\ Bits(v) = Bits(w)
    BY <1>2, <2>1, <2>2
  <2>4. \A k \in Positions : Bit(v, k) <=> Bit(w, k)
    BY <1>1, <2>3
  <2>5. v = w
    BY <2>3, <2>4, WordsDiffer, RoutesAssumption DEF Word, Positions
  <2> QED
    BY <2>1, <2>2, <2>5
<1> QED
  BY <1>2, <1>3

\* The lowest n bits.
LEMMA LowBits ==
  ASSUME NEW n \in 0..MaxSegments, NEW k \in Positions
  PROVE  Bit(Power[n] - 1, k) <=> k < n
<1> DEFINE Low(i) == i <= MaxSegments => \A j \in Positions : Bit(Power[i] - 1, j) <=> j < i
           T == {i \in Nat : Low(i)}
<1>1. 0 \in T
  <2>1. ASSUME NEW j \in Positions PROVE ~Bit(Power[0] - 1, j)
    <3>1. PICK p \in Nat \ {0} : p = Power[j]
      BY PowerType, RoutesAssumption DEF Positions
    <3>2. 0 \div p = 0
      OBVIOUS
    <3> QED
      BY <3>1, <3>2, PowerIsOne DEF Bit
  <2> QED
    BY <2>1, RoutesAssumption DEF Positions
<1>2. ASSUME NEW i \in T PROVE i + 1 \in T
  <2>1. SUFFICES ASSUME i + 1 <= MaxSegments, NEW j \in Positions
                 PROVE  Bit(Power[i + 1] - 1, j) <=> j < i + 1
    OBVIOUS
  <2>2. i \in Nat /\ j \in Nat /\ Power[i + 1] = 2 * Power[i] /\ Power[i] \in Nat \ {0}
    BY <2>1, PowerIsOne, PowerType, RoutesAssumption DEF Positions
  <2>3. PICK w \in Nat : w = Power[i + 1] - 1
    BY <2>2
  <2>4. w % 2 = 1 /\ w \div 2 = Power[i] - 1
    BY <2>2, <2>3
  <2>5. CASE j = 0
    BY <2>2, <2>3, <2>4, <2>5, BitsByHalves
  <2>6. CASE j # 0
    <3>1. PICK m \in Nat : j = m + 1
      BY <2>2, <2>6, j - 1 \in Nat, (j - 1) + 1 = j
    <3>2. m \in Positions
      BY <3>1, RoutesAssumption DEF Positions
    <3>3. Bit(w, j) <=> Bit(Power[i] - 1, m)
      BY <2>4, <3>1, <3>2, BitsByHalves
    <3>4. Bit(Power[i] - 1, m) <=> m < i
      BY <2>1, <2>2, <3>2, RoutesAssumption
    <3> QED
      BY <2>2, <2>3, <3>1, <3>3, <3>4
  <2> QED
    BY <2>5, <2>6
<1>3. \A i \in Nat : i \in T
  <2> HIDE DEF T
  <2> QED
    BY <1>1, <1>2, Induction DEF T
<1> QED
  BY <1>3, RoutesAssumption

\* Bits moved up by n.
LEMMA ShiftedBits ==
  ASSUME NEW m \in Nat, NEW n \in 0..MaxSegments, NEW k \in Positions
  PROVE  Bit(m * Power[n], k) <=> n <= k /\ Bit(m, k - n)
<1> DEFINE Shifted(i) == i <= MaxSegments =>
                           \A j \in Positions : Bit(m * Power[i], j) <=> i <= j /\ Bit(m, j - i)
           T == {i \in Nat : Shifted(i)}
<1>1. 0 \in T
  <2>1. m * Power[0] = m /\ \A j \in Positions : 0 <= j /\ j - 0 = j
    BY PowerIsOne, RoutesAssumption DEF Positions
  <2> QED
    BY <2>1
<1>2. ASSUME NEW i \in T PROVE i + 1 \in T
  <2>1. SUFFICES ASSUME i + 1 <= MaxSegments, NEW j \in Positions
                 PROVE  Bit(m * Power[i + 1], j) <=> i + 1 <= j /\ Bit(m, j - (i + 1))
    OBVIOUS
  <2>2. i \in Nat /\ j \in Nat /\ Power[i + 1] = 2 * Power[i] /\ Power[i] \in Nat \ {0}
    BY <2>1, PowerIsOne, PowerType, RoutesAssumption DEF Positions
  <2>3. PICK h \in Nat : h = m * Power[i]
    BY <2>2
  <2>4. PICK w \in Nat : w = m * Power[i + 1] /\ w = 2 * h
    BY <2>2, <2>3
  <2>5. w % 2 = 0 /\ w \div 2 = h
    BY <2>4
  <2>6. CASE j = 0
    BY <2>2, <2>4, <2>5, <2>6, BitsByHalves
  <2>7. CASE j # 0
    <3>1. PICK l \in Nat : j = l + 1 /\ l - i = j - (i + 1) /\ (i <= l <=> i + 1 <= j)
      <4>1. PICK l \in Nat : j = l + 1
        BY <2>2, <2>7, j - 1 \in Nat, (j - 1) + 1 = j
      <4> QED
        BY <2>2, <4>1
    <3>2. l \in Positions
      BY <3>1, RoutesAssumption DEF Positions
    <3>3. Bit(w, j) <=> Bit(h, l)
      BY <2>5, <3>1, <3>2, BitsByHalves
    <3>4. Bit(h, l) <=> i <= l /\ Bit(m, l - i)
      BY <2>1, <2>2, <2>3, <3>2, RoutesAssumption
    <3> QED
      BY <2>4, <3>1, <3>3, <3>4
  <2> QED
    BY <2>6, <2>7
<1>3. \A i \in Nat : i \in T
  <2> HIDE DEF T
  <2> QED
    BY <1>1, <1>2, Induction DEF T
<1> QED
  BY <1>3, RoutesAssumption

LEMMA PowerOfSum ==
  ASSUME NEW a \in Nat, NEW b \in Nat, a + b <= MaxSegments
  PROVE  Power[a + b] = Power[a] * Power[b]
<1> DEFINE Sum(i) == a + i <= MaxSegments => Power[a + i] = Power[a] * Power[i]
           T == {i \in Nat : Sum(i)}
<1>1. 0 \in T
  BY PowerIsOne, PowerType, RoutesAssumption
<1>2. ASSUME NEW i \in T PROVE i + 1 \in T
  <2>1. SUFFICES ASSUME a + (i + 1) <= MaxSegments
                 PROVE  Power[a + (i + 1)] = Power[a] * Power[i + 1]
    OBVIOUS
  <2>2. /\ Power[i + 1] = 2 * Power[i] /\ Power[(a + i) + 1] = 2 * Power[a + i]
        /\ a + (i + 1) = (a + i) + 1
    BY <2>1, PowerIsOne, RoutesAssumption DEF Positions
  <2>3. PICK p \in Nat, q \in Nat : p = Power[a] /\ q = Power[i] /\ Power[a + i] = p * q
    BY <2>1, PowerType, RoutesAssumption
  <2>4. 2 * (p * q) = p * (2 * q)
    OBVIOUS
  <2> QED
    BY <2>2, <2>3, <2>4
<1>3. \A i \in Nat : i \in T
  <2> HIDE DEF T
  <2> QED
    BY <1>1, <1>2, Induction DEF T
<1> QED
  BY <1>3

SegsOf(s) == s.from .. s.to - 1

LEMMA WordSize ==
  /\ Word \in Nat \ {0} /\ Word \div 2 \in Nat /\ Word = 2 * (Word \div 2)
<1>1. MaxSegments \in Nat \ {0}
  BY RoutesAssumption
<1>2. PICK m \in Nat : MaxSegments = m + 1
  BY <1>1, MaxSegments - 1 \in Nat, (MaxSegments - 1) + 1 = MaxSegments
<1>3. m \in Positions /\ m \in 0..MaxSegments
  BY <1>1, <1>2 DEF Positions
<1>4. PICK p \in Nat \ {0} : p = Power[m] /\ Word = 2 * p
  BY <1>2, <1>3, PowerIsOne, PowerType DEF Word
<1> QED
  BY <1>4

LEMMA SpanFacts ==
  ASSUME NEW s \in Spans
  PROVE  /\ s.from \in Nat /\ s.to \in Nat /\ s.from < s.to /\ s.to <= NSeg
         /\ NSeg \in Nat /\ NSeg <= MaxSegments /\ MaxSegments \in Nat
  BY RoutesAssumption DEF Spans, SpanOk

\* The mask of a span has its segments for bits, the whole width included.
LEMMA MaskOfSpan ==
  ASSUME NEW s \in Spans
  PROVE  SpanMask(s) \in 0..Word - 1 /\ Bits(SpanMask(s)) = SegsOf(s)
<1>1. PICK f \in Nat, n \in Nat \ {0} :
        s.from = f /\ s.to = f + n /\ s.to - s.from = n /\ f + n <= MaxSegments
  BY SpanFacts, s.to - s.from \in Nat \ {0}
<1>2. MaxSegments \in Nat
  BY RoutesAssumption
<1>3. ASSUME NEW k \in Nat PROVE k \in SegsOf(s) <=> f <= k /\ k < f + n
  BY <1>1 DEF SegsOf
<1>4. ASSUME NEW k \in SegsOf(s) PROVE k \in Positions
  BY <1>1, <1>2 DEF SegsOf, Positions
<1>5. CASE n = MaxSegments
  <2>1. SpanMask(s) = Word - 1 /\ f = 0
    BY <1>1, <1>2, <1>5 DEF SpanMask
  <2>2. \A k \in Positions : Bit(Word - 1, k)
    BY <1>2, LowBits DEF Word, Positions
  <2>3. \A k \in Positions : k \in Nat /\ k < f + n
    BY <1>2, <1>5, <2>1 DEF Positions
  <2> QED
    BY <1>3, <1>4, <2>1, <2>2, <2>3, WordSize DEF Bits, Bit
<1>6. CASE n # MaxSegments
  <2>1. SpanMask(s) = (Power[n] - 1) * Power[f]
    BY <1>1, <1>6 DEF SpanMask
  <2>2. PICK a \in Nat \ {0}, b \in Nat \ {0}, r \in Nat \ {0} :
          a = Power[n] /\ b = Power[f] /\ Word = (a * b) * r
    <3>1. PICK t \in Nat : MaxSegments = (f + n) + t
      BY <1>1, <1>2, MaxSegments - (f + n) \in Nat
    <3>2. Power[f + n] = Power[n] * Power[f] /\ Word = Power[f + n] * Power[t]
      BY <1>1, <3>1, PowerOfSum DEF Word
    <3>3. Power[n] \in Nat \ {0} /\ Power[f] \in Nat \ {0} /\ Power[t] \in Nat \ {0}
      BY <1>1, <1>2, <3>1, PowerType
    <3> QED
      BY <3>2, <3>3
  <2>3. (a - 1) * b \in 0..Word - 1
    <3>1. PICK c \in Nat \ {0} : c = a * b
      OBVIOUS
    <3>2. c <= c * r
      OBVIOUS
    <3>3. (a - 1) * b = c - b /\ (a - 1) * b \in Nat
      BY <3>1
    <3> QED
      BY <2>2, <3>1, <3>2, <3>3
  <2>4. ASSUME NEW k \in Positions
        PROVE  Bit((a - 1) * b, k) <=> f <= k /\ k < f + n
    <3>1. k \in Nat /\ n \in 0..MaxSegments /\ f \in 0..MaxSegments /\ a - 1 \in Nat
      BY <1>1, <1>2 DEF Positions
    <3>2. Bit((a - 1) * b, k) <=> f <= k /\ Bit(a - 1, k - f)
      BY <2>2, <3>1, ShiftedBits
    <3>3. ASSUME f <= k PROVE Bit(a - 1, k - f) <=> k - f < n
      <4>1. k - f \in Positions
        BY <1>2, <3>1, <3>3 DEF Positions
      <4> QED
        BY <2>2, <3>1, <4>1, LowBits
    <3> QED
      BY <3>1, <3>2, <3>3
  <2>5. \A k \in Positions : k \in Nat
    BY <1>2 DEF Positions
  <2> QED
    BY <1>3, <1>4, <2>1, <2>2, <2>3, <2>4, <2>5 DEF Bits, Bit
<1> QED
  BY <1>5, <1>6

StoredWords == -(Word \div 2) .. (Word \div 2) - 1

\* A word and the column's signed reading of it are one to one.
LEMMA SignedWords ==
  /\ \A m \in 0..Word - 1 : AsSigned(m) \in StoredWords /\ AsWord(AsSigned(m)) = m
  /\ \A i \in StoredWords : AsWord(i) \in 0..Word - 1
<1>1. PICK h \in Nat \ {0} : Word = 2 * h /\ Word \div 2 = h
  BY WordSize
<1>2. ASSUME NEW m \in 0..Word - 1
      PROVE  AsSigned(m) \in StoredWords /\ AsWord(AsSigned(m)) = m
  <2>1. m = 0 * Word + m /\ m - Word = (-1) * Word + m
    BY <1>1
  <2>2. m % Word = m /\ (m - Word) % Word = m
    BY <1>1, <2>1, Quotient
  <2> QED
    BY <1>1, <2>2 DEF AsSigned, AsWord, StoredWords
<1>3. ASSUME NEW i \in StoredWords PROVE AsWord(i) \in 0..Word - 1
  BY <1>1, Divided DEF AsWord, StoredWords
<1> QED
  BY <1>2, <1>3

\* Both ends of a span come back out of its mask.
LEMMA EndsOfMask ==
  ASSUME NEW s \in Spans, NEW m, Bits(m) = SegsOf(s)
  PROVE  TrailingZeros(m) = s.from /\ MaxSegments - LeadingZeros(m) = s.to
<1>1. PICK a \in Nat, b \in Nat, w \in Nat :
        a = s.from /\ b = s.to /\ w = MaxSegments /\ a < b /\ b <= w
  BY SpanFacts
<1>2. TrailingZeros(m) = a
  <2> DEFINE S == {k \in 0..w : k = w \/ k \in a .. b - 1}
  <2>1. S \in SUBSET Int /\ a \in S /\ \A k \in S : a <= k
    BY <1>1
  <2>2. TrailingZeros(m) = Min(S)
    BY <1>1 DEF TrailingZeros, SegsOf
  <2> HIDE DEF S
  <2> QED
    BY <2>1, <2>2, LeastIs
<1>3. LeadingZeros(m) = w - b
  <2> DEFINE S == {k \in 0..w : k = w \/ w - 1 - k \in a .. b - 1}
  <2>1. S \in SUBSET Int /\ w - b \in S /\ \A k \in S : w - b <= k
    BY <1>1
  <2>2. LeadingZeros(m) = Min(S)
    BY <1>1 DEF LeadingZeros, SegsOf
  <2> HIDE DEF S
  <2> QED
    BY <2>1, <2>2, LeastIs
<1> QED
  BY <1>1, <1>2, <1>3

SegmentsIn(stored) == Bits(AsWord(stored))

\* The word of a row nothing is sold of.
LEMMA NoSegments ==
  0 \in StoredWords /\ 0 \in 0..Word - 1 /\ AsWord(0) = 0 /\ SegmentsIn(0) = {}
<1>1. 0 \in 0..Word - 1 /\ AsWord(0) = 0 /\ 0 \in StoredWords
  <2>1. \A n \in Nat \ {0} : 0 % n = 0
    OBVIOUS
  <2> QED
    BY <2>1, WordSize DEF AsWord, StoredWords
<1>2. \A k \in Positions : 0 \div Power[k] = 0
  <2>1. \A n \in Nat \ {0} : 0 \div n = 0
    OBVIOUS
  <2>2. \A k \in Positions : Power[k] \in Nat \ {0}
    BY PowerType, RoutesAssumption DEF Positions
  <2> QED
    BY <2>1, <2>2
<1> QED
  BY <1>1, <1>2 DEF SegmentsIn, Bits

\* The stored words are the sets of segments they stand for, whatever the width of
\* the word and the route: a conflict is a segment in common, a claim adds the
\* segments of its span, a release takes them away if all are there, and the
\* batched answer of the pools reads the span back out of its mask (segment.rs:56,
\* store.rs:237, 533, 767).
THEOREM WordsAreSets ==
  ASSUME NEW stored \in StoredWords, NEW s \in Spans
  PROVE  /\ Hits(stored, s) <=> SegmentsIn(stored) \cap SegsOf(s) # {}
         /\ SeatClaimed(stored, s) \in StoredWords
         /\ SegmentsIn(SeatClaimed(stored, s)) = SegmentsIn(stored) \cup SegsOf(s)
         /\ SeatReleased(stored, s) \in StoredWords
         /\ SegmentsIn(SeatReleased(stored, s)) =
              IF SegsOf(s) \subseteq SegmentsIn(stored) THEN SegmentsIn(stored) \ SegsOf(s)
              ELSE SegmentsIn(stored)
         /\ \A row : BatchLeft(row, AsSigned(SpanMask(s))) = PoolLeft(row, s)
<1>1. PICK w \in 0..Word - 1, m \in 0..Word - 1 : w = AsWord(stored) /\ m = SpanMask(s)
  BY SignedWords, MaskOfSpan
<1> DEFINE B == Bits(w)
           M == Bits(m)
<1>2. B \in SUBSET Positions /\ M \in SUBSET Positions /\ M = SegsOf(s) /\ WordOf[M] = m
  BY <1>1, SetsAreWords, MaskOfSpan
<1>3. /\ SegmentsIn(stored) = B
      /\ \A C \in SUBSET Positions : /\ AsSigned(WordOf[C]) \in StoredWords
                                     /\ SegmentsIn(AsSigned(WordOf[C])) = C
  BY <1>1, SetsAreWords, SignedWords DEF SegmentsIn
<1>4. WordOf[{}] = 0
  BY NoSegments, SetsAreWords DEF SegmentsIn
<1>5. \A C, D \in SUBSET Positions : WordOf[C] = WordOf[D] => C = D
  BY SetsAreWords
<1> HIDE DEF B, M
<1>6. Hits(stored, s) <=> B \cap M # {}
  <2>1. Hits(stored, s) <=> WordOf[B \cap M] # 0
    BY <1>1 DEF Hits, BitAnd, B, M
  <2> QED
    BY <1>2, <1>4, <1>5, <2>1
<1>7. /\ SeatClaimed(stored, s) \in StoredWords
      /\ SegmentsIn(SeatClaimed(stored, s)) = B \cup M
  <2>1. SeatClaimed(stored, s) = AsSigned(WordOf[B \cup M])
    BY <1>1 DEF SeatClaimed, BitOr, B, M
  <2> QED
    BY <1>2, <1>3, <2>1
<1>8. /\ SeatReleased(stored, s) \in StoredWords
      /\ SegmentsIn(SeatReleased(stored, s)) = IF M \subseteq B THEN B \ M ELSE B
  <2>1. SeatReleased(stored, s) =
          IF WordOf[B \cap M] = m THEN AsSigned(BitAnd(w, BitNot(m))) ELSE stored
    BY <1>1 DEF SeatReleased, BitAnd, B, M
  <2>2. BitAnd(w, BitNot(m)) = WordOf[B \ M]
    <3>1. Bits(BitNot(m)) = Positions \ M
      BY SetsAreWords DEF BitNot, M
    <3>2. B \cap (Positions \ M) = B \ M
      BY <1>2
    <3> QED
      BY <3>1, <3>2 DEF BitAnd, B
  <2>3. WordOf[B \cap M] = m <=> M \subseteq B
    <3>1. B \cap M \in SUBSET Positions
      BY <1>2
    <3>2. WordOf[B \cap M] = WordOf[M] <=> B \cap M = M
      BY <1>2, <1>5, <3>1
    <3> QED
      BY <1>2, <3>2
  <2> QED
    BY <1>2, <1>3, <2>1, <2>2, <2>3
<1>9. ASSUME NEW row PROVE BatchLeft(row, AsSigned(SpanMask(s))) = PoolLeft(row, s)
  <2>1. AsWord(AsSigned(m)) = m
    BY SignedWords
  <2>2. BatchLeft(row, AsSigned(m)) = SliceMin(row, TrailingZeros(m) + 1, MaxSegments - LeadingZeros(m))
    BY <2>1 DEF BatchLeft
  <2> QED
    BY <1>1, <1>2, <2>2, EndsOfMask DEF PoolLeft, M
<1> QED
  BY <1>2, <1>3, <1>6, <1>7, <1>8, <1>9

-----------------------------------------------------------------------------
(* Journeys and pools *)

\* On a route that calls at no location twice, which the UNIQUE (route_id,
\* location_id) of route_stops sees to, a claim, search and the domain type find
\* the same span for any journey, or none.
THEOREM JourneysAgree ==
  ASSUME NEW S, NEW stops \in [1..(NSeg + 1) -> S],
         \A i, j \in 1..(NSeg + 1) : stops[i] = stops[j] => i = j,
         NEW origin, NEW destination
  PROVE  SpansAgree(stops, origin, destination)
<1> DEFINE from    == Calls(stops, origin)
           to      == Calls(stops, destination)
           claimed == PickSpan(stops, origin, destination)
           shown   == SearchSpans(stops, origin, destination)
           typed   == SpanBetween(stops, origin, destination)
<1>1. \A i \in Nat : Min({i}) = i
  BY DEF Min
<1>2. from \in SUBSET Nat /\ to \in SUBSET Nat
  BY RoutesAssumption DEF Calls
<1>3. CASE from = {}
  BY <1>3 DEF SpansAgree, PickSpan, SearchSpans, SpanBetween
<1>4. CASE to = {}
  BY <1>4 DEF SpansAgree, PickSpan, SearchSpans, SpanBetween
<1>5. CASE from # {} /\ to # {}
  <2>1. PICK a \in 1..(NSeg + 1) : from = {a}
    BY <1>5 DEF Calls
  <2>2. PICK b \in 1..(NSeg + 1) : to = {b}
    BY <1>5 DEF Calls
  <2>3. a \in Nat /\ b \in Nat /\ Min(from) = a /\ Min(to) = b
    BY <1>1, <2>1, <2>2, RoutesAssumption
  <2> DEFINE span == [from |-> a - 1, to |-> b - 1]
  <2>4. shown = IF a < b THEN {span} ELSE {}
    <3>1. \A x \in Spans : x = span <=> x.from + 1 = a /\ x.to + 1 = b
      BY <2>3, RoutesAssumption DEF Spans
    <3>2. span \in Spans <=> a < b
      BY <2>3, RoutesAssumption DEF Spans, SpanOk
    <3>3. shown = {x \in Spans : x.from + 1 = a /\ x.to + 1 = b}
      BY <2>1, <2>2 DEF SearchSpans
    <3> HIDE DEF span, shown
    <3> QED
      BY <3>1, <3>2, <3>3
  <2>5. typed = shown
    BY <2>1, <2>2, <2>3 DEF SpanBetween, SearchSpans
  <2>6. claimed = IF a < b THEN {span} ELSE {}
    <3>1. CASE a < b
      <4>1. {i \in to : i > a} = {b}
        BY <2>2, <2>3, <3>1
      <4>2. claimed = {[from |-> a - 1, to |-> Min({i \in to : i > a}) - 1]}
        BY <1>5, <2>3, <4>1 DEF PickSpan
      <4> QED
        BY <1>1, <2>3, <3>1, <4>1, <4>2
    <3>2. CASE ~(a < b)
      <4>1. {i \in to : i > a} = {}
        BY <2>2, <2>3, <3>2
      <4> QED
        BY <2>3, <3>2, <4>1 DEF PickSpan
    <3> QED
      BY <3>1, <3>2
  <2> QED
    BY <2>4, <2>5, <2>6 DEF SpansAgree
<1> QED
  BY <1>3, <1>4, <1>5

\* Segment i of the domain type is bit i + 1 of a row, on a journey as on the route.
LEMMA NextSegment ==
  ASSUME NEW from \in Nat, NEW to \in Nat, NEW i \in Int
  PROVE  i + 1 \in from + 1 .. to <=> i \in from .. to - 1
OBVIOUS

LEMMA OnTheRoute ==
  ASSUME NEW from \in Nat, NEW to \in Nat, NEW n \in Nat, to <= n
  PROVE  /\ \A k \in from + 1 .. to : k \in 1..n
         /\ \A i \in from .. to - 1 : i \in 0..n - 1
OBVIOUS

\* For any row of a pool and any span, the database and the domain type have the
\* same remainder, before and after a claim; a claim of as many units is accepted
\* as search shows, and no more; and a release undoes a claim.
THEOREM PoolsAgree ==
  ASSUME NEW units \in [1..NSeg -> Nat], NEW s \in Spans, NEW qty \in Nat,
         NEW capacity \in Nat, \A k \in 1..NSeg : units[k] <= capacity
  PROVE  /\ PoolLeft(units, s) \in 0..capacity
         /\ RemainingFor(InMemory(units), s) = PoolLeft(units, s)
         /\ InMemory(PoolClaimed(units, s, qty)) = Reserved(InMemory(units), s, qty)
         /\ PoolTakes(units, s, qty) <=> qty <= PoolLeft(units, s)
         /\ PoolReleased(PoolClaimed(units, s, qty), s, qty, capacity) = units
<1>1. /\ s.from \in Nat /\ s.to \in Nat /\ s.from < s.to /\ s.to <= NSeg /\ NSeg \in Nat
  BY RoutesAssumption DEF Spans, SpanOk
<1> DEFINE cells == {units[k] : k \in (s.from + 1 .. s.to) \cap DOMAIN units}
<1>2. (s.from + 1 .. s.to) \cap DOMAIN units = s.from + 1 .. s.to
  BY <1>1, OnTheRoute
<1>3. cells \in SUBSET Nat /\ cells # {}
  <2>1. cells = {units[k] : k \in s.from + 1 .. s.to}
    BY <1>2
  <2>2. s.to \in s.from + 1 .. s.to /\ \A k \in s.from + 1 .. s.to : k \in 1..NSeg
    BY <1>1, OnTheRoute
  <2> QED
    BY <2>1, <2>2
<1>4. PICK m \in cells : \A x \in cells : m <= x
  <2> HIDE DEF cells
  <2> QED
    BY <1>3, LeastNumber
<1>5. Min(cells) = m /\ m \in Nat
  <2> HIDE DEF cells
  <2>1. m \in Nat /\ \A x \in cells : x \in Nat
    BY <1>3, <1>4
  <2>2. \A x \in cells : (\A y \in cells : x <= y) => x = m
    BY <1>4, <2>1
  <2>3. Min(cells) \in cells /\ \A y \in cells : Min(cells) <= y
    BY <1>4 DEF Min
  <2> QED
    BY <2>1, <2>2, <2>3
<1>6. PoolLeft(units, s) = m
  <2>1. PoolLeft(units, s) = IF cells = {} THEN 0 ELSE Min(cells)
    BY DEF PoolLeft, SliceMin
  <2> HIDE DEF cells
  <2> QED
    BY <1>3, <1>5, <2>1
<1>7. RemainingFor(InMemory(units), s) = m
  <2>1. \A i \in s.from .. s.to - 1 : i \in Int /\ InMemory(units)[i] = units[i + 1]
    <3>1. \A i \in s.from .. s.to - 1 : i \in Int /\ i \in 0..NSeg - 1
      BY <1>1, OnTheRoute
    <3> QED
      BY <3>1 DEF InMemory
  <2>2. ASSUME NEW x
        PROVE  x \in {InMemory(units)[i] : i \in s.from .. s.to - 1} <=> x \in cells
    <3>1. ASSUME NEW i \in s.from .. s.to - 1
          PROVE  InMemory(units)[i] \in cells
      <4>1. i + 1 \in s.from + 1 .. s.to
        BY <1>1, <2>1, NextSegment
      <4>2. units[i + 1] \in cells
        BY <1>2, <4>1
      <4> QED
        BY <2>1, <4>2
    <3>2. ASSUME NEW k \in s.from + 1 .. s.to
          PROVE  units[k] \in {InMemory(units)[i] : i \in s.from .. s.to - 1}
      <4>1. PICK i \in Int : i + 1 = k
        BY k - 1 \in Int, (k - 1) + 1 = k
      <4>2. i \in s.from .. s.to - 1
        BY <1>1, <4>1, NextSegment
      <4> QED
        BY <2>1, <4>1, <4>2
    <3> QED
      BY <1>2, <3>1, <3>2
  <2>3. {InMemory(units)[i] : i \in s.from .. s.to - 1} = cells
    BY <2>2
  <2> QED
    BY <1>5, <2>3 DEF RemainingFor
<1>8. PoolTakes(units, s, qty) <=> qty <= m
  <2>1. PoolTakes(units, s, qty) <=> \A x \in cells : qty <= x
    BY <1>1, <1>2 DEF PoolTakes, Slice
  <2> HIDE DEF cells
  <2> QED
    BY <1>3, <1>4, <2>1
<1>9. InMemory(PoolClaimed(units, s, qty)) = Reserved(InMemory(units), s, qty)
  <2>1. ASSUME NEW i \in 0..NSeg - 1
        PROVE  PoolClaimed(units, s, qty)[i + 1] =
                 IF i \in s.from .. s.to - 1 THEN units[i + 1] - qty ELSE units[i + 1]
    <3>1. i \in Int
      OBVIOUS
    <3>2. i + 1 \in 1..NSeg
      BY <1>1
    <3>3. i + 1 \in s.from + 1 .. s.to <=> i \in s.from .. s.to - 1
      BY <1>1, <3>1, NextSegment
    <3> QED
      BY <3>2, <3>3 DEF PoolClaimed, Slice
  <2>2. \A i \in 0..NSeg - 1 : InMemory(units)[i] = units[i + 1]
    BY DEF InMemory
  <2>3. Reserved(InMemory(units), s, qty) =
          [i \in 0..NSeg - 1 |-> IF i \in s.from .. s.to - 1
                                THEN InMemory(units)[i] - qty ELSE InMemory(units)[i]]
    BY DEF Reserved, InMemory
  <2>4. InMemory(PoolClaimed(units, s, qty)) =
          [i \in 0..NSeg - 1 |-> PoolClaimed(units, s, qty)[i + 1]]
    BY DEF InMemory
  <2> QED
    BY <2>1, <2>2, <2>3, <2>4
<1>10. PoolReleased(PoolClaimed(units, s, qty), s, qty, capacity) = units
  <2> DEFINE taken == PoolClaimed(units, s, qty)
  <2>1. /\ taken \in [1..NSeg -> Int]
        /\ \A k \in 1..NSeg : taken[k] = IF k \in Slice(s) THEN units[k] - qty ELSE units[k]
    BY DEF PoolClaimed
  <2>2. \A k \in Slice(s) : k \in 1..NSeg
    BY <1>1, OnTheRoute DEF Slice
  <2> HIDE DEF taken
  <2>3. \A k \in Slice(s) : taken[k] + qty <= capacity
    BY <2>1, <2>2
  <2>4. PoolReleased(taken, s, qty, capacity) =
          [k \in 1..NSeg |-> IF k \in Slice(s) THEN taken[k] - (-qty) ELSE taken[k]]
    BY <2>1, <2>3 DEF PoolReleased, PoolClaimed
  <2>5. \A k \in 1..NSeg : (IF k \in Slice(s) THEN taken[k] - (-qty) ELSE taken[k]) = units[k]
    BY <2>1
  <2> QED
    BY <2>4, <2>5 DEF taken
<1>11. m <= capacity
  <2>1. PICK k \in 1..NSeg : units[k] = m
    BY <1>1, <1>2
  <2> QED
    BY <2>1
<1> QED
  BY <1>5, <1>6, <1>7, <1>8, <1>9, <1>10, <1>11

-----------------------------------------------------------------------------
(* Fare rules and their switches *)

\* A switch that began alone still is, and has seen all active rows.
Undivided ==
  \A w \in Switchers :
    switch[w].alone => /\ \A v \in Switchers : v # w => switch[v].step = "idle"
                       /\ switch[w].step = "updating" => switch[w].seen = ActiveRules

RulesInv == FareRulesTypeOK /\ ActiveRules # {} /\ Undivided

LEMMA RulesInit == FareRulesInit => RulesInv
  BY FareRulesAssumption
  DEF FareRulesInit, RulesInv, FareRulesTypeOK, ActiveRules, Undivided, Quiet

\* A new row is younger than all, at a number.
LEMMA BornIsANumber ==
  ASSUME FareRulesTypeOK, NEW r \in RuleSets
  PROVE  Born(r) \in Nat
<1> DEFINE C == {rule[q].created : q \in RuleSets} \cup {switch[v].created : v \in Switchers}
           h == [q \in RuleSets |-> rule[q].created]
           g == [v \in Switchers |-> switch[v].created]
<1>1. h \in [RuleSets -> Nat] /\ g \in [Switchers -> Nat]
  BY DEF FareRulesTypeOK
<1>2. PICK q \in RuleSets : \A t \in RuleSets : h[t] <= h[q]
  <2> HIDE DEF h
  <2> QED
    BY <1>1, Largest, FareRulesAssumption
<1>3. C \subseteq Nat
  BY DEF FareRulesTypeOK
<1>4. \E x \in C : \A y \in C : x >= y
  <2>1. CASE Switchers = {}
    BY <1>1, <1>2, <1>3, <2>1
  <2>2. CASE Switchers # {}
    <3>1. PICK v \in Switchers : \A t \in Switchers : g[t] <= g[v]
      <4> HIDE DEF g
      <4> QED
        BY <1>1, <2>2, Largest, FareRulesAssumption
    <3>2. h[q] \in C /\ g[v] \in C /\ h[q] \in Nat /\ g[v] \in Nat
      BY <1>1
    <3>3. CASE h[q] >= g[v]
      <4>1. \A y \in C : h[q] >= y
        BY <1>1, <1>2, <3>1, <3>3
      <4> QED
        BY <4>1, <3>2
    <3>4. CASE g[v] >= h[q]
      <4>1. \A y \in C : g[v] >= y
        BY <1>1, <1>2, <3>1, <3>4
      <4> QED
        BY <4>1, <3>2
    <3> QED
      BY <3>2, <3>3, <3>4
  <2> QED
    BY <2>1, <2>2
<1>5. Max(C) \in C
  <2> HIDE DEF C
  <2> QED
    BY <1>4 DEF Max
<1>6. Max(C) \in Nat
  BY <1>3, <1>5
<1>7. Born(r) = IF rule[r].state # "none" THEN 0 ELSE 1 + Max(C)
  BY Zenon DEF Born
<1> QED
  BY <1>6, <1>7

LEMMA RulesNext == RulesInv /\ [FareRulesNext]_rules_vars => RulesInv'
<1> SUFFICES ASSUME RulesInv, [FareRulesNext]_rules_vars PROVE RulesInv'
  OBVIOUS
<1> USE FareRulesAssumption
<1>1. ASSUME NEW w \in Switchers, SwitchBegin(w)
      PROVE  RulesInv'
  <2>1. PICK r \in RuleSets :
          switch' = [v \in Switchers |->
            IF v = w THEN [step |-> "updating", rule |-> r, seen |-> ActiveRules,
                           created |-> Born(r), alone |-> Idle]
            ELSE [switch[v] EXCEPT !.alone = FALSE]]
    BY <1>1 DEF SwitchBegin
  <2>2. rule' = rule
    BY <1>1 DEF SwitchBegin
  <2>3. Born(r) \in Nat /\ Idle \in BOOLEAN /\ ActiveRules \subseteq RuleSets
    BY BornIsANumber DEF RulesInv, Idle, ActiveRules
  <2>4. FareRulesTypeOK'
    <3> HIDE FareRulesAssumption
    <3> DEFINE S == [step : {"idle", "updating"}, rule : RuleSets,
                     seen : SUBSET RuleSets, created : Nat, alone : BOOLEAN]
    <3>1. [step |-> "updating", rule |-> r, seen |-> ActiveRules,
           created |-> Born(r), alone |-> Idle] \in S
      BY <2>3
    <3>2. \A v \in Switchers : [switch[v] EXCEPT !.alone = FALSE] \in S
      BY DEF RulesInv, FareRulesTypeOK
    <3>3. \A v \in Switchers : switch'[v] \in S
      BY <2>1, <3>1, <3>2
    <3>4. switch' = [v \in Switchers |-> switch'[v]]
      BY <2>1
    <3> QED
      BY <2>2, <3>3, <3>4 DEF RulesInv, FareRulesTypeOK
  <2>5. ActiveRules' = ActiveRules
    BY <2>2 DEF ActiveRules
  <2>6. Undivided'
    BY <2>1, <2>5 DEF RulesInv, Undivided, Idle, FareRulesTypeOK
  <2> QED
    BY <2>4, <2>5, <2>6 DEF RulesInv
<1>2. ASSUME NEW w \in Switchers, SwitchCommit(w)
      PROVE  RulesInv'
  <2>1. FareRulesTypeOK'
    BY <1>2 DEF SwitchCommit, RulesInv, FareRulesTypeOK, Quiet
  <2>2. switch[w].rule \in ActiveRules'
    BY <1>2 DEF SwitchCommit, RulesInv, FareRulesTypeOK, ActiveRules
  <2>3. Undivided'
    BY <1>2 DEF SwitchCommit, RulesInv, FareRulesTypeOK, Undivided, Quiet
  <2> QED
    BY <2>1, <2>2, <2>3 DEF RulesInv
<1>3. ASSUME NEW w \in Switchers, SwitchAbort(w)
      PROVE  RulesInv'
  <2>1. ActiveRules' = ActiveRules
    BY <1>3 DEF SwitchAbort, ActiveRules
  <2>2. FareRulesTypeOK' /\ Undivided'
    BY <1>3, <2>1 DEF SwitchAbort, RulesInv, FareRulesTypeOK, Undivided, Quiet
  <2> QED
    BY <2>1, <2>2 DEF RulesInv
<1>4. CASE UNCHANGED rules_vars
  BY <1>4 DEF rules_vars, RulesInv, FareRulesTypeOK, ActiveRules, Undivided
<1> QED
  BY <1>1, <1>2, <1>3, <1>4 DEF FareRulesNext, Switch

\* Committed alone, a switch leaves its row as the only active one.
LEMMA AloneIsInForce ==
  ASSUME RulesInv, NEW w \in Switchers, SwitchCommit(w), switch[w].alone
  PROVE  InForce' = switch[w].rule
<1>1. switch[w].seen = ActiveRules
  BY DEF RulesInv, Undivided, SwitchCommit
<1>2. ActiveRules' = {switch[w].rule}
  BY <1>1 DEF SwitchCommit, RulesInv, FareRulesTypeOK, ActiveRules
<1>3. rule'[switch[w].rule].created \in Nat
  BY DEF SwitchCommit, RulesInv, FareRulesTypeOK
<1> QED
  BY <1>2, <1>3 DEF InForce

LEMMA SwitchesHold == FareRulesSpec => SwitchesTakeEffect
<1>1. RulesInv /\ RulesInv' =>
        ActiveRules' # {} /\ \A w \in Switchers :
          (SwitchCommit(w) /\ switch[w].alone) => InForce' = switch[w].rule
  BY AloneIsInForce DEF RulesInv
<1> QED
  BY <1>1, RulesInit, RulesNext, PTL DEF FareRulesSpec, SwitchesTakeEffect

\* However requests for prices and orders come in between, publications and
\* activations leave the engine with rules, and an undisturbed one is in force
\* when it has returned.
THEOREM SwitchesWork == QuotesSpec => SwitchesTakeEffect
<1>1. [QuotesNext]_<<rules_vars, quotes_vars>> => [FareRulesNext]_rules_vars
  BY DEF QuotesNext
<1>2. QuotesSpec => FareRulesSpec
  BY <1>1, PTL DEF QuotesSpec, FareRulesSpec
<1> QED
  BY <1>2, SwitchesHold

-----------------------------------------------------------------------------
(* Prices, quotes and what an order is charged *)

\* A request or a quote has its fields and no other.
IsRequest(r) ==
  r = [step |-> r.step, kind |-> r.kind, cart |-> r.cart, prices |-> r.prices, rule |-> r.rule,
       currency |-> r.currency, promo |-> r.promo, round |-> r.round, at |-> r.at, end |-> r.end]

IsSequence(s) == s \in Seq({s[i] : i \in DOMAIN s})

\* The prices are those of one ruleset, on the day it was loaded.
PricedRight(r) ==
  /\ r.currency = Policy[r.rule].currency
  /\ \A i \in DOMAIN r.prices :
       r.prices[i].minor = Evaluate(Policy[r.rule], Lines(r.cart)[i], r.prices[i].occ,
                                    Days(r.at), r.promo, r.round)

OfABody(r)   == \E ask \in Asks : r.cart = ask.cart
AllPriced(r) == OfABody(r) /\ DOMAIN r.prices = DOMAIN Lines(r.cart)

\* What a request's locals say at each step of its handler.
RequestHolds(r) ==
  /\ IsRequest(r)
  /\ r.at \in Nat /\ r.end \in Nat
  /\ r.step \in {"new", "pricing", "priced", "booked", "refused"}
  /\ r.step \in {"pricing", "priced", "booked"} => PricedRight(r)
  /\ r.step = "pricing" => /\ r.at = now /\ r.end = now
                           /\ OfABody(r) /\ IsSequence(r.prices) /\ Len(r.prices) < Len(Lines(r.cart))
  /\ r.step = "priced"  => AllPriced(r) /\ r.end = now /\ (r.kind = "quote" => r.at = now)
  /\ r.step \in {"priced", "booked"} => r.end - r.at < QUOTE_TTL

TokenHolds(t) ==
  /\ IsRequest(t.quote) /\ t.quote.at \in Nat
  /\ PricedRight(t.quote) /\ AllPriced(t.quote)
  /\ t.exp = t.quote.at + QUOTE_TTL

QuotesInv ==
  /\ now \in Nat
  /\ request = [q \in Requests |-> request[q]]
  /\ \A q \in Requests : RequestHolds(request[q])
  /\ \A t \in tokens : TokenHolds(t)

\* What is appended comes last, and the rest stays where it was.
LEMMA AppendOne ==
  ASSUME NEW s, IsSequence(s), NEW x
  PROVE  /\ IsSequence(Append(s, x))
         /\ Len(s) \in Nat /\ Len(Append(s, x)) = Len(s) + 1
         /\ DOMAIN s = 1..Len(s) /\ DOMAIN Append(s, x) = 1..(Len(s) + 1)
         /\ \A i \in 1..Len(s) : Append(s, x)[i] = s[i]
         /\ Append(s, x)[Len(s) + 1] = x
<1> DEFINE R == {s[i] : i \in DOMAIN s} \cup {x}
           a == Append(s, x)
<1>1. s \in Seq(R) /\ x \in R
  BY DEF IsSequence
<1> HIDE DEF R
<1>2. /\ a \in Seq(R)
      /\ Len(s) \in Nat /\ Len(a) = Len(s) + 1
      /\ DOMAIN s = 1..Len(s) /\ DOMAIN a = 1..(Len(s) + 1)
      /\ \A i \in 1..Len(s) : a[i] = s[i]
      /\ a[Len(s) + 1] = x
  BY <1>1
<1> HIDE DEF a
<1>3. a \in Seq({a[i] : i \in DOMAIN a})
  <2>1. Len(a) \in Nat /\ a = [i \in 1..Len(a) |-> a[i]]
    <3>1. a \in Seq(R)
      BY <1>2
    <3> QED
      BY <3>1
  <2>2. \A i \in 1..Len(a) : a[i] \in {a[j] : j \in DOMAIN a}
    BY <1>2
  <2> QED
    BY <2>1, <2>2
<1> QED
  BY <1>2, <1>3 DEF IsSequence, a

\* The first line that fits does fit.
LEMMA QuotedLine ==
  ASSUME NEW t, TokenHolds(t), NEW l, QuotedPrice(t, l) # {}
  PROVE  \E i \in DOMAIN t.quote.prices :
           Lines(t.quote.cart)[i] = l /\ QuotedPrice(t, l) = {t.quote.prices[i]}
<1> DEFINE quoted == Lines(t.quote.cart)
           fits   == {i \in DOMAIN quoted : quoted[i] = l}
<1>1. QuotedPrice(t, l) = IF fits = {} THEN {} ELSE {t.quote.prices[Min(fits)]}
  BY DEF QuotedPrice, Matches
<1>2. fits # {}
  BY <1>1
<1>3. DOMAIN quoted = 1..Len(quoted) /\ Len(quoted) \in Nat
  BY QuotesAssumption DEF TokenHolds, AllPriced, OfABody
<1>4. fits \in SUBSET Nat
  BY <1>3
<1>5. \E i \in fits : \A j \in fits : i <= j
  <2> HIDE DEF fits
  <2> QED
    BY <1>2, <1>4, LeastNumber
<1>6. Min(fits) \in fits
  <2> HIDE DEF fits
  <2> QED
    BY <1>5 DEF Min
<1>7. Min(fits) \in DOMAIN t.quote.prices /\ quoted[Min(fits)] = l
  BY <1>6 DEF TokenHolds, AllPriced
<1> QED
  BY <1>1, <1>2, <1>7

\* One request changes, the quotes stay: what is left to show is about it alone.
LEMMA OneRequest ==
  ASSUME QuotesInv, UNCHANGED <<now, tokens>>, NEW q \in Requests, NEW r,
         request' = [request EXCEPT ![q] = r],
         RequestHolds(r)
  PROVE  QuotesInv'
<1>1. \A x : RequestHolds(x)' <=> RequestHolds(x)
  BY DEF RequestHolds
<1>2. \A p \in Requests : request'[p] = IF p = q THEN r ELSE request[p]
  BY DEF QuotesInv
<1>3. request' = [p \in Requests |-> request'[p]]
  BY DEF QuotesInv
<1>4. \A p \in Requests : RequestHolds(request'[p])
  BY <1>2 DEF QuotesInv
<1>5. \A p \in Requests : RequestHolds(request[p])'
  BY <1>4 DEF RequestHolds
<1> QED
  BY <1>3, <1>5 DEF QuotesInv

LEMMA FreshHolds ==
  ASSUME now \in Nat
  PROVE  RequestHolds(Fresh)
  BY DEF RequestHolds, IsRequest, Fresh

LEMMA QuotesInvInit == QuotesInit => QuotesInv
<1> SUFFICES ASSUME QuotesInit PROVE QuotesInv
  OBVIOUS
<1>1. RequestHolds(Fresh)
  BY FreshHolds DEF QuotesInit
<1> QED
  BY <1>1 DEF QuotesInit, QuotesInv

LEMMA LoadRulesStep ==
  ASSUME QuotesInv, NEW q \in Requests, LoadRules(q)
  PROVE  QuotesInv'
<1>1. PICK ask \in Asks, kind \in {"quote", "order"} :
        request' = [request EXCEPT ![q] =
            [step |-> "pricing", kind |-> kind, cart |-> ask.cart, prices |-> <<>>, rule |-> InForce,
             currency |-> Policy[InForce].currency, promo |-> ask.promo,
             round |-> IsRoundTrip(ask.cart), at |-> now, end |-> now]]
  BY DEF LoadRules
<1> DEFINE r == [step |-> "pricing", kind |-> kind, cart |-> ask.cart, prices |-> <<>>,
                 rule |-> InForce, currency |-> Policy[InForce].currency, promo |-> ask.promo,
                 round |-> IsRoundTrip(ask.cart), at |-> now, end |-> now]
<1>2. IsSequence(<<>>) /\ Len(<<>>) = 0 /\ DOMAIN <<>> = {}
  BY DEF IsSequence
<1>3. Len(Lines(ask.cart)) \in Nat \ {0}
  BY QuotesAssumption
<1>4. RequestHolds(r)
  BY <1>2, <1>3 DEF QuotesInv, RequestHolds, IsRequest, PricedRight, OfABody
<1>5. request' = [request EXCEPT ![q] = r]
  BY <1>1
<1> HIDE DEF r
<1> QED
  BY <1>4, <1>5, OneRequest DEF LoadRules

\* A request with other prices and at another step, the rest as it was.
Changed(r, p, s) == [r EXCEPT !.prices = p, !.step = s]

LEMMA ChangedFields ==
  ASSUME NEW r, IsRequest(r), NEW p, NEW s, NEW x, x = Changed(r, p, s)
  PROVE  /\ IsRequest(x) /\ x.prices = p /\ x.step = s /\ x.kind = r.kind
         /\ x.rule = r.rule /\ x.currency = r.currency /\ x.cart = r.cart
         /\ x.at = r.at /\ x.end = r.end /\ x.promo = r.promo /\ x.round = r.round
<1>1. PICK f1, f2, f3, f4, f5, f6, f7, f8, f9, f10 :
        r = [step |-> f1, kind |-> f2, cart |-> f3, prices |-> f4, rule |-> f5,
             currency |-> f6, promo |-> f7, round |-> f8, at |-> f9, end |-> f10]
  BY DEF IsRequest
<1>2. PICK y : y = [r EXCEPT !.prices = p]
  OBVIOUS
<1>3. y = [step |-> f1, kind |-> f2, cart |-> f3, prices |-> p, rule |-> f5,
           currency |-> f6, promo |-> f7, round |-> f8, at |-> f9, end |-> f10]
  BY <1>1, <1>2
<1>4. x = [y EXCEPT !.step = s]
  BY <1>2 DEF Changed
<1>5. x = [step |-> s, kind |-> f2, cart |-> f3, prices |-> p, rule |-> f5,
           currency |-> f6, promo |-> f7, round |-> f8, at |-> f9, end |-> f10]
  BY <1>3, <1>4
<1> QED
  BY <1>1, <1>5 DEF IsRequest

\* A priced line keeps what the locals say, also when it is the last one.
LEMMA OneMoreLine ==
  ASSUME NEW r, RequestHolds(r), r.step = "pricing",
         NEW line,
         line.minor = Evaluate(Policy[r.rule], Lines(r.cart)[Len(r.prices) + 1], line.occ,
                               Days(r.at), r.promo, r.round),
         NEW stage \in {"pricing", "priced"},
         stage = "priced" <=> Len(r.prices) + 1 = Len(Lines(r.cart))
  PROVE  RequestHolds(Changed(r, Append(r.prices, line), stage))
<1> DEFINE a == Append(r.prices, line)
<1>1. PICK n \in Nat : n = Len(Lines(r.cart)) /\ DOMAIN Lines(r.cart) = 1..n
  BY QuotesAssumption DEF RequestHolds, OfABody
<1>2. /\ IsSequence(a)
      /\ Len(r.prices) \in Nat /\ Len(a) = Len(r.prices) + 1
      /\ DOMAIN r.prices = 1..Len(r.prices) /\ DOMAIN a = 1..(Len(r.prices) + 1)
      /\ \A i \in 1..Len(r.prices) : a[i] = r.prices[i]
      /\ a[Len(r.prices) + 1] = line
  BY AppendOne DEF RequestHolds
<1> HIDE DEF a
<1>3. PICK more : more = Changed(r, a, stage)
  OBVIOUS
<1>4. /\ IsRequest(more) /\ more.prices = a /\ more.step = stage /\ more.kind = r.kind
      /\ more.rule = r.rule /\ more.currency = r.currency /\ more.cart = r.cart
      /\ more.at = r.at /\ more.end = r.end /\ more.promo = r.promo /\ more.round = r.round
  <2>1. IsRequest(r)
    BY DEF RequestHolds
  <2> QED
    BY <1>3, <2>1, ChangedFields
<1>5. PricedRight(r) /\ r.at = now /\ r.end = now /\ r.at \in Nat
  BY DEF RequestHolds
<1>6. ASSUME NEW i \in DOMAIN more.prices
      PROVE  more.prices[i].minor =
               Evaluate(Policy[more.rule], Lines(more.cart)[i], more.prices[i].occ,
                        Days(more.at), more.promo, more.round)
  <2>1. CASE i = Len(r.prices) + 1
    BY <1>2, <1>4, <2>1
  <2>2. CASE i \in 1..Len(r.prices)
    <3>1. more.prices[i] = r.prices[i] /\ i \in DOMAIN r.prices
      BY <1>2, <1>4, <2>2
    <3>2. r.prices[i].minor =
            Evaluate(Policy[r.rule], Lines(r.cart)[i], r.prices[i].occ,
                     Days(r.at), r.promo, r.round)
      BY <1>5, <3>1 DEF PricedRight
    <3> QED
      BY <1>4, <3>1, <3>2
  <2>3. i \in 1..(Len(r.prices) + 1) /\ Len(r.prices) \in Nat
    BY <1>2, <1>4
  <2> QED
    BY <2>1, <2>2, <2>3
<1>7. more.currency = Policy[more.rule].currency
  BY <1>4, <1>5 DEF PricedRight
<1>8. PricedRight(more)
  BY <1>6, <1>7, Zenon DEF PricedRight
<1>9. OfABody(more)
  BY <1>4 DEF RequestHolds, OfABody
<1>10. ASSUME stage = "priced" PROVE RequestHolds(more)
  <2>1. DOMAIN more.prices = DOMAIN Lines(more.cart)
    BY <1>1, <1>2, <1>4, <1>10
  <2> QED
    BY <1>4, <1>5, <1>8, <1>9, <1>10, <2>1, QuotesAssumption DEF RequestHolds, AllPriced
<1>11. ASSUME stage = "pricing" PROVE RequestHolds(more)
  <2>1. Len(r.prices) < n
    BY <1>1 DEF RequestHolds
  <2>2. Len(more.prices) < Len(Lines(more.cart)) /\ IsSequence(more.prices)
    BY <1>1, <1>2, <1>4, <1>11, <2>1
  <2> QED
    BY <1>4, <1>5, <1>8, <1>9, <1>11, <2>2 DEF RequestHolds
<1> QED
  BY <1>3, <1>10, <1>11 DEF a

LEMMA PriceLineStep ==
  ASSUME QuotesInv, NEW q \in Requests, NEW occ \in Bps, PriceLine(q, occ)
  PROVE  QuotesInv'
<1>1. ASSUME NEW r, RequestHolds(r), r.step = "pricing"
      PROVE  RequestHolds(WithNextLine(r, occ))
  <2> DEFINE l    == NextLine(r)
             line == [minor |-> Evaluate(Policy[r.rule], l, occ, Days(now), r.promo, r.round),
                      occ   |-> occ]
             step == IF Len(r.prices) + 1 = Len(Lines(r.cart)) THEN "priced" ELSE "pricing"
  <2>1. RequestHolds([r EXCEPT !.step = "refused"])
    BY <1>1 DEF RequestHolds, IsRequest
  <2>2. RequestHolds(Changed(r, Append(r.prices, line), step))
    <3>1. /\ line.minor = Evaluate(Policy[r.rule], Lines(r.cart)[Len(r.prices) + 1], line.occ,
                                   Days(r.at), r.promo, r.round)
          /\ step \in {"pricing", "priced"}
          /\ step = "priced" <=> Len(r.prices) + 1 = Len(Lines(r.cart))
      BY <1>1 DEF RequestHolds, NextLine
    <3> HIDE DEF line, step
    <3> QED
      BY <1>1, <3>1, OneMoreLine, Zenon
  <2> QED
    BY <2>1, <2>2 DEF WithNextLine, Changed
<1>2. PICK x : x = WithNextLine(request[q], occ)
  OBVIOUS
<1>3. RequestHolds(x)
  BY <1>1, <1>2 DEF QuotesInv, PriceLine
<1>4. UNCHANGED <<now, tokens>> /\ request' = [request EXCEPT ![q] = x]
  BY <1>2 DEF PriceLine
<1> QED
  BY <1>3, <1>4, OneRequest

LEMMA SignStep ==
  ASSUME QuotesInv, NEW q \in Requests, Sign(q)
  PROVE  QuotesInv'
<1>1. RequestHolds(request[q]) /\ request[q].step = "priced" /\ request[q].kind = "quote"
  BY DEF QuotesInv, Sign
<1> DEFINE t == [quote |-> request[q], exp |-> now + QUOTE_TTL]
<1>2. TokenHolds(t)
  <2>1. t.quote = request[q] /\ t.exp = now + QUOTE_TTL
    OBVIOUS
  <2> HIDE DEF t
  <2> QED
    BY <1>1, <2>1 DEF TokenHolds, RequestHolds
<1>3. \A x \in tokens' : TokenHolds(x)
  BY <1>2 DEF QuotesInv, Sign
<1>4. RequestHolds(Fresh) /\ now' = now /\ request' = [request EXCEPT ![q] = Fresh]
  BY FreshHolds DEF QuotesInv, Sign
<1>5. \A x : RequestHolds(x)' <=> RequestHolds(x)
  BY <1>4 DEF RequestHolds
<1>6. \A p \in Requests : request'[p] = IF p = q THEN Fresh ELSE request[p]
  BY <1>4 DEF QuotesInv
<1>7. \A p \in Requests : RequestHolds(request[p])'
  <2>1. \A p \in Requests : RequestHolds(request'[p])
    BY <1>4, <1>6 DEF QuotesInv
  <2> QED
    BY <1>4, <2>1 DEF RequestHolds
<1>8. request' = [p \in Requests |-> request'[p]]
  BY <1>4 DEF QuotesInv
<1> QED
  BY <1>3, <1>4, <1>7, <1>8 DEF QuotesInv

\* The order of a quote is the quote but for what the client now asks for.
LEMMA QuotedFields ==
  ASSUME NEW t, IsRequest(t.quote), NEW cart, NEW x, x = AtQuotedPrices(t, cart)
  PROVE  /\ IsRequest(x) /\ x.step = "priced" /\ x.kind = "order" /\ x.cart = cart
         /\ x.prices = [i \in DOMAIN Lines(cart) |->
                          CHOOSE p \in QuotedPrice(t, Lines(cart)[i]) : TRUE]
         /\ x.rule = t.quote.rule /\ x.currency = t.quote.currency /\ x.promo = t.quote.promo
         /\ x.round = t.quote.round /\ x.at = t.quote.at /\ x.end = now
<1>1. PICK f1, f2, f3, f4, f5, f6, f7, f8, f9, f10 :
        t.quote = [step |-> f1, kind |-> f2, cart |-> f3, prices |-> f4, rule |-> f5,
                   currency |-> f6, promo |-> f7, round |-> f8, at |-> f9, end |-> f10]
  BY DEF IsRequest
<1>2. PICK ps : ps = [i \in DOMAIN Lines(cart) |->
                       CHOOSE p \in QuotedPrice(t, Lines(cart)[i]) : TRUE]
  OBVIOUS
<1>3. PICK r : r = t.quote
  OBVIOUS
<1>4. PICK y1 : y1 = [r EXCEPT !.step = "priced"]
  OBVIOUS
<1>5. PICK y2 : y2 = [y1 EXCEPT !.kind = "order"]
  OBVIOUS
<1>6. PICK y3 : y3 = [y2 EXCEPT !.cart = cart]
  OBVIOUS
<1>7. PICK y4 : y4 = [y3 EXCEPT !.end = now]
  OBVIOUS
<1>8. PICK y5 : y5 = [y4 EXCEPT !.prices = ps]
  OBVIOUS
<1>9. x = y5
  BY <1>2, <1>3, <1>4, <1>5, <1>6, <1>7, <1>8 DEF AtQuotedPrices
<1>10. y1 = [step |-> "priced", kind |-> f2, cart |-> f3, prices |-> f4, rule |-> f5,
             currency |-> f6, promo |-> f7, round |-> f8, at |-> f9, end |-> f10]
  BY <1>1, <1>3, <1>4
<1>11. y2 = [step |-> "priced", kind |-> "order", cart |-> f3, prices |-> f4, rule |-> f5,
             currency |-> f6, promo |-> f7, round |-> f8, at |-> f9, end |-> f10]
  BY <1>5, <1>10
<1>12. y3 = [step |-> "priced", kind |-> "order", cart |-> cart, prices |-> f4, rule |-> f5,
             currency |-> f6, promo |-> f7, round |-> f8, at |-> f9, end |-> f10]
  BY <1>6, <1>11
<1>13. y4 = [step |-> "priced", kind |-> "order", cart |-> cart, prices |-> f4, rule |-> f5,
             currency |-> f6, promo |-> f7, round |-> f8, at |-> f9, end |-> now]
  BY <1>7, <1>12
<1>14. y5 = [step |-> "priced", kind |-> "order", cart |-> cart, prices |-> ps, rule |-> f5,
             currency |-> f6, promo |-> f7, round |-> f8, at |-> f9, end |-> now]
  BY <1>8, <1>13
<1>15. /\ IsRequest(y5) /\ y5.step = "priced" /\ y5.kind = "order" /\ y5.cart = cart
       /\ y5.prices = ps
       /\ y5.rule = t.quote.rule /\ y5.currency = t.quote.currency /\ y5.promo = t.quote.promo
       /\ y5.round = t.quote.round /\ y5.at = t.quote.at /\ y5.end = now
  BY <1>1, <1>14 DEF IsRequest
<1> QED
  BY <1>2, <1>9, <1>15, Zenon

LEMMA PresentQuoteStep ==
  ASSUME QuotesInv, NEW q \in Requests, PresentQuote(q)
  PROVE  QuotesInv'
<1>1. PICK t \in tokens, ask \in Asks :
        /\ t.exp > now
        /\ \A i \in DOMAIN Lines(ask.cart) : QuotedPrice(t, Lines(ask.cart)[i]) # {}
        /\ request' = [request EXCEPT ![q] = AtQuotedPrices(t, ask.cart)]
  BY DEF PresentQuote
<1>2. PICK x : x = AtQuotedPrices(t, ask.cart)
  OBVIOUS
<1>3. TokenHolds(t)
  BY DEF QuotesInv
<1>4. /\ IsRequest(x) /\ x.step = "priced" /\ x.kind = "order" /\ x.cart = ask.cart
      /\ x.prices = [i \in DOMAIN Lines(ask.cart) |->
                       CHOOSE p \in QuotedPrice(t, Lines(ask.cart)[i]) : TRUE]
      /\ x.rule = t.quote.rule /\ x.currency = t.quote.currency /\ x.promo = t.quote.promo
      /\ x.round = t.quote.round /\ x.at = t.quote.at /\ x.end = now
  <2>1. IsRequest(t.quote)
    BY <1>3 DEF TokenHolds
  <2> QED
    BY <1>2, <2>1, QuotedFields
<1>5. ASSUME NEW i \in DOMAIN x.prices
      PROVE  x.prices[i].minor = Evaluate(Policy[x.rule], Lines(x.cart)[i], x.prices[i].occ,
                                          Days(x.at), x.promo, x.round)
  <2>1. i \in DOMAIN Lines(ask.cart)
    BY <1>4
  <2>2. PICK j \in DOMAIN t.quote.prices :
          /\ Lines(t.quote.cart)[j] = Lines(ask.cart)[i]
          /\ QuotedPrice(t, Lines(ask.cart)[i]) = {t.quote.prices[j]}
    BY <1>1, <1>3, <2>1, QuotedLine
  <2>3. x.prices[i] = t.quote.prices[j]
    BY <1>4, <2>1, <2>2
  <2>4. t.quote.prices[j].minor =
          Evaluate(Policy[t.quote.rule], Lines(t.quote.cart)[j], t.quote.prices[j].occ,
                   Days(t.quote.at), t.quote.promo, t.quote.round)
    BY <1>3 DEF TokenHolds, PricedRight
  <2> QED
    BY <1>4, <2>2, <2>3, <2>4
<1>6. x.currency = Policy[x.rule].currency
  BY <1>3, <1>4 DEF TokenHolds, PricedRight
<1>7. PricedRight(x)
  BY <1>5, <1>6, Zenon DEF PricedRight
<1>8. AllPriced(x)
  BY <1>4 DEF AllPriced, OfABody
<1>9. x.at \in Nat /\ x.end \in Nat /\ x.end - x.at < QUOTE_TTL
  BY <1>1, <1>3, <1>4, QuotesAssumption DEF TokenHolds, QuotesInv
<1>10. RequestHolds(x)
  BY <1>4, <1>7, <1>8, <1>9 DEF RequestHolds
<1>11. UNCHANGED <<now, tokens>> /\ request' = [request EXCEPT ![q] = x]
  BY <1>1, <1>2 DEF PresentQuote
<1> QED
  BY <1>10, <1>11, OneRequest

\* A request that only moves on keeps its fields.
Moved(r, s) == [r EXCEPT !.step = s]

LEMMA MovedFields ==
  ASSUME NEW r, IsRequest(r), NEW s, NEW x, x = Moved(r, s)
  PROVE  /\ IsRequest(x) /\ x.step = s /\ x.kind = r.kind /\ x.prices = r.prices
         /\ x.rule = r.rule /\ x.currency = r.currency /\ x.cart = r.cart
         /\ x.at = r.at /\ x.end = r.end /\ x.promo = r.promo /\ x.round = r.round
<1>1. PICK f1, f2, f3, f4, f5, f6, f7, f8, f9, f10 :
        r = [step |-> f1, kind |-> f2, cart |-> f3, prices |-> f4, rule |-> f5,
             currency |-> f6, promo |-> f7, round |-> f8, at |-> f9, end |-> f10]
  BY DEF IsRequest
<1>2. x = [step |-> s, kind |-> f2, cart |-> f3, prices |-> f4, rule |-> f5,
           currency |-> f6, promo |-> f7, round |-> f8, at |-> f9, end |-> f10]
  BY <1>1 DEF Moved
<1> QED
  BY <1>1, <1>2 DEF IsRequest

LEMMA PlaceStep ==
  ASSUME QuotesInv, NEW q \in Requests, NEW won \in BOOLEAN, Place(q, won)
  PROVE  QuotesInv'
<1>1. PICK r : r = request[q]
  OBVIOUS
<1>2. RequestHolds(r) /\ r.step = "priced"
  BY <1>1 DEF QuotesInv, Place
<1>3. PICK s \in {"booked", "refused"} :
        request' = [request EXCEPT ![q] = [request[q] EXCEPT !.step = s]]
  BY DEF Place
<1>4. PICK x : x = Moved(r, s)
  OBVIOUS
<1>5. /\ IsRequest(x) /\ x.step = s /\ x.kind = r.kind /\ x.prices = r.prices
      /\ x.rule = r.rule /\ x.currency = r.currency /\ x.cart = r.cart
      /\ x.at = r.at /\ x.end = r.end /\ x.promo = r.promo /\ x.round = r.round
  <2>1. IsRequest(r)
    BY <1>2 DEF RequestHolds
  <2> QED
    BY <1>4, <2>1, MovedFields
<1>6. PricedRight(x)
  <2>1. PricedRight(r)
    BY <1>2 DEF RequestHolds
  <2> QED
    BY <1>5, <2>1 DEF PricedRight
<1>7. RequestHolds(x)
  BY <1>2, <1>5, <1>6 DEF RequestHolds
<1>8. UNCHANGED <<now, tokens>> /\ request' = [request EXCEPT ![q] = x]
  BY <1>1, <1>3, <1>4 DEF Place, Moved
<1> QED
  BY <1>7, <1>8, OneRequest

\* Time passes only between requests.
LEMMA TickStep ==
  ASSUME QuotesInv, Tick
  PROVE  QuotesInv'
<1>1. now' = now + 1 /\ request' = request /\ tokens' = tokens /\ now \in Nat
  BY DEF Tick, QuotesInv
<1>2. ASSUME NEW q \in Requests
      PROVE  RequestHolds(request[q])'
  <2>1. RequestHolds(request[q]) /\ request[q].step \notin {"pricing", "priced"}
    BY DEF QuotesInv, Tick
  <2> QED
    BY <1>1, <2>1 DEF RequestHolds
<1>3. \A t \in tokens' : TokenHolds(t)
  BY <1>1 DEF QuotesInv
<1> QED
  BY <1>1, <1>2, <1>3 DEF QuotesInv

LEMMA QuotesInvNext ==
  QuotesInv /\ [QuotesNext]_<<rules_vars, quotes_vars>> => QuotesInv'
<1> SUFFICES ASSUME QuotesInv, [QuotesNext]_<<rules_vars, quotes_vars>>
             PROVE  QuotesInv'
  OBVIOUS
<1>1. CASE UNCHANGED quotes_vars
  <2>1. \A r : RequestHolds(r)' <=> RequestHolds(r)
    BY <1>1 DEF quotes_vars, RequestHolds
  <2> QED
    BY <1>1, <2>1 DEF quotes_vars, QuotesInv
<1>2. ASSUME NEW q \in Requests, RequestStep(q)
      PROVE  QuotesInv'
  BY <1>2, LoadRulesStep, PriceLineStep, SignStep, PresentQuoteStep, PlaceStep DEF RequestStep
<1>3. CASE Tick
  BY <1>3, TickStep
<1> QED
  BY <1>1, <1>2, <1>3 DEF QuotesNext, quotes_vars

\* An order is charged what its ruleset asked for its lines and passengers within
\* the life of a quote, whatever is signed, presented or switched in between.
THEOREM ChargesAreDue == QuotesSpec => []ChargedWhatWasDue
<1>1. QuotesInv => ChargedWhatWasDue
  BY DEF QuotesInv, RequestHolds, PricedRight, ChargedWhatWasDue, PlacedOrders
<1> QED
  BY <1>1, QuotesInvInit, QuotesInvNext, PTL DEF QuotesSpec

-----------------------------------------------------------------------------
(* One row and what is sold of it *)

\* X: the lines sold of a seat; w: its stored word.
SeatExact(w, X) ==
  /\ w \in StoredWords
  /\ \A x \in X : x.span \in Spans
  /\ \A x, y \in X : x # y => SegsOf(x.span) \cap SegsOf(y.span) = {}
  /\ SegmentsIn(w) = UNION {SegsOf(x.span) : x \in X}

\* A claim that met nothing adds its line ...
LEMMA SeatTaken ==
  ASSUME NEW w, NEW X, SeatExact(w, X), NEW x, x \notin X, x.span \in Spans, ~Hits(w, x.span)
  PROVE  SeatExact(SeatClaimed(w, x.span), X \cup {x})
<1>1. /\ SegmentsIn(w) \cap SegsOf(x.span) = {}
      /\ SeatClaimed(w, x.span) \in StoredWords
      /\ SegmentsIn(SeatClaimed(w, x.span)) = SegmentsIn(w) \cup SegsOf(x.span)
  BY WordsAreSets DEF SeatExact
<1>2. \A y \in X : SegsOf(y.span) \cap SegsOf(x.span) = {}
  BY <1>1 DEF SeatExact
<1> QED
  BY <1>1, <1>2 DEF SeatExact

\* ... and a release takes away its own.
LEMMA SeatGiven ==
  ASSUME NEW w, NEW X, SeatExact(w, X), NEW x \in X
  PROVE  SeatExact(SeatReleased(w, x.span), X \ {x})
<1>1. SegsOf(x.span) \subseteq SegmentsIn(w) /\ x.span \in Spans
  BY DEF SeatExact
<1>2. /\ SeatReleased(w, x.span) \in StoredWords
      /\ SegmentsIn(SeatReleased(w, x.span)) = SegmentsIn(w) \ SegsOf(x.span)
  BY <1>1, WordsAreSets DEF SeatExact
<1>3. SegmentsIn(w) \ SegsOf(x.span) = UNION {SegsOf(y.span) : y \in X \ {x}}
  BY DEF SeatExact
<1> QED
  BY <1>2, <1>3 DEF SeatExact

\* X: the lines sold of a pool of c units; row: what is left on each segment.
PoolExact(row, c, X) ==
  /\ row \in [1..NSeg -> Nat]
  /\ \A x \in X : x.span \in Spans /\ UnitsOf(x.line) \in Nat
  /\ \A k \in 1..NSeg : IsFiniteSet(Places(X, k - 1)) /\ row[k] = c - Cardinality(Places(X, k - 1))

LEMMA PlacesOf ==
  ASSUME NEW X, NEW k
  PROVE  \A y : y \in Places(X, k) <=>
                  \E x \in X : /\ x.span.from <= k /\ k < x.span.to
                               /\ y \in {x} \X (1..UnitsOf(x.line))
  BY DEF Places, Over

\* As many places as units.
LEMMA PlacesOfOne ==
  ASSUME NEW x, NEW n \in Nat
  PROVE  IsFiniteSet({x} \X (1..n)) /\ Cardinality({x} \X (1..n)) = n
<1>1. IsFiniteSet(1..n) /\ Cardinality(1..n) = n
  BY FS_Interval
<1>2. IsFiniteSet({x}) /\ Cardinality({x}) = 1
  BY FS_Singleton
<1>3. /\ IsFiniteSet({x} \X (1..n))
      /\ Cardinality({x} \X (1..n)) = Cardinality({x}) * Cardinality(1..n)
  BY <1>1, <1>2, FS_Product, Zenon
<1>4. 1 * n = n
  OBVIOUS
<1> QED
  BY <1>1, <1>2, <1>3, <1>4

LEMMA OnSlice ==
  ASSUME NEW s \in Spans, NEW k \in 1..NSeg
  PROVE  k \in Slice(s) <=> s.from <= k - 1 /\ k - 1 < s.to
  BY SpanFacts DEF Slice

LEMMA PlacesTaken ==
  ASSUME NEW X, NEW k, IsFiniteSet(Places(X, k)), NEW x, x \notin X, UnitsOf(x.line) \in Nat
  PROVE  LET more == IF x.span.from <= k /\ k < x.span.to THEN UnitsOf(x.line) ELSE 0
         IN  /\ IsFiniteSet(Places(X \cup {x}, k))
             /\ Cardinality(Places(X \cup {x}, k)) = Cardinality(Places(X, k)) + more
<1>1. PICK old, new, n : old = Places(X, k) /\ new = {x} \X (1..UnitsOf(x.line)) /\ n = UnitsOf(x.line)
  OBVIOUS
<1>2. CASE x.span.from <= k /\ k < x.span.to
  <2>1. Places(X \cup {x}, k) = old \cup new
    BY <1>1, <1>2 DEF Places, Over
  <2>2. old \cap new = {}
    BY <1>1, PlacesOf
  <2>3. IsFiniteSet(new) /\ Cardinality(new) = n /\ n \in Nat
    BY <1>1, PlacesOfOne
  <2>4. /\ IsFiniteSet(old \cup new)
        /\ Cardinality(old \cup new) = Cardinality(old) + Cardinality(new) - Cardinality(old \cap new)
    BY <1>1, <2>3, FS_Union
  <2>5. Cardinality(old \cap new) = 0 /\ Cardinality(old) \in Nat
    BY <1>1, <2>2, FS_EmptySet, FS_CardinalityType
  <2>6. Cardinality(old \cup new) = Cardinality(old) + n
    BY <2>3, <2>4, <2>5
  <2> QED
    BY <1>1, <1>2, <2>1, <2>4, <2>6
<1>3. CASE ~(x.span.from <= k /\ k < x.span.to)
  <2>1. Places(X \cup {x}, k) = old
    BY <1>1, <1>3 DEF Places, Over
  <2>2. Cardinality(old) \in Nat
    BY <1>1, FS_CardinalityType
  <2> QED
    BY <1>1, <1>3, <2>1, <2>2
<1> QED
  BY <1>2, <1>3

LEMMA PlacesGiven ==
  ASSUME NEW X, NEW k, IsFiniteSet(Places(X, k)), NEW x \in X, UnitsOf(x.line) \in Nat
  PROVE  LET less == IF x.span.from <= k /\ k < x.span.to THEN UnitsOf(x.line) ELSE 0
         IN  /\ IsFiniteSet(Places(X \ {x}, k))
             /\ Cardinality(Places(X, k)) = Cardinality(Places(X \ {x}, k)) + less
<1>1. Places(X \ {x}, k) \subseteq Places(X, k)
  BY DEF Places, Over
<1>2. IsFiniteSet(Places(X \ {x}, k))
  BY <1>1, FS_Subset
<1>3. x \notin X \ {x} /\ (X \ {x}) \cup {x} = X
  OBVIOUS
<1> QED
  BY <1>2, <1>3, PlacesTaken

LEMMA PoolTaken ==
  ASSUME NEW row, NEW c \in Nat, NEW X, PoolExact(row, c, X), NEW x, x \notin X,
         x.span \in Spans, UnitsOf(x.line) \in Nat, PoolTakes(row, x.span, UnitsOf(x.line))
  PROVE  PoolExact(PoolClaimed(row, x.span, UnitsOf(x.line)), c, X \cup {x})
<1> DEFINE after == PoolClaimed(row, x.span, UnitsOf(x.line))
           Y     == X \cup {x}
<1>1. ASSUME NEW k \in 1..NSeg
      PROVE  /\ after[k] \in Nat
             /\ IsFiniteSet(Places(Y, k - 1)) /\ after[k] = c - Cardinality(Places(Y, k - 1))
  <2>1. PICK more \in Nat, old \in Nat :
          /\ more = IF k \in Slice(x.span) THEN UnitsOf(x.line) ELSE 0
          /\ old = Cardinality(Places(X, k - 1)) /\ row[k] = c - old /\ row[k] \in Nat
          /\ IsFiniteSet(Places(X, k - 1))
    BY FS_CardinalityType DEF PoolExact
  <2>2. after[k] = row[k] - more /\ row[k] >= more
    BY <2>1 DEF PoolClaimed, PoolTakes, PoolExact
  <2>3. /\ IsFiniteSet(Places(Y, k - 1))
        /\ Cardinality(Places(Y, k - 1)) = old + more
    BY <2>1, PlacesTaken, OnSlice
  <2> QED
    BY <2>1, <2>2, <2>3
<1>2. after = [k \in 1..NSeg |-> after[k]]
  BY DEF PoolClaimed, PoolExact
<1>3. after \in [1..NSeg -> Nat]
  <2> HIDE DEF after
  <2> QED
    BY <1>1, <1>2
<1> QED
  BY <1>1, <1>3 DEF PoolExact

LEMMA PoolGiven ==
  ASSUME NEW row, NEW c \in Nat, NEW X, PoolExact(row, c, X), NEW x \in X
  PROVE  PoolExact(PoolReleased(row, x.span, UnitsOf(x.line), c), c, X \ {x})
<1> DEFINE after == PoolReleased(row, x.span, UnitsOf(x.line), c)
           Y     == X \ {x}
<1>1. PICK n \in Nat : n = UnitsOf(x.line)
  BY DEF PoolExact
<1>2. ASSUME NEW k \in 1..NSeg
      PROVE  \E less, few \in Nat :
               /\ less = IF k \in Slice(x.span) THEN n ELSE 0
               /\ few = Cardinality(Places(Y, k - 1)) /\ IsFiniteSet(Places(Y, k - 1))
               /\ row[k] \in Nat /\ row[k] = c - (few + less)
  <2>1. PICK less \in Nat : less = IF k \in Slice(x.span) THEN n ELSE 0
    BY <1>1
  <2>2. /\ row[k] \in Nat /\ row[k] = c - Cardinality(Places(X, k - 1))
        /\ IsFiniteSet(Places(X, k - 1)) /\ x.span \in Spans
    BY DEF PoolExact
  <2>3. /\ IsFiniteSet(Places(Y, k - 1))
        /\ Cardinality(Places(X, k - 1)) = Cardinality(Places(Y, k - 1)) + less
    BY <1>1, <2>1, <2>2, PlacesGiven, OnSlice
  <2>4. Cardinality(Places(Y, k - 1)) \in Nat
    BY <2>3, FS_CardinalityType
  <2> QED
    BY <2>1, <2>2, <2>3, <2>4
<1>3. \A k \in Slice(x.span) : k \in 1..NSeg
  <2>1. x.span \in Spans
    BY DEF PoolExact
  <2> QED
    BY <2>1, SpanFacts, OnTheRoute DEF Slice
<1>4. \A k \in Slice(x.span) : row[k] + n <= c
  <2> SUFFICES ASSUME NEW k \in Slice(x.span) PROVE row[k] + n <= c
    OBVIOUS
  <2>1. PICK few \in Nat : row[k] = c - (few + n)
    BY <1>2, <1>3
  <2> QED
    BY <1>1, <2>1
<1>5. after = [k \in 1..NSeg |-> IF k \in Slice(x.span) THEN row[k] - (-n) ELSE row[k]]
  BY <1>1, <1>4 DEF PoolReleased, PoolClaimed, PoolExact
<1>6. ASSUME NEW k \in 1..NSeg
      PROVE  after[k] \in Nat /\ IsFiniteSet(Places(Y, k - 1)) /\ after[k] = c - Cardinality(Places(Y, k - 1))
  <2>1. PICK less \in Nat, few \in Nat :
          /\ less = IF k \in Slice(x.span) THEN n ELSE 0
          /\ few = Cardinality(Places(Y, k - 1)) /\ IsFiniteSet(Places(Y, k - 1))
          /\ row[k] \in Nat /\ row[k] = c - (few + less)
    BY <1>2
  <2>2. after[k] = row[k] + less
    <3> HIDE DEF after
    <3> QED
      BY <1>1, <1>5, <2>1
  <2> QED
    BY <2>1, <2>2
<1>7. after \in [1..NSeg -> Nat]
  <2> HIDE DEF after
  <2> QED
    BY <1>5, <1>6
<1> HIDE DEF after
<1> QED
  BY <1>6, <1>7 DEF PoolExact, after

-----------------------------------------------------------------------------
(* Carts and their lines *)

Carts == Walkups \cup {ask.cart : ask \in Asks}

\* The lines of a cart for a unit on a trip.
On(cart, t, u) == {l \in ToSet(Lines(cart)) : l.trip = t /\ l.item.unit = u}

LEMMA LineFacts ==
  ASSUME NEW cart \in Carts, NEW l \in ToSet(Lines(cart))
  PROVE  /\ l.trip \in Trips /\ l.item.unit \in Seats \cup Pools /\ l.item.quantity \in Int
         /\ SpanOf(l) \in Spans
<1>1. /\ l.trip \in Trips /\ l.item.unit \in Seats \cup Pools /\ l.item.quantity \in Int
      /\ PickSpan(Route[l.trip], l.item.origin, l.item.destination) # {}
  BY FaresAssumption DEF Carts
<1>2. SpansAgree(Route[l.trip], l.item.origin, l.item.destination)
  BY <1>1, FaresAssumption, JourneysAgree
<1>3. PickSpan(Route[l.trip], l.item.origin, l.item.destination) \subseteq Spans
  BY <1>2 DEF SpansAgree, SearchSpans
<1>4. SpanOf(l) \in PickSpan(Route[l.trip], l.item.origin, l.item.destination)
  BY <1>1 DEF SpanOf
<1> QED
  BY <1>1, <1>3, <1>4

LEMMA OneLine ==
  ASSUME NEW cart, UnitsApart(cart), NEW t, NEW u, NEW l \in On(cart, t, u)
  PROVE  /\ On(cart, t, u) = {l}
         /\ l = CHOOSE x \in ToSet(Lines(cart)) : x.trip = t /\ x.item.unit = u
<1>1. \A x, y \in On(cart, t, u) : x = y
  BY DEF UnitsApart, On, ToSet
<1> QED
  BY <1>1 DEF On

\* What a booking does to a row, and a release.
LEMMA RowsBooked ==
  ASSUME NEW cart, UnitsApart(cart), BookLines(ToSet(Lines(cart))), NEW t \in Trips
  PROVE  /\ \A s \in Seats :
              /\ On(cart, t, s) = {} => mask'[t][s] = mask[t][s]
              /\ \A l \in On(cart, t, s) : mask'[t][s] = SeatClaimed(mask[t][s], SpanOf(l))
         /\ \A p \in Pools :
              /\ On(cart, t, p) = {} => left'[t][p] = left[t][p]
              /\ \A l \in On(cart, t, p) :
                   left'[t][p] = PoolClaimed(left[t][p], SpanOf(l), l.item.quantity)
<1>1. ASSUME NEW s \in Seats
      PROVE  /\ On(cart, t, s) = {} => mask'[t][s] = mask[t][s]
             /\ \A l \in On(cart, t, s) : mask'[t][s] = SeatClaimed(mask[t][s], SpanOf(l))
  <2>1. CASE On(cart, t, s) = {}
    BY <2>1 DEF BookLines, On
  <2>2. ASSUME NEW l \in On(cart, t, s)
        PROVE  mask'[t][s] = SeatClaimed(mask[t][s], SpanOf(l))
    <3>1. l = CHOOSE x \in ToSet(Lines(cart)) : x.trip = t /\ x.item.unit = s
      BY OneLine
    <3>2. \E x \in ToSet(Lines(cart)) : x.trip = t /\ x.item.unit = s
      BY DEF On
    <3> QED
      BY <3>1, <3>2 DEF BookLines
  <2> QED
    BY <2>1, <2>2
<1>2. ASSUME NEW p \in Pools
      PROVE  /\ On(cart, t, p) = {} => left'[t][p] = left[t][p]
             /\ \A l \in On(cart, t, p) :
                  left'[t][p] = PoolClaimed(left[t][p], SpanOf(l), l.item.quantity)
  <2>1. CASE On(cart, t, p) = {}
    BY <2>1 DEF BookLines, On
  <2>2. ASSUME NEW l \in On(cart, t, p)
        PROVE  left'[t][p] = PoolClaimed(left[t][p], SpanOf(l), l.item.quantity)
    <3>1. l = CHOOSE x \in ToSet(Lines(cart)) : x.trip = t /\ x.item.unit = p
      BY OneLine
    <3>2. \E x \in ToSet(Lines(cart)) : x.trip = t /\ x.item.unit = p
      BY DEF On
    <3> QED
      BY <3>1, <3>2 DEF BookLines
  <2> QED
    BY <2>1, <2>2
<1> QED
  BY <1>1, <1>2

LEMMA RowsReleased ==
  ASSUME NEW cart, UnitsApart(cart), ReleaseLines(ToSet(Lines(cart))), NEW t \in Trips
  PROVE  /\ \A s \in Seats :
              /\ On(cart, t, s) = {} => mask'[t][s] = mask[t][s]
              /\ \A l \in On(cart, t, s) : mask'[t][s] = SeatReleased(mask[t][s], SpanOf(l))
         /\ \A p \in Pools :
              /\ On(cart, t, p) = {} => left'[t][p] = left[t][p]
              /\ \A l \in On(cart, t, p) :
                   left'[t][p] = PoolReleased(left[t][p], SpanOf(l), l.item.quantity, Capacity[p])
<1>1. ASSUME NEW s \in Seats
      PROVE  /\ On(cart, t, s) = {} => mask'[t][s] = mask[t][s]
             /\ \A l \in On(cart, t, s) : mask'[t][s] = SeatReleased(mask[t][s], SpanOf(l))
  <2>1. CASE On(cart, t, s) = {}
    BY <2>1 DEF ReleaseLines, On
  <2>2. ASSUME NEW l \in On(cart, t, s)
        PROVE  mask'[t][s] = SeatReleased(mask[t][s], SpanOf(l))
    <3>1. l = CHOOSE x \in ToSet(Lines(cart)) : x.trip = t /\ x.item.unit = s
      BY OneLine
    <3>2. \E x \in ToSet(Lines(cart)) : x.trip = t /\ x.item.unit = s
      BY DEF On
    <3> QED
      BY <3>1, <3>2 DEF ReleaseLines
  <2> QED
    BY <2>1, <2>2
<1>2. ASSUME NEW p \in Pools
      PROVE  /\ On(cart, t, p) = {} => left'[t][p] = left[t][p]
             /\ \A l \in On(cart, t, p) :
                  left'[t][p] = PoolReleased(left[t][p], SpanOf(l), l.item.quantity, Capacity[p])
  <2>1. CASE On(cart, t, p) = {}
    BY <2>1 DEF ReleaseLines, On
  <2>2. ASSUME NEW l \in On(cart, t, p)
        PROVE  left'[t][p] = PoolReleased(left[t][p], SpanOf(l), l.item.quantity, Capacity[p])
    <3>1. l = CHOOSE x \in ToSet(Lines(cart)) : x.trip = t /\ x.item.unit = p
      BY OneLine
    <3>2. \E x \in ToSet(Lines(cart)) : x.trip = t /\ x.item.unit = p
      BY DEF On
    <3> QED
      BY <3>1, <3>2 DEF ReleaseLines
  <2> QED
    BY <2>1, <2>2
<1> QED
  BY <1>1, <1>2

-----------------------------------------------------------------------------
(* The ledger as stored *)

\* A cart that was booked.
Bookable(cart) ==
  /\ cart \in Carts /\ UnitsApart(cart)
  /\ \A l \in ToSet(Lines(cart)) : l.item.unit \in Pools => l.item.quantity > 0

LedgerInv ==
  /\ mask \in [Trips -> [Seats -> StoredWords]]
  /\ left \in [Trips -> [Pools -> [1..NSeg -> Nat]]]
  /\ walkup \subseteq Walkups
  /\ \A h \in Holders : Bookable(CartOf(h))
  /\ \A t \in Trips, s \in Seats : SeatExact(mask[t][s], SoldOn(Sold, t, s))
  /\ \A t \in Trips, p \in Pools : PoolExact(left[t][p], Capacity[p], SoldOn(Sold, t, p))

\* Steps are of three kinds, as in OrdersProofs.
Same(h) == CartOf(h)' = CartOf(h)

Quietly ==
  /\ UNCHANGED <<ledger, walkup>>
  /\ Holders' = Holders
  /\ \A h \in Holders : Same(h)

Takes(h, cart) ==
  /\ cart \in Carts /\ CanBookAll(cart) /\ BookLines(ToSet(Lines(cart)))
  /\ walkup' \subseteq Walkups
  /\ h \notin Holders /\ Holders' = Holders \cup {h}
  /\ CartOf(h)' = cart
  /\ \A d \in Holders : Same(d)

Gives(h) ==
  /\ h \in Holders /\ Holders' = Holders \ {h}
  /\ ReleaseLines(ToSet(Lines(CartOf(h))))
  /\ walkup' \subseteq walkup
  /\ \A d \in Holders : Same(d)

\* The line of a holder for a unit, as it is counted among what is sold.
LEMMA SoldLines ==
  ASSUME NEW h, NEW cart, UnitsApart(cart), NEW t, NEW u
  PROVE  /\ On(cart, t, u) = {} => SoldOn(LinesOf(h, cart), t, u) = {}
         /\ \A l \in On(cart, t, u) :
              SoldOn(LinesOf(h, cart), t, u) = {[holder |-> h, line |-> l, span |-> SpanOf(l)]}
<1>1. SoldOn(LinesOf(h, cart), t, u) =
        {[holder |-> h, line |-> l, span |-> SpanOf(l)] : l \in On(cart, t, u)}
  BY DEF SoldOn, LinesOf, On
<1> QED
  BY <1>1, OneLine

-----------------------------------------------------------------------------
(* What booking and releasing a cart do to each row *)

LEMMA SoldOf ==
  /\ \A x : x \in Sold <=> \E d \in Holders : x \in LinesOf(d, CartOf(d))
  /\ \A d, cart : \A x \in LinesOf(d, cart) : x.holder = d
  BY DEF Sold, LinesOf

LEMMA QuietSold == Quietly => Sold' = Sold
  BY DEF Quietly, Same, Sold

LEMMA TakesSold ==
  ASSUME NEW h, NEW cart, Takes(h, cart), NEW t, NEW u
  PROVE  /\ SoldOn(Sold, t, u)' = SoldOn(Sold, t, u) \cup SoldOn(LinesOf(h, cart), t, u)
         /\ \A x \in SoldOn(Sold, t, u) : x.holder # h
<1>1. Sold' = Sold \cup LinesOf(h, cart)
  BY DEF Takes, Same, Sold
<1>2. \A x \in Sold : x.holder # h
  BY SoldOf DEF Takes
<1> QED
  BY <1>1, <1>2 DEF SoldOn

LEMMA GivesSold ==
  ASSUME NEW h, Gives(h), NEW t, NEW u
  PROVE  SoldOn(Sold, t, u)' = SoldOn(Sold, t, u) \ SoldOn(LinesOf(h, CartOf(h)), t, u)
<1>1. Sold' = UNION {LinesOf(d, CartOf(d)) : d \in Holders \ {h}}
  BY DEF Gives, Same, Sold
<1>2. Sold' = Sold \ LinesOf(h, CartOf(h))
  BY <1>1, SoldOf
<1> QED
  BY <1>2 DEF SoldOn

LEMMA TakesSeat ==
  ASSUME LedgerInv, NEW h, NEW cart, Takes(h, cart), NEW t \in Trips, NEW s \in Seats
  PROVE  SeatExact(mask'[t][s], SoldOn(Sold, t, s)')
<1>1. UnitsApart(cart) /\ cart \in Carts
  BY DEF Takes, CanBookAll
<1>2. SeatExact(mask[t][s], SoldOn(Sold, t, s))
  BY DEF LedgerInv
<1>3. CASE On(cart, t, s) = {}
  <2>1. mask'[t][s] = mask[t][s]
    BY <1>1, <1>3, RowsBooked DEF Takes
  <2>2. SoldOn(LinesOf(h, cart), t, s) = {}
    BY <1>1, <1>3, SoldLines
  <2>3. SoldOn(Sold, t, s)' = SoldOn(Sold, t, s)
    <3>1. SoldOn(Sold, t, s)' = SoldOn(Sold, t, s) \cup {}
      BY <2>2, TakesSold
    <3> QED
      BY <3>1
  <2> QED
    BY <1>2, <2>1, <2>3
<1>4. ASSUME NEW l \in On(cart, t, s)
      PROVE  SeatExact(mask'[t][s], SoldOn(Sold, t, s)')
  <2>1. PICK x : x = [holder |-> h, line |-> l, span |-> SpanOf(l)]
    OBVIOUS
  <2>2. l \in ToSet(Lines(cart)) /\ l.trip = t /\ l.item.unit = s
    BY DEF On
  <2>3. x.span \in Spans /\ ~Hits(mask[t][s], x.span)
    BY <1>1, <2>1, <2>2, LineFacts DEF Takes, CanBookAll, CanBook
  <2>4. SoldOn(Sold, t, s)' = SoldOn(Sold, t, s) \cup {x} /\ x \notin SoldOn(Sold, t, s)
    BY <1>1, <2>1, SoldLines, TakesSold
  <2>5. mask'[t][s] = SeatClaimed(mask[t][s], x.span)
    BY <1>1, <2>1, RowsBooked DEF Takes
  <2> QED
    BY <1>2, <2>3, <2>4, <2>5, SeatTaken
<1> QED
  BY <1>3, <1>4

LEMMA GivesSeat ==
  ASSUME LedgerInv, NEW h, Gives(h), NEW t \in Trips, NEW s \in Seats
  PROVE  SeatExact(mask'[t][s], SoldOn(Sold, t, s)')
<1>1. PICK cart : cart = CartOf(h)
  OBVIOUS
<1>2. UnitsApart(cart) /\ cart \in Carts /\ LinesOf(h, cart) \subseteq Sold
  BY <1>1, SoldOf DEF Gives, LedgerInv, Bookable
<1>3. SeatExact(mask[t][s], SoldOn(Sold, t, s))
  BY DEF LedgerInv
<1>4. CASE On(cart, t, s) = {}
  <2>1. mask'[t][s] = mask[t][s]
    BY <1>1, <1>2, <1>4, RowsReleased DEF Gives
  <2>2. SoldOn(LinesOf(h, cart), t, s) = {}
    BY <1>1, <1>2, <1>4, SoldLines
  <2>3. SoldOn(Sold, t, s)' = SoldOn(Sold, t, s)
    <3>1. SoldOn(Sold, t, s)' = SoldOn(Sold, t, s) \ {}
      BY <1>1, <2>2, GivesSold
    <3> QED
      BY <3>1
  <2> QED
    BY <1>3, <2>1, <2>3
<1>5. ASSUME NEW l \in On(cart, t, s)
      PROVE  SeatExact(mask'[t][s], SoldOn(Sold, t, s)')
  <2>1. PICK x : x = [holder |-> h, line |-> l, span |-> SpanOf(l)]
    OBVIOUS
  <2>2. SoldOn(LinesOf(h, cart), t, s) = {x} /\ SoldOn(Sold, t, s)' = SoldOn(Sold, t, s) \ {x}
    BY <1>1, <1>2, <2>1, SoldLines, GivesSold
  <2>3. x \in SoldOn(Sold, t, s)
    BY <1>2, <2>2 DEF SoldOn
  <2>4. mask'[t][s] = SeatReleased(mask[t][s], x.span)
    BY <1>1, <1>2, <2>1, RowsReleased DEF Gives
  <2> QED
    <3>1. SeatExact(SeatReleased(mask[t][s], x.span), SoldOn(Sold, t, s) \ {x})
      BY <1>3, <2>3, SeatGiven, Zenon
    <3> QED
      BY <2>2, <2>4, <3>1
<1> QED
  BY <1>4, <1>5

LEMMA TakesPool ==
  ASSUME LedgerInv, NEW h, NEW cart, Takes(h, cart), NEW t \in Trips, NEW p \in Pools
  PROVE  PoolExact(left'[t][p], Capacity[p], SoldOn(Sold, t, p)')
<1>1. UnitsApart(cart) /\ cart \in Carts /\ Capacity[p] \in Nat /\ p \notin Seats
  BY FaresAssumption DEF Takes, CanBookAll
<1>2. PoolExact(left[t][p], Capacity[p], SoldOn(Sold, t, p))
  BY DEF LedgerInv
<1>3. CASE On(cart, t, p) = {}
  <2>1. left'[t][p] = left[t][p]
    BY <1>1, <1>3, RowsBooked DEF Takes
  <2>2. SoldOn(LinesOf(h, cart), t, p) = {}
    BY <1>1, <1>3, SoldLines
  <2>3. SoldOn(Sold, t, p)' = SoldOn(Sold, t, p)
    <3>1. SoldOn(Sold, t, p)' = SoldOn(Sold, t, p) \cup {}
      BY <2>2, TakesSold
    <3> QED
      BY <3>1
  <2> QED
    BY <1>2, <2>1, <2>3
<1>4. ASSUME NEW l \in On(cart, t, p)
      PROVE  PoolExact(left'[t][p], Capacity[p], SoldOn(Sold, t, p)')
  <2>1. PICK x : x = [holder |-> h, line |-> l, span |-> SpanOf(l)]
    OBVIOUS
  <2>2. l \in ToSet(Lines(cart)) /\ l.trip = t /\ l.item.unit = p
    BY DEF On
  <2>3. /\ x.span \in Spans /\ l.item.quantity \in Int /\ l.item.quantity > 0
        /\ PoolTakes(left[t][p], x.span, l.item.quantity)
    <3>1. CanBook(l)
      BY <2>2 DEF Takes, CanBookAll
    <3>2. l.item.quantity > 0 /\ PoolTakes(left[t][p], SpanOf(l), l.item.quantity)
      BY <1>1, <2>2, <3>1 DEF CanBook
    <3>3. SpanOf(l) \in Spans /\ l.item.quantity \in Int
      BY <1>1, <2>2, LineFacts
    <3> QED
      BY <2>1, <3>2, <3>3
  <2>4. UnitsOf(x.line) = l.item.quantity /\ UnitsOf(x.line) \in Nat
    BY <1>1, <2>1, <2>2, <2>3 DEF UnitsOf
  <2>5. SoldOn(Sold, t, p)' = SoldOn(Sold, t, p) \cup {x} /\ x \notin SoldOn(Sold, t, p)
    BY <1>1, <2>1, SoldLines, TakesSold
  <2>6. left'[t][p] = PoolClaimed(left[t][p], x.span, l.item.quantity)
    BY <1>1, <2>1, RowsBooked DEF Takes
  <2>7. /\ left'[t][p] = PoolClaimed(left[t][p], x.span, UnitsOf(x.line))
        /\ PoolTakes(left[t][p], x.span, UnitsOf(x.line))
    BY <2>3, <2>4, <2>6
  <2>8. PoolExact(left'[t][p], Capacity[p], SoldOn(Sold, t, p) \cup {x})
    <3>1. PICK row, X, c : row = left[t][p] /\ X = SoldOn(Sold, t, p) /\ c = Capacity[p]
      OBVIOUS
    <3>2. PoolExact(PoolClaimed(row, x.span, UnitsOf(x.line)), c, X \cup {x})
      <4>1. c \in Nat /\ PoolExact(row, c, X) /\ x \notin X
        BY <1>1, <1>2, <2>5, <3>1
      <4>2. x.span \in Spans /\ UnitsOf(x.line) \in Nat /\ PoolTakes(row, x.span, UnitsOf(x.line))
        BY <2>3, <2>4, <2>7, <3>1
      <4> QED
        BY <4>1, <4>2, PoolTaken
    <3> QED
      BY <2>7, <3>1, <3>2
  <2> QED
    BY <2>5, <2>8
<1> QED
  BY <1>3, <1>4

LEMMA GivesPool ==
  ASSUME LedgerInv, NEW h, Gives(h), NEW t \in Trips, NEW p \in Pools
  PROVE  PoolExact(left'[t][p], Capacity[p], SoldOn(Sold, t, p)')
<1>1. PICK cart : cart = CartOf(h)
  OBVIOUS
<1>2. /\ UnitsApart(cart) /\ cart \in Carts /\ LinesOf(h, cart) \subseteq Sold
      /\ Capacity[p] \in Nat /\ p \notin Seats
  BY <1>1, SoldOf, FaresAssumption DEF Gives, LedgerInv, Bookable
<1>3. PoolExact(left[t][p], Capacity[p], SoldOn(Sold, t, p))
  BY DEF LedgerInv
<1>4. CASE On(cart, t, p) = {}
  <2>1. left'[t][p] = left[t][p]
    BY <1>1, <1>2, <1>4, RowsReleased DEF Gives
  <2>2. SoldOn(LinesOf(h, cart), t, p) = {}
    BY <1>1, <1>2, <1>4, SoldLines
  <2>3. SoldOn(Sold, t, p)' = SoldOn(Sold, t, p)
    <3>1. SoldOn(Sold, t, p)' = SoldOn(Sold, t, p) \ {}
      BY <1>1, <2>2, GivesSold
    <3> QED
      BY <3>1
  <2> QED
    BY <1>3, <2>1, <2>3
<1>5. ASSUME NEW l \in On(cart, t, p)
      PROVE  PoolExact(left'[t][p], Capacity[p], SoldOn(Sold, t, p)')
  <2>1. PICK x : x = [holder |-> h, line |-> l, span |-> SpanOf(l)]
    OBVIOUS
  <2>2. SoldOn(LinesOf(h, cart), t, p) = {x} /\ SoldOn(Sold, t, p)' = SoldOn(Sold, t, p) \ {x}
    BY <1>1, <1>2, <2>1, SoldLines, GivesSold
  <2>3. x \in SoldOn(Sold, t, p)
    BY <1>2, <2>2 DEF SoldOn
  <2>4. UnitsOf(x.line) = l.item.quantity
    BY <1>2, <2>1 DEF UnitsOf, On
  <2>5. left'[t][p] = PoolReleased(left[t][p], x.span, l.item.quantity, Capacity[p])
    BY <1>1, <1>2, <2>1, RowsReleased DEF Gives
  <2>6. left'[t][p] = PoolReleased(left[t][p], x.span, UnitsOf(x.line), Capacity[p])
    BY <2>4, <2>5
  <2>7. PoolExact(left'[t][p], Capacity[p], SoldOn(Sold, t, p) \ {x})
    <3>1. PoolExact(PoolReleased(left[t][p], x.span, UnitsOf(x.line), Capacity[p]), Capacity[p],
                    SoldOn(Sold, t, p) \ {x})
      BY <1>2, <1>3, <2>3, PoolGiven
    <3> QED
      BY <2>6, <3>1
  <2> QED
    BY <2>2, <2>7
<1> QED
  BY <1>4, <1>5

-----------------------------------------------------------------------------
(* Steps: quiet, one cart more, one cart less *)

\* Orders that are placed stay, with their carts.
PlacedStay ==
  /\ PlacedOrders' = PlacedOrders
  /\ \A p \in PlacedOrders : request'[p] = request[p]

LEMMA Unplaced ==
  ASSUME QuotesInv, NEW q \in Requests, request[q].step # "booked", NEW r, r.step # "booked",
         request' = [request EXCEPT ![q] = r]
  PROVE  PlacedStay
<1>1. \A p \in Requests : request'[p] = IF p = q THEN r ELSE request[p]
  BY DEF QuotesInv
<1> QED
  BY <1>1 DEF PlacedStay, PlacedOrders

LEMMA QuotingPlacesNothing ==
  ASSUME QuotesInv,
         NEW q \in Requests,
         LoadRules(q) \/ (\E occ \in Bps : PriceLine(q, occ)) \/ Sign(q) \/ PresentQuote(q)
  PROVE  PlacedStay
<1>1. ASSUME LoadRules(q) PROVE PlacedStay
  <2>1. PICK r : r.step = "pricing" /\ request' = [request EXCEPT ![q] = r]
    BY <1>1 DEF LoadRules
  <2>2. request[q].step = "new"
    BY <1>1 DEF LoadRules, Fresh
  <2> QED
    BY <2>1, <2>2, Unplaced
<1>2. ASSUME NEW occ \in Bps, PriceLine(q, occ) PROVE PlacedStay
  <2>1. PICK r, x : /\ r = request[q] /\ x = WithNextLine(r, occ)
                    /\ request' = [request EXCEPT ![q] = x] /\ r.step = "pricing" /\ IsRequest(r)
    BY <1>2 DEF PriceLine, QuotesInv, RequestHolds
  <2>2. \/ x = Moved(r, "refused")
        \/ \E p : x = Changed(r, p, "priced") \/ x = Changed(r, p, "pricing")
    BY <2>1 DEF WithNextLine, Moved, Changed
  <2>3. x.step # "booked"
    BY <2>1, <2>2, MovedFields, ChangedFields
  <2> QED
    BY <2>1, <2>3, Unplaced
<1>3. ASSUME Sign(q) PROVE PlacedStay
  <2>1. request[q].step = "priced" /\ request' = [request EXCEPT ![q] = Fresh]
    BY <1>3 DEF Sign
  <2>2. Fresh.step = "new"
    BY DEF Fresh
  <2> QED
    BY <2>1, <2>2, Unplaced
<1>4. ASSUME PresentQuote(q) PROVE PlacedStay
  <2>1. PICK t \in tokens, ask \in Asks :
          request' = [request EXCEPT ![q] = AtQuotedPrices(t, ask.cart)]
    BY <1>4 DEF PresentQuote
  <2>2. PICK x : x = AtQuotedPrices(t, ask.cart)
    OBVIOUS
  <2>3. /\ IsRequest(x) /\ x.step = "priced" /\ x.kind = "order" /\ x.cart = ask.cart
        /\ x.prices = [i \in DOMAIN Lines(ask.cart) |->
                         CHOOSE p \in QuotedPrice(t, Lines(ask.cart)[i]) : TRUE]
        /\ x.rule = t.quote.rule /\ x.currency = t.quote.currency /\ x.promo = t.quote.promo
        /\ x.round = t.quote.round /\ x.at = t.quote.at /\ x.end = now
    <3>1. IsRequest(t.quote)
      BY DEF QuotesInv, TokenHolds
    <3> QED
      BY <2>2, <3>1, QuotedFields
  <2>4. request[q].step = "new"
    BY <1>4 DEF PresentQuote, Fresh
  <2>5. x.step # "booked" /\ request[q].step # "booked"
    BY <2>3, <2>4
  <2>6. request' = [request EXCEPT ![q] = x]
    BY <2>1, <2>2
  <2> QED
    BY <2>5, <2>6, Unplaced
<1> QED
  BY <1>1, <1>2, <1>3, <1>4

LEMMA StaysQuiet ==
  ASSUME UNCHANGED <<ledger, walkup>>, PlacedStay
  PROVE  Quietly
<1>1. Holders' = Holders
  BY DEF PlacedStay, Holders
<1>2. ASSUME NEW h \in Holders PROVE CartOf(h)' = CartOf(h)
  <2>1. h[1] = "order" => h[2] \in PlacedOrders
    BY DEF Holders
  <2> QED
    BY <2>1 DEF CartOf, PlacedStay
<1> QED
  BY <1>1, <1>2 DEF Quietly, Same

\* An order is placed with its cart, or refused.
LEMMA PlacesOne ==
  ASSUME QuotesInv, NEW q \in Requests, NEW won \in BOOLEAN, Place(q, won)
  PROVE  /\ request[q].cart \in Carts /\ q \notin PlacedOrders
         /\ ~won => PlacedStay
         /\ won  => /\ PlacedOrders' = PlacedOrders \cup {q}
                    /\ request'[q].cart = request[q].cart
                    /\ \A p \in PlacedOrders : request'[p] = request[p]
<1>1. PICK r, s, x : /\ r = request[q] /\ r.step = "priced" /\ s = (IF won THEN "booked" ELSE "refused")
                     /\ x = Moved(r, s) /\ request' = [request EXCEPT ![q] = x]
  BY DEF Place, Moved
<1>2. RequestHolds(r)
  BY <1>1 DEF QuotesInv
<1>3. x.step = s /\ x.cart = r.cart
  BY <1>1, <1>2, MovedFields DEF RequestHolds
<1>4. r.cart \in Carts
  BY <1>1, <1>2 DEF RequestHolds, AllPriced, OfABody, Carts
<1>5. q \notin PlacedOrders
  BY <1>1 DEF PlacedOrders
<1>6. CASE ~won
  BY <1>1, <1>3, <1>4, <1>5, <1>6, Unplaced
<1>7. CASE won
  <2>1. \A p \in Requests : request'[p] = IF p = q THEN x ELSE request[p]
    BY <1>1 DEF QuotesInv
  <2> QED
    BY <1>1, <1>3, <1>4, <1>5, <1>7, <2>1 DEF PlacedOrders
<1> QED
  BY <1>6, <1>7

LEMMA WalkupsAreNotOrders ==
  ASSUME NEW cart
  PROVE  /\ CartOf(<<"walkup", cart>>) = cart /\ CartOf(<<"walkup", cart>>)' = cart
         /\ \A q : CartOf(<<"order", q>>) = request[q].cart /\ CartOf(<<"order", q>>)' = request'[q].cart
  BY DEF CartOf

LEMMA StepKinds ==
  ASSUME QuotesInv, LedgerInv,
         \A q \in Requests : request[q].step = "pricing" => Occupancy(NextLine(request[q])) \in Bps,
         [Next]_vars
  PROVE  \/ Quietly
         \/ \E h, cart : Takes(h, cart)
         \/ \E h : Gives(h)
<1>1. CASE UNCHANGED vars
  BY <1>1, StaysQuiet DEF vars, quotes_vars, PlacedStay, PlacedOrders
<1>2. ASSUME NEW w \in Switchers, Switch(w), UNCHANGED <<ledger, walkup, quotes_vars>>
      PROVE  Quietly
  BY <1>2, StaysQuiet DEF quotes_vars, PlacedStay, PlacedOrders
<1>3. ASSUME NEW q \in Requests, LoadRules(q) \/ PriceNextLine(q) \/ Sign(q) \/ PresentQuote(q),
             UNCHANGED <<ledger, walkup, rules_vars>>
      PROVE  Quietly
  <2>1. PriceNextLine(q) => \E occ \in Bps : PriceLine(q, occ)
    BY DEF PriceNextLine, PriceLine
  <2> QED
    BY <1>3, <2>1, QuotingPlacesNothing, StaysQuiet
<1>4. ASSUME Tick, UNCHANGED <<ledger, walkup, rules_vars>>
      PROVE  Quietly
  BY <1>4, StaysQuiet DEF Tick, PlacedStay, PlacedOrders
<1>5. ASSUME NEW q \in Requests, Book(q), UNCHANGED rules_vars
      PROVE  Quietly \/ \E h, cart : Takes(h, cart)
  <2>1. PICK won, cart :
          /\ won \in BOOLEAN /\ won = CanBookAll(cart) /\ cart = request[q].cart
          /\ Place(q, won) /\ UNCHANGED walkup
          /\ won => BookLines(ToSet(Lines(cart)))
          /\ ~won => UNCHANGED ledger
    BY <1>5 DEF Book, CanBookAll, UnitsApart
  <2>2. CASE ~won
    BY <2>1, <2>2, PlacesOne, StaysQuiet
  <2>3. CASE won
    <3>1. PICK h : h = <<"order", q>>
      OBVIOUS
    <3>2. /\ cart \in Carts /\ q \notin PlacedOrders /\ PlacedOrders' = PlacedOrders \cup {q}
          /\ request'[q].cart = cart /\ \A p \in PlacedOrders : request'[p] = request[p]
      BY <2>1, <2>3, PlacesOne
    <3>3. h \notin Holders /\ Holders' = Holders \cup {h}
      BY <2>1, <3>1, <3>2 DEF Holders
    <3>4. CartOf(h)' = cart
      BY <3>1, <3>2, WalkupsAreNotOrders
    <3>5. ASSUME NEW d \in Holders PROVE Same(d)
      <4>1. d[1] = "order" => d[2] \in PlacedOrders
        BY DEF Holders
      <4> QED
        BY <3>2, <4>1 DEF Same, CartOf
    <3>6. walkup' \subseteq Walkups
      BY <2>1 DEF LedgerInv
    <3> QED
      BY <2>1, <2>3, <3>2, <3>3, <3>4, <3>5, <3>6 DEF Takes
  <2> QED
    BY <2>2, <2>3
<1>6. ASSUME NEW cart \in Walkups, WalkupBooks(cart)
      PROVE  \E h, c : Takes(h, c)
  <2>1. PICK h : h = <<"walkup", cart>>
    OBVIOUS
  <2>2. PlacedOrders' = PlacedOrders /\ request' = request
    BY <1>6 DEF WalkupBooks, quotes_vars, PlacedOrders
  <2>3. h \notin Holders /\ Holders' = Holders \cup {h}
    BY <1>6, <2>1, <2>2 DEF Holders, WalkupBooks
  <2>4. CartOf(h)' = cart
    BY <2>1, WalkupsAreNotOrders
  <2>5. \A d \in Holders : Same(d)
    BY <2>2 DEF Same, CartOf
  <2> QED
    BY <1>6, <2>3, <2>4, <2>5 DEF Takes, WalkupBooks, Carts, LedgerInv
<1>7. ASSUME NEW cart \in Walkups, WalkupReleases(cart)
      PROVE  \E h : Gives(h)
  <2>1. PICK h : h = <<"walkup", cart>>
    OBVIOUS
  <2>2. PlacedOrders' = PlacedOrders /\ request' = request
    BY <1>7 DEF WalkupReleases, quotes_vars, PlacedOrders
  <2>3. h \in Holders /\ Holders' = Holders \ {h}
    BY <1>7, <2>1, <2>2 DEF Holders, WalkupReleases
  <2>4. CartOf(h) = cart
    BY <2>1, WalkupsAreNotOrders
  <2>5. \A d \in Holders : Same(d)
    BY <2>2 DEF Same, CartOf
  <2> QED
    BY <1>7, <2>3, <2>4, <2>5 DEF Gives, WalkupReleases
<1> QED
  BY <1>1, <1>2, <1>3, <1>4, <1>5, <1>6, <1>7 DEF Next

-----------------------------------------------------------------------------
(* The rows stay exact *)

LEMMA LedgerInit == Init => LedgerInv
<1> SUFFICES ASSUME Init PROVE LedgerInv
  OBVIOUS
<1>1. Holders = {}
  <2>1. Fresh.step = "new"
    BY DEF Fresh
  <2> QED
    BY <2>1 DEF Init, QuotesInit, Holders, PlacedOrders
<1>2. \A t, u : SoldOn(Sold, t, u) = {}
  BY <1>1 DEF Sold, SoldOn
<1>3. SeatExact(0, {})
  BY NoSegments DEF SeatExact
<1>4. ASSUME NEW p \in Pools PROVE PoolExact([k \in 1..NSeg |-> Capacity[p]], Capacity[p], {})
  <2>1. \A k : IsFiniteSet(Places({}, k)) /\ Cardinality(Places({}, k)) = 0
    BY FS_EmptySet DEF Places, Over
  <2>2. Capacity[p] \in Nat
    BY FaresAssumption
  <2> QED
    BY <2>1, <2>2 DEF PoolExact
<1>5. /\ mask \in [Trips -> [Seats -> StoredWords]]
      /\ left \in [Trips -> [Pools -> [1..NSeg -> Nat]]]
      /\ walkup \subseteq Walkups
  BY NoSegments, FaresAssumption DEF Init
<1>6. ASSUME NEW t \in Trips, NEW s \in Seats PROVE SeatExact(mask[t][s], SoldOn(Sold, t, s))
  BY <1>2, <1>3 DEF Init
<1>7. ASSUME NEW t \in Trips, NEW p \in Pools
      PROVE  PoolExact(left[t][p], Capacity[p], SoldOn(Sold, t, p))
  BY <1>2, <1>4 DEF Init
<1> QED
  BY <1>1, <1>5, <1>6, <1>7 DEF LedgerInv

LEMMA TakesCarts ==
  ASSUME LedgerInv, NEW h, NEW cart, Takes(h, cart)
  PROVE  \A d \in Holders' : Bookable(CartOf(d)')
<1>1. Bookable(cart)
  BY FaresAssumption DEF Takes, CanBookAll, CanBook, Bookable
<1>2. \A d \in Holders : Bookable(CartOf(d)) /\ CartOf(d)' = CartOf(d)
  BY DEF LedgerInv, Takes, Same
<1> QED
  BY <1>1, <1>2 DEF Takes

LEMMA GivesCarts ==
  ASSUME LedgerInv, NEW h, Gives(h)
  PROVE  \A d \in Holders' : Bookable(CartOf(d)')
BY DEF LedgerInv, Gives, Same

\* Both leave one row per unit and trip.
LEMMA Rows ==
  ASSUME NEW ls, BookLines(ls) \/ ReleaseLines(ls)
  PROVE  /\ mask' = [t \in Trips |-> [s \in Seats |-> mask'[t][s]]]
         /\ left' = [t \in Trips |-> [p \in Pools |-> left'[t][p]]]
<1>1. CASE BookLines(ls)
  BY <1>1 DEF BookLines
<1>2. CASE ReleaseLines(ls)
  BY <1>2 DEF ReleaseLines
<1> QED
  BY <1>1, <1>2

\* What is exact of every row is the invariant.
LEMMA ExactRows ==
  ASSUME mask' = [t \in Trips |-> [s \in Seats |-> mask'[t][s]]],
         left' = [t \in Trips |-> [p \in Pools |-> left'[t][p]]],
         walkup' \subseteq Walkups,
         \A h \in Holders' : Bookable(CartOf(h)'),
         \A t \in Trips, s \in Seats : SeatExact(mask'[t][s], SoldOn(Sold, t, s)'),
         \A t \in Trips, p \in Pools : PoolExact(left'[t][p], Capacity[p], SoldOn(Sold, t, p)')
  PROVE  LedgerInv'
<1>1. mask' \in [Trips -> [Seats -> StoredWords]]
  BY DEF SeatExact
<1>2. left' \in [Trips -> [Pools -> [1..NSeg -> Nat]]]
  BY DEF PoolExact
<1>3. \A h \in Holders' : Bookable(CartOf(h))'
  BY DEF Bookable
<1>4. \A t \in Trips, s \in Seats : SeatExact(mask[t][s], SoldOn(Sold, t, s))'
  BY DEF SeatExact
<1>5. \A t \in Trips, p \in Pools : PoolExact(left[t][p], Capacity[p], SoldOn(Sold, t, p))'
  BY DEF PoolExact
<1> QED
  BY <1>1, <1>2, <1>3, <1>4, <1>5 DEF LedgerInv

LEMMA LedgerNext ==
  ASSUME LedgerInv, Quietly \/ (\E h, cart : Takes(h, cart)) \/ (\E h : Gives(h))
  PROVE  LedgerInv'
<1>1. CASE Quietly
  <2>1. Sold' = Sold /\ mask' = mask /\ left' = left /\ walkup' = walkup
    BY <1>1, QuietSold DEF Quietly, ledger
  <2>2. \A t, u : SoldOn(Sold, t, u)' = SoldOn(Sold, t, u)
    BY <2>1 DEF SoldOn
  <2>3. \A h \in Holders' : Bookable(CartOf(h)')
    BY <1>1 DEF Quietly, Same, LedgerInv
  <2> QED
    BY <2>1, <2>2, <2>3, ExactRows DEF LedgerInv
<1>2. ASSUME NEW h, NEW cart, Takes(h, cart) PROVE LedgerInv'
  <2>1. /\ mask' = [t \in Trips |-> [s \in Seats |-> mask'[t][s]]]
        /\ left' = [t \in Trips |-> [p \in Pools |-> left'[t][p]]]
    BY <1>2, Rows DEF Takes
  <2>2. walkup' \subseteq Walkups /\ \A d \in Holders' : Bookable(CartOf(d)')
    BY <1>2, TakesCarts DEF Takes
  <2>3. \A t \in Trips, s \in Seats : SeatExact(mask'[t][s], SoldOn(Sold, t, s)')
    BY <1>2, TakesSeat
  <2>4. \A t \in Trips, p \in Pools : PoolExact(left'[t][p], Capacity[p], SoldOn(Sold, t, p)')
    BY <1>2, TakesPool
  <2> QED
    BY <2>1, <2>2, <2>3, <2>4, ExactRows
<1>3. ASSUME NEW h, Gives(h) PROVE LedgerInv'
  <2>1. /\ mask' = [t \in Trips |-> [s \in Seats |-> mask'[t][s]]]
        /\ left' = [t \in Trips |-> [p \in Pools |-> left'[t][p]]]
    BY <1>3, Rows DEF Gives
  <2>2. walkup' \subseteq Walkups /\ \A d \in Holders' : Bookable(CartOf(d)')
    BY <1>3, GivesCarts DEF Gives, LedgerInv
  <2>3. \A t \in Trips, s \in Seats : SeatExact(mask'[t][s], SoldOn(Sold, t, s)')
    BY <1>3, GivesSeat
  <2>4. \A t \in Trips, p \in Pools : PoolExact(left'[t][p], Capacity[p], SoldOn(Sold, t, p)')
    BY <1>3, GivesPool
  <2> QED
    BY <2>1, <2>2, <2>3, <2>4, ExactRows
<1> QED
  BY <1>1, <1>2, <1>3

-----------------------------------------------------------------------------
(* What a line is priced at *)

LEMMA Share ==
  ASSUME NEW c \in Nat, NEW n \in Nat \ {0}, c <= n, NEW m \in Nat
  PROVE  (c * m) \div n \in 0..m
<1>1. PICK a \in Nat : a = c * m /\ a <= m * n
  <2>1. PICK e \in Nat : n = c + e
    OBVIOUS
  <2>2. m * n = c * m + e * m /\ e * m \in Nat /\ c * m \in Nat
    BY <2>1
  <2> QED
    BY <2>2
<1>2. PICK d \in Nat, r \in 0..n - 1 : d = a \div n /\ a = d * n + r
  BY Divided
<1>3. d <= m
  <2>1. SUFFICES ASSUME m < d PROVE FALSE
    OBVIOUS
  <2>2. PICK e \in Nat : d = m + 1 + e
    BY <2>1
  <2>3. d * n = m * n + n + e * n /\ e * n \in Nat
    BY <2>2
  <2>4. d * n <= m * n
    BY <1>1, <1>2
  <2>5. PICK x \in Int, y \in Int, z \in Int : x = d * n /\ y = m * n /\ z = e * n
    OBVIOUS
  <2> QED
    BY <2>3, <2>4, <2>5
<1> QED
  BY <1>1, <1>2, <1>3

LEMMA SeatsShare ==
  ASSUME NEW D, IsFiniteSet(D), D # {}, NEW rows, DOMAIN rows = D, NEW s
  PROVE  SeatsSoldBp(rows, s) \in Bps
<1> DEFINE hit == {x \in D : Hits(rows[x], s)}
<1>1. hit \subseteq D
  OBVIOUS
<1>2. PICK c \in Nat, n \in Nat \ {0} : c = Cardinality(hit) /\ n = Cardinality(D) /\ c <= n
  <2> HIDE DEF hit
  <2> QED
    BY <1>1, FS_Subset, FS_CardinalityType, FS_EmptySet
<1>3. PICK m \in Nat : m = 10000
  OBVIOUS
<1>4. SeatsSoldBp(rows, s) = (c * m) \div n
  BY <1>2, <1>3 DEF SeatsSoldBp
<1>5. (c * m) \div n \in 0..m
  BY <1>2, Share
<1> QED
  BY <1>3, <1>4, <1>5 DEF Bps

\* A row keeps within the capacity.
LEMMA RowWithin ==
  ASSUME NEW row, NEW c \in Nat, NEW X, PoolExact(row, c, X)
  PROVE  row \in [1..NSeg -> Nat] /\ \A k \in 1..NSeg : row[k] <= c
<1>1. ASSUME NEW k \in 1..NSeg PROVE row[k] <= c
  <2>1. PICK n \in Nat : row[k] = c - n
    BY FS_CardinalityType DEF PoolExact
  <2> QED
    BY <2>1
<1> QED
  BY <1>1 DEF PoolExact

LEMMA PoolShare ==
  ASSUME NEW row, NEW c \in Nat, NEW X, PoolExact(row, c, X), NEW s \in Spans
  PROVE  PoolSoldBp(row, s, c) \in Bps
<1>1. PICK n \in 0..c : n = PoolLeft(row, s)
  BY RowWithin, PoolsAgree, 0 \in Nat
<1>2. CASE c = 0
  BY <1>2 DEF PoolSoldBp, Bps
<1>3. CASE c > 0
  <2>1. PICK m \in Nat : m = 10000
    OBVIOUS
  <2>2. PICK k \in Nat : k = c - n /\ k <= c /\ c \in Nat \ {0}
    BY <1>1, <1>3
  <2>3. PoolSoldBp(row, s, c) = (k * m) \div c
    BY <1>1, <1>3, <2>1, <2>2 DEF PoolSoldBp
  <2>4. (k * m) \div c \in 0..m
    BY <2>2, Share
  <2> QED
    BY <2>1, <2>3, <2>4 DEF Bps
<1> QED
  BY <1>2, <1>3

LEMMA OccupancyIsAShare ==
  ASSUME LedgerInv, NEW cart \in Carts, NEW l \in ToSet(Lines(cart))
  PROVE  Occupancy(l) \in Bps
<1>1. PICK t \in Trips, u \in Seats \cup Pools, s \in Spans :
        t = l.trip /\ u = l.item.unit /\ s = SpanOf(l)
  BY LineFacts
<1>2. CASE u \in Seats
  <2>1. PICK D : D = SameClass(u) /\ IsFiniteSet(D) /\ D # {}
    <3>1. SameClass(u) \subseteq Seats /\ u \in SameClass(u)
      BY <1>2 DEF SameClass
    <3> QED
      BY <3>1, FaresAssumption, FS_Subset
  <2>2. PICK rows : rows = [x \in D |-> mask[t][x]]
    OBVIOUS
  <2>3. Occupancy(l) = SeatsSoldBp(rows, s)
    BY <1>1, <1>2, <2>1, <2>2 DEF Occupancy
  <2>4. DOMAIN rows = D
    BY <2>2
  <2> QED
    BY <2>1, <2>3, <2>4, SeatsShare
<1>3. CASE u \in Pools
  <2>1. u \notin Seats /\ Capacity[u] \in Nat
    BY <1>3, FaresAssumption
  <2>2. PoolExact(left[t][u], Capacity[u], SoldOn(Sold, t, u))
    BY <1>3 DEF LedgerInv
  <2>3. PoolSoldBp(left[t][u], s, Capacity[u]) \in Bps
    BY <2>1, <2>2, PoolShare
  <2>4. Occupancy(l) = PoolSoldBp(left[t][u], s, Capacity[u])
    BY <1>1, <2>1 DEF Occupancy
  <2> QED
    BY <2>3, <2>4
<1> QED
  BY <1>2, <1>3

\* A request that is still pricing has a next line.
LEMMA NextLineIsALine ==
  ASSUME QuotesInv, NEW q \in Requests, request[q].step = "pricing"
  PROVE  request[q].cart \in Carts /\ NextLine(request[q]) \in ToSet(Lines(request[q].cart))
<1>1. PICK r : r = request[q] /\ RequestHolds(r) /\ r.step = "pricing"
  BY DEF QuotesInv
<1>2. PICK ask \in Asks : r.cart = ask.cart
  BY <1>1 DEF RequestHolds, OfABody
<1>3. PICK lines : lines = Lines(r.cart)
  OBVIOUS
<1>4. Len(lines) \in Nat /\ DOMAIN lines = 1..Len(lines)
  BY <1>2, <1>3, QuotesAssumption
<1>5. Len(r.prices) \in Nat /\ Len(r.prices) < Len(lines)
  BY <1>1, <1>3, AppendOne DEF RequestHolds
<1>6. Len(r.prices) + 1 \in DOMAIN lines
  BY <1>4, <1>5
<1> QED
  BY <1>1, <1>2, <1>3, <1>6 DEF NextLine, Carts, ToSet

LEMMA PricedWithin ==
  ASSUME QuotesInv, LedgerInv
  PROVE  \A q \in Requests : request[q].step = "pricing" => Occupancy(NextLine(request[q])) \in Bps
BY NextLineIsALine, OccupancyIsAShare

-----------------------------------------------------------------------------
(* Checkout as a whole *)

FaresInv == RulesInv /\ QuotesInv /\ LedgerInv

\* Every step of a checkout is one of Quotes, or none.
LEMMA StepsOfQuotes ==
  ASSUME FaresInv, [Next]_vars
  PROVE  [QuotesNext]_<<rules_vars, quotes_vars>>
<1>1. ASSUME NEW q \in Requests, LoadRules(q) \/ PriceNextLine(q) \/ Sign(q) \/ PresentQuote(q)
      PROVE  RequestStep(q)
  <2>1. ASSUME PriceNextLine(q) PROVE \E occ \in Bps : PriceLine(q, occ)
    <3>1. PICK occ : occ = Occupancy(NextLine(request[q]))
      OBVIOUS
    <3>2. PriceLine(q, occ)
      BY <2>1, <3>1 DEF PriceNextLine
    <3>3. occ \in Bps
      BY <3>1, <3>2, PricedWithin DEF FaresInv, PriceLine
    <3> QED
      BY <3>2, <3>3
  <2> QED
    BY <1>1, <2>1 DEF RequestStep
<1>2. ASSUME NEW q \in Requests, Book(q) PROVE RequestStep(q)
  <2>1. CanBookAll(request[q].cart) \in BOOLEAN
    BY DEF CanBookAll, UnitsApart
  <2> QED
    BY <1>2, <2>1 DEF Book, RequestStep
<1> QED
  BY <1>1, <1>2 DEF Next, vars, QuotesNext, FareRulesNext, WalkupBooks, WalkupReleases

LEMMA FaresInit == Init => FaresInv
BY RulesInit, QuotesInvInit, LedgerInit DEF Init, FaresInv

LEMMA FaresNext == FaresInv /\ [Next]_vars => FaresInv'
<1> SUFFICES ASSUME FaresInv, [Next]_vars PROVE FaresInv'
  OBVIOUS
<1>1. [QuotesNext]_<<rules_vars, quotes_vars>>
  BY StepsOfQuotes
<1>2. [FareRulesNext]_rules_vars
  BY <1>1 DEF QuotesNext
<1>3. RulesInv'
  BY <1>2, RulesNext DEF FaresInv
<1>4. QuotesInv'
  BY <1>1, QuotesInvNext DEF FaresInv
<1>5. LedgerInv'
  BY StepKinds, PricedWithin, LedgerNext DEF FaresInv
<1> QED
  BY <1>3, <1>4, <1>5 DEF FaresInv

\* A checkout quotes and places orders as module Quotes has it: the occupancies it
\* reads off the ledger are all within the 10000 basis points of Quotes, and what
\* others sell and release leaves requests and rules alone (pricing.rs:131).
THEOREM CheckoutQuotes == Spec => QuotesSpec
<1>1. Init => FareRulesInit /\ QuotesInit
  BY DEF Init
<1> QED
  BY <1>1, FaresInit, FaresNext, StepsOfQuotes, PTL DEF Spec, QuotesSpec

\* Stored words stay within the signed column, and no pool drops below zero or
\* rises above its capacity (store.rs:767, 832).
THEOREM CheckoutTypes == Spec => []TypeOK
<1>1. FaresInv => TypeOK
  <2> SUFFICES ASSUME FaresInv PROVE TypeOK
    OBVIOUS
  <2>1. ASSUME NEW t \in Trips, NEW p \in Pools, NEW k \in 1..NSeg PROVE left[t][p][k] \in 0..Capacity[p]
    <3>1. PoolExact(left[t][p], Capacity[p], SoldOn(Sold, t, p)) /\ Capacity[p] \in Nat
      BY FaresAssumption DEF FaresInv, LedgerInv
    <3>2. PICK c \in Nat, n \in Nat : c = Capacity[p] /\ n = left[t][p][k] /\ n <= c
      BY <3>1, RowWithin
    <3> QED
      BY <3>2
  <2> QED
    BY <2>1 DEF FaresInv, LedgerInv, RulesInv, TypeOK, StoredWords
<1> QED
  BY <1>1, FaresInit, FaresNext, PTL DEF Spec

\* Also with the ledger selling underneath, an order is charged what its ruleset
\* asked for within the life of a quote (quotes.rs:27, orders.rs:332).
THEOREM CheckoutCharges == Spec => []ChargedWhatWasDue
BY CheckoutQuotes, ChargesAreDue, PTL

\* And a switch of the rules nobody else disturbed is in force when it has returned
\* (admin.rs:272, 323).
THEOREM CheckoutSwitches == Spec => SwitchesTakeEffect
BY CheckoutQuotes, SwitchesWork, PTL

-----------------------------------------------------------------------------
(* What is stored and what is shown *)

\* The segments of a span, in the two ways they are asked for.
LEMMA OnSegments ==
  ASSUME NEW s \in Spans, NEW k \in Int
  PROVE  k \in SegsOf(s) <=> s.from <= k /\ k < s.to
BY SpanFacts DEF SegsOf

LEMMA SegmentsOfRoute ==
  ASSUME NEW s \in Spans, NEW k \in SegsOf(s)
  PROVE  k \in 0..NSeg - 1 /\ k + 1 \in 1..NSeg /\ (k + 1) - 1 = k
<1>1. PICK f \in Nat, e \in Nat, n \in Nat : f = s.from /\ e = s.to /\ n = NSeg /\ e <= n
  BY SpanFacts
<1>2. k \in f .. e - 1
  BY <1>1 DEF SegsOf
<1> QED
  BY <1>1, <1>2

\* Who has a segment of a seat.
LEMMA SeatsOver ==
  ASSUME NEW w, NEW X, SeatExact(w, X), NEW k \in Int
  PROVE  k \in SegmentsIn(w) <=> Over(X, k) # {}
<1>1. \A x \in X : k \in SegsOf(x.span) <=> x \in Over(X, k)
  BY OnSegments DEF SeatExact, Over
<1> QED
  BY <1>1 DEF SeatExact, Over

LEMMA SeatRow ==
  ASSUME NEW w, NEW X, SeatExact(w, X), \A x \in X : UnitsOf(x.line) = 1, NEW k \in 0..NSeg - 1
  PROVE  (AsWord(w) \div Power[k]) % 2 = Units(X, k)
<1>1. k \in Positions /\ k \in Int
  BY RoutesAssumption DEF Positions
<1>2. PICK b \in 0..1 : b = (AsWord(w) \div Power[k]) % 2
  <2>1. PICK p \in Nat \ {0}, v \in Nat : p = Power[k] /\ v = AsWord(w)
    BY <1>1, PowerType, SignedWords, RoutesAssumption, WordSize DEF SeatExact, Positions
  <2>2. v \div p \in Int
    OBVIOUS
  <2> QED
    BY <2>1, <2>2
<1>3. b = 1 <=> Over(X, k) # {}
  <2>1. b = 1 <=> k \in SegmentsIn(w)
    BY <1>1, <1>2 DEF SegmentsIn, Bits
  <2> QED
    BY <1>1, <2>1, SeatsOver
<1>4. CASE Over(X, k) = {}
  <2>1. Places(X, k) = {}
    BY <1>4 DEF Places
  <2> QED
    BY <1>2, <1>3, <1>4, <2>1, FS_EmptySet DEF Units
<1>5. ASSUME NEW x \in Over(X, k) PROVE b = Units(X, k)
  <2>1. x \in X /\ k \in SegsOf(x.span) /\ \A y \in Over(X, k) : y \in X /\ k \in SegsOf(y.span)
    BY <1>1, OnSegments DEF Over, SeatExact
  <2>2. Over(X, k) = {x}
    BY <2>1 DEF SeatExact
  <2>3. Places(X, k) = {x} \X (1..1)
    BY <2>1, <2>2 DEF Places
  <2>4. Cardinality({x} \X (1..1)) = 1
    BY PlacesOfOne, 1 \in Nat
  <2> QED
    BY <1>2, <1>3, <2>2, <2>3, <2>4 DEF Units
<1> QED
  BY <1>2, <1>4, <1>5

LEMMA PoolRow ==
  ASSUME NEW row, NEW c, NEW X, PoolExact(row, c, X), NEW k \in 0..NSeg - 1
  PROVE  row[k + 1] = c - Units(X, k)
<1>1. k + 1 \in 1..NSeg /\ (k + 1) - 1 = k
  BY RoutesAssumption
<1> QED
  BY <1>1 DEF PoolExact, Units

\* Every bit of every seat and every cell of every pool is what the orders held say
\* it is: none sells a segment of a seat twice or a unit it does not have, and a
\* release gives back what its order took and nothing else (store.rs:767-871).
THEOREM RowsAreTheOrders == Spec => []RowsSayWhatIsSold
<1>1. LedgerInv => RowsSayWhatIsSold
  <2> SUFFICES ASSUME LedgerInv PROVE RowsSayWhatIsSold
    OBVIOUS
  <2>1. ASSUME NEW t \in Trips, NEW k \in 0..NSeg - 1, NEW s \in Seats
        PROVE  (AsWord(mask[t][s]) \div Power[k]) % 2 = Units(SoldOn(Sold, t, s), k)
    <3>1. SeatExact(mask[t][s], SoldOn(Sold, t, s))
      BY DEF LedgerInv
    <3>2. \A x \in SoldOn(Sold, t, s) : UnitsOf(x.line) = 1
      BY DEF SoldOn, UnitsOf
    <3> QED
      BY <3>1, <3>2, SeatRow
  <2>2. ASSUME NEW t \in Trips, NEW k \in 0..NSeg - 1, NEW p \in Pools
        PROVE  left[t][p][k + 1] = Capacity[p] - Units(SoldOn(Sold, t, p), k)
    BY PoolRow DEF LedgerInv
  <2> QED
    BY <2>1, <2>2 DEF RowsSayWhatIsSold
<1> QED
  BY <1>1, FaresInit, FaresNext, PTL DEF Spec, FaresInv

LEMMA JourneysHere ==
  ASSUME NEW t \in Trips, NEW origin, NEW destination
  PROVE  /\ SpansAgree(Route[t], origin, destination)
         /\ PickSpan(Route[t], origin, destination) \subseteq Spans
<1>1. SpansAgree(Route[t], origin, destination)
  BY FaresAssumption, JourneysAgree
<1> QED
  BY <1>1 DEF SpansAgree, SearchSpans

LEMMA SeatMap ==
  ASSUME LedgerInv, NEW t \in Trips, NEW s \in Spans
  PROVE  FreeSeats(mask[t], s) =
           {x \in Seats : \A k \in SegsOf(s) : Over(SoldOn(Sold, t, x), k) = {}}
<1>1. DOMAIN mask[t] = Seats
  BY DEF LedgerInv
<1>2. ASSUME NEW x \in Seats
      PROVE  Hits(mask[t][x], s) <=> \E k \in SegsOf(s) : Over(SoldOn(Sold, t, x), k) # {}
  <2>1. SeatExact(mask[t][x], SoldOn(Sold, t, x))
    BY DEF LedgerInv
  <2>2. Hits(mask[t][x], s) <=> SegmentsIn(mask[t][x]) \cap SegsOf(s) # {}
    BY <2>1, WordsAreSets DEF SeatExact
  <2>3. \A k \in SegsOf(s) : k \in SegmentsIn(mask[t][x]) <=> Over(SoldOn(Sold, t, x), k) # {}
    BY <2>1, SeatsOver, SegmentsOfRoute
  <2> QED
    BY <2>2, <2>3
<1> QED
  BY <1>1, <1>2 DEF FreeSeats

\* What the lines sold leave of a pool on a span.
Unsold(c, X, s) == Min({c - Units(X, k) : k \in SegsOf(s)})

LEMMA PoolOffers ==
  ASSUME NEW row, NEW c \in Nat, NEW X, PoolExact(row, c, X), NEW s \in Spans
  PROVE  /\ PoolLeft(row, s) = Unsold(c, X, s)
         /\ BatchLeft(row, AsSigned(SpanMask(s))) = Unsold(c, X, s)
         /\ RemainingFor(InMemory(row), s) = Unsold(c, X, s)
         /\ \A n \in 1..Unsold(c, X, s) :
              InMemory(PoolClaimed(row, s, n)) = Reserved(InMemory(row), s, n)
<1> DEFINE free == Unsold(c, X, s)
<1>1. row \in [1..NSeg -> Nat] /\ \A k \in 1..NSeg : row[k] <= c
  BY RowWithin
<1>2. \A k \in SegsOf(s) : InMemory(row)[k] = c - Units(X, k)
  BY SegmentsOfRoute, PoolRow DEF InMemory
<1>3. RemainingFor(InMemory(row), s) = free
  <2>1. {InMemory(row)[k] : k \in SegsOf(s)} = {c - Units(X, k) : k \in SegsOf(s)}
    BY <1>2
  <2> QED
    BY <2>1 DEF RemainingFor, SegsOf, Unsold
<1>4. PoolLeft(row, s) \in 0..c /\ RemainingFor(InMemory(row), s) = PoolLeft(row, s)
  BY <1>1, PoolsAgree, 0 \in Nat
<1>5. BatchLeft(row, AsSigned(SpanMask(s))) = PoolLeft(row, s)
  BY NoSegments, WordsAreSets
<1>6. ASSUME NEW n \in 1..free
      PROVE  InMemory(PoolClaimed(row, s, n)) = Reserved(InMemory(row), s, n)
  <2>1. n \in Nat
    BY <1>3, <1>4
  <2> QED
    BY <1>1, <2>1, PoolsAgree
<1> QED
  BY <1>3, <1>4, <1>5, <1>6

\* Search, the batched answers and the domain type show of every journey what the
\* orders held leave of it (store.rs:388-758, network.rs:40, pool.rs:71).
THEOREM SearchIsTheLedger == Spec => []SearchShowsWhatSells
<1>1. SameSpans
  BY JourneysHere DEF SameSpans
<1>2. LedgerInv => SearchShowsWhatSells
  <2> SUFFICES ASSUME LedgerInv PROVE SearchShowsWhatSells
    OBVIOUS
  <2>1. ASSUME NEW t \in Trips, NEW s \in SpansSold[t] PROVE s \in Spans
    BY JourneysHere DEF SpansSold
  <2>2. ASSUME NEW t \in Trips, NEW s \in SpansSold[t]
        PROVE  FreeSeats(mask[t], s) =
                 {x \in Seats : \A k \in s.from .. s.to - 1 : Over(SoldOn(Sold, t, x), k) = {}}
    BY <2>1, SeatMap DEF SegsOf
  <2>3. ASSUME NEW t \in Trips, NEW s \in SpansSold[t], NEW p \in Pools, NEW free,
               free = Min({Capacity[p] - Units(SoldOn(Sold, t, p), k) : k \in s.from .. s.to - 1})
        PROVE  /\ PoolLeft(left[t][p], s) = free
               /\ BatchLeft(left[t][p], AsSigned(SpanMask(s))) = free
               /\ RemainingFor(InMemory(left[t][p]), s) = free
               /\ \A n \in 1..free :
                    InMemory(PoolClaimed(left[t][p], s, n)) = Reserved(InMemory(left[t][p]), s, n)
    <3>1. PoolExact(left[t][p], Capacity[p], SoldOn(Sold, t, p)) /\ Capacity[p] \in Nat
      BY FaresAssumption DEF LedgerInv
    <3>2. free = Min({Capacity[p] - Units(SoldOn(Sold, t, p), k) : k \in SegsOf(s)})
      BY <2>3 DEF SegsOf
    <3>3. s \in Spans
      BY <2>1
    <3>4. free = Unsold(Capacity[p], SoldOn(Sold, t, p), s)
      BY <3>2 DEF Unsold
    <3> QED
      BY <3>1, <3>3, <3>4, PoolOffers
  <2> QED
    BY <1>1, <2>2, <2>3 DEF SearchShowsWhatSells
<1> QED
  BY <1>2, FaresInit, FaresNext, PTL DEF Spec, FaresInv
=============================================================================
