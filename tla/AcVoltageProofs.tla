--------------------------- MODULE AcVoltageProofs ---------------------------
(***************************************************************************)
(* Theorems about AcVoltage, for windows and buffers of any size and mains *)
(* of any voltages that change any number of times.                        *)
(*                                                                         *)
(* What a fold gives for every buffer needs induction over its size.  The  *)
(* induction theorems of the library take an operator, which the provers   *)
(* cannot instantiate; WFMin speaks of sets, and gives the same for the    *)
(* set of the sizes at which a fact fails.                                 *)
(***************************************************************************)
EXTENDS AcVoltage, FiniteSetTheorems, WellFoundedInduction, TLAPS

-----------------------------------------------------------------------------
(* Induction *)

\* The order of the natural numbers is well-founded.
LEMMA LessThan ==
  \E R : IsWellFoundedOn(R, Nat) /\ \A m, n \in Nat : <<m, n>> \in R <=> m < n
<1>. DEFINE R == {ss \in Nat \X Nat : ss[1] < ss[2]}
<1>1. IsWellFoundedOn(OpToRel(<, Nat), Nat)
  BY NatLessThanWellFounded
<1>2. OpToRel(<, Nat) = R
  BY Zenon DEF OpToRel
<1>3. IsWellFoundedOn(R, Nat)
  BY <1>1, <1>2, Zenon
<1>4. \A m, n \in Nat : <<m, n>> \in R <=> m < n
  OBVIOUS
<1> QED
  BY <1>3, <1>4, Zenon

\* A set of natural numbers has a least element.
LEMMA LeastNat ==
  ASSUME NEW T \in SUBSET Nat, T # {}
  PROVE  \E n \in T : \A m \in T : n <= m
<1>1. PICK R : IsWellFoundedOn(R, Nat) /\ \A m, n \in Nat : <<m, n>> \in R <=> m < n
  BY LessThan
<1>2. \A S, U : IsWellFoundedOn(R, S) /\ U \subseteq S /\ U # {}
                 => \E x \in U : \A y \in U : ~ (<<y, x>> \in R)
  BY WFMin, Zenon
<1>3. T \subseteq Nat
  OBVIOUS
<1>4. IsWellFoundedOn(R, Nat)
  BY <1>1, Zenon
<1>5. \E x \in T : \A y \in T : ~ (<<y, x>> \in R)
  BY <1>2, <1>3, <1>4, Zenon
<1>6. PICK x \in T : \A y \in T : ~ (<<y, x>> \in R)
  BY <1>5, Zenon
<1>7. \A y \in T : ~(y < x)
  BY <1>1, <1>6, Zenon
<1> QED
  BY <1>7

\* Induction over the natural numbers, for a set in place of a predicate.
LEMMA SetInduction ==
  ASSUME NEW T \in SUBSET Nat, 0 \in T, \A n \in T : n + 1 \in T
  PROVE  \A n \in Nat : n \in T
<1>1. SUFFICES ASSUME Nat \ T # {} PROVE FALSE
  OBVIOUS
<1>2. PICK n \in Nat \ T : \A m \in Nat \ T : n <= m
  BY <1>1, LeastNat
<1>3. n # 0 /\ n - 1 \in Nat /\ n - 1 \in T
  BY <1>2
<1> QED
  BY <1>2, <1>3

-----------------------------------------------------------------------------
(* Sums *)

\* One step of the fold in SumFunction: an element of s is taken from it.
Added(f, s, g) ==
  IF s = {} THEN 0 ELSE LET x == CHOOSE x \in s : TRUE IN f[x] + g[s \ {x}]

\* The fold, if it is defined at all, is what SumFunction stands for.
LEMMA SumUnfolds ==
  ASSUME NEW f, \E g : g = [s \in SUBSET (DOMAIN f) |-> Added(f, s, g)]
  PROVE  \E g : /\ g = [s \in SUBSET (DOMAIN f) |-> Added(f, s, g)]
                /\ SumFunction(f) = g[DOMAIN f]
  BY DEF SumFunction, SumFunctionOnSet, FoldFunctionOnSet, MapThenFoldSet, Added

\* Taking the element the fold takes from a set.
LEMMA Taken ==
  ASSUME NEW D, IsFiniteSet(D), NEW s \in SUBSET D, s # {}
  PROVE  LET x == CHOOSE x \in s : TRUE
         IN  /\ x \in s /\ s \ {x} \in SUBSET D
             /\ Cardinality(s \ {x}) = Cardinality(s) - 1
             /\ Cardinality(s) \in Nat \ {0} 
<1>. DEFINE x == CHOOSE x \in s : TRUE
<1>1. x \in s
  OBVIOUS
<1>2. IsFiniteSet(s)
  BY FS_Subset
<1>3. Cardinality(s) \in Nat /\ Cardinality(s) # 0
  BY <1>2, FS_CardinalityType, FS_EmptySet
<1>4. Cardinality(s \ {x}) = Cardinality(s) - 1
  BY <1>1, <1>2, FS_RemoveElement
<1> QED
  BY <1>1, <1>3, <1>4

\* A finite function of integers has a fold over every part of its domain.
LEMMA FoldExists ==
  ASSUME NEW D, IsFiniteSet(D), NEW f \in [D -> Int]
  PROVE  \E g \in [SUBSET D -> Int] : \A s \in SUBSET D : g[s] = Added(f, s, g)
<1>. DEFINE Small(n) == {s \in SUBSET D : Cardinality(s) <= n}
            IsFold(g, n) == /\ g \in [Small(n) -> Int]
                            /\ \A s \in Small(n) : g[s] = Added(f, s, g)
            T == {n \in Nat : \E g : IsFold(g, n)}
<1>0. \A s \in SUBSET D : Cardinality(s) \in Nat /\ (Cardinality(s) = 0 <=> s = {})
  BY FS_Subset, FS_CardinalityType, FS_EmptySet
<1>1. 0 \in T
  <2>1. \A s \in Small(0) : s = {}
    BY <1>0
  <2>2. IsFold([s \in Small(0) |-> 0], 0)
    BY <2>1 DEF Added
  <2> QED
    BY <2>2
<1>2. ASSUME NEW n \in T PROVE n + 1 \in T
  <2>1. PICK g : IsFold(g, n)
    OBVIOUS
  <2>. DEFINE h == [s \in Small(n + 1) |-> Added(f, s, g)]
  <2>2. \A s \in SUBSET D : s # {} =>
          LET x == CHOOSE x \in s : TRUE
          IN  x \in D /\ (s \in Small(n + 1) => s \ {x} \in Small(n))
    BY Taken
  <2>3. h \in [Small(n + 1) -> Int]
    BY <2>1, <2>2 DEF Added
  <2>4. \A s \in Small(n) : s \in Small(n + 1) /\ h[s] = g[s]
    BY <1>0, <2>1
  <2>5. ASSUME NEW s \in Small(n + 1) PROVE h[s] = Added(f, s, h)
    <3>1. h[s] = Added(f, s, g)
      OBVIOUS
    <3>2. CASE s = {}
      BY <3>1, <3>2 DEF Added
    <3>3. CASE s # {}
      <4>. DEFINE x == CHOOSE x \in s : TRUE
      <4>1. s \ {x} \in Small(n)
        BY <2>2, <3>3
      <4>2. h[s \ {x}] = g[s \ {x}]
        BY <2>4, <4>1
      <4>. HIDE DEF h
      <4> QED
        BY <3>1, <3>3, <4>2 DEF Added
    <3> QED
      BY <3>2, <3>3
  <2>6. IsFold(h, n + 1)
    BY <2>3, <2>5
  <2>. HIDE DEF h, IsFold
  <2>7. n \in Nat /\ \E k : IsFold(k, n + 1)
    BY <2>6
  <2> QED
    BY <2>7
<1>3. Cardinality(D) \in Nat
  BY FS_CardinalityType
<1>4. Cardinality(D) \in T
  <2>. HIDE DEF T
  <2>1. T \in SUBSET Nat
    BY DEF T
  <2> QED
    BY <1>1, <1>2, <1>3, <2>1, SetInduction
<1>5. Small(Cardinality(D)) = SUBSET D
  BY FS_Subset
<1> QED
  BY <1>4, <1>5

\* The sum of a finite function of integers is such a fold over all of it.
LEMMA SumIsFold ==
  ASSUME NEW D, IsFiniteSet(D), NEW f \in [D -> Int]
  PROVE  \E g \in [SUBSET D -> Int] :
            /\ \A s \in SUBSET D : g[s] = Added(f, s, g)
            /\ SumFunction(f) = g[D]
<1>1. PICK h \in [SUBSET D -> Int] : \A s \in SUBSET D : h[s] = Added(f, s, h)
  BY FoldExists
<1>2. h = [s \in SUBSET D |-> Added(f, s, h)]
  BY <1>1
<1>3. PICK g : /\ g = [s \in SUBSET D |-> Added(f, s, g)]
               /\ SumFunction(f) = g[D]
  BY <1>2, SumUnfolds
<1>4. \A s \in SUBSET D : g[s] = Added(f, s, g)
  BY <1>3
<1>. DEFINE T == {n \in Nat : \A s \in SUBSET D : Cardinality(s) = n => g[s] \in Int}
<1>5. 0 \in T
  <2>1. \A s \in SUBSET D : Cardinality(s) = 0 => s = {}
    BY FS_Subset, FS_EmptySet
  <2>2. g[{}] = 0
    BY <1>4 DEF Added
  <2> QED
    BY <2>1, <2>2
<1>6. ASSUME NEW n \in T PROVE n + 1 \in T
  <2>1. SUFFICES ASSUME NEW s \in SUBSET D, Cardinality(s) = n + 1 PROVE g[s] \in Int
    OBVIOUS
  <2>. DEFINE x == CHOOSE x \in s : TRUE
  <2>2. s # {}
    <3>1. n + 1 # 0
      OBVIOUS
    <3> QED
      BY <2>1, <3>1, FS_EmptySet, Zenon
  <2>3. x \in D /\ s \ {x} \in SUBSET D /\ Cardinality(s \ {x}) = n
    BY <2>1, <2>2, Taken
  <2>4. g[s] = f[x] + g[s \ {x}]
    BY <1>4, <2>2 DEF Added
  <2> QED
    BY <2>3, <2>4
<1>7. \A n \in Nat : n \in T
  <2>. HIDE DEF T
  <2>1. T \in SUBSET Nat
    BY DEF T
  <2> QED
    BY <1>5, <1>6, <2>1, SetInduction
<1>8. \A s \in SUBSET D : g[s] \in Int
  BY <1>7, FS_Subset, FS_CardinalityType
<1>9. g \in [SUBSET D -> Int]
  BY <1>3, <1>8
<1> QED
  BY <1>3, <1>4, <1>9

LEMMA SumType ==
  ASSUME NEW n \in Nat, NEW f \in [0 .. n-1 -> Int]
  PROVE  SumFunction(f) \in Int
<1>. DEFINE D == 0 .. n-1
<1>1. IsFiniteSet(D)
  BY FS_Interval
<1>2. PICK g \in [SUBSET D -> Int] : SumFunction(f) = g[D]
  BY <1>1, SumIsFold, Zenon
<1>3. D \in SUBSET D
  OBVIOUS
<1> QED
  BY <1>2, <1>3

\* A sum of values between two bounds is between the bounds times their number.
LEMMA SumBounds ==
  ASSUME NEW D, IsFiniteSet(D), NEW f \in [D -> Int], NEW lo \in Int, NEW hi \in Int,
         \A i \in D : lo <= f[i] /\ f[i] <= hi
  PROVE  /\ lo * Cardinality(D) <= SumFunction(f)
         /\ SumFunction(f) <= hi * Cardinality(D)
<1>1. PICK g \in [SUBSET D -> Int] : /\ \A s \in SUBSET D : g[s] = Added(f, s, g)
                                    /\ SumFunction(f) = g[D]
  BY SumIsFold
<1>. DEFINE T == {n \in Nat : \A s \in SUBSET D : Cardinality(s) = n =>
                    lo * n <= g[s] /\ g[s] <= hi * n}
<1>2. 0 \in T
  <2>1. \A s \in SUBSET D : Cardinality(s) = 0 => s = {}
    BY FS_Subset, FS_EmptySet
  <2>2. g[{}] = 0
    BY <1>1 DEF Added
  <2> QED
    BY <2>1, <2>2
<1>3. ASSUME NEW n \in T PROVE n + 1 \in T
  <2>1. SUFFICES ASSUME NEW s \in SUBSET D, Cardinality(s) = n + 1
                 PROVE  lo * (n + 1) <= g[s] /\ g[s] <= hi * (n + 1)
    OBVIOUS
  <2>. DEFINE x == CHOOSE x \in s : TRUE
  <2>2. s # {}
    <3>1. n + 1 # 0
      OBVIOUS
    <3> QED
      BY <2>1, <3>1, FS_EmptySet, Zenon
  <2>3. x \in D /\ s \ {x} \in SUBSET D /\ Cardinality(s \ {x}) = n
    BY <2>1, <2>2, Taken
  <2>4. g[s] = f[x] + g[s \ {x}]
    BY <1>1, <2>2 DEF Added
  <2>5. lo * n <= g[s \ {x}] /\ g[s \ {x}] <= hi * n
    BY <2>3
  <2>6. lo * (n + 1) = lo * n + lo /\ hi * (n + 1) = hi * n + hi
    OBVIOUS
  <2>7. lo * n \in Int /\ hi * n \in Int /\ f[x] \in Int /\ g[s \ {x}] \in Int
    BY <1>1, <2>3
  <2>8. lo <= f[x] /\ f[x] <= hi
    BY <2>3
  <2> HIDE DEF x, T
  <2> QED
    BY <2>4, <2>5, <2>6, <2>7, <2>8
<1>4. \A n \in Nat : n \in T
  <2>. HIDE DEF T
  <2>1. T \in SUBSET Nat
    BY DEF T
  <2> QED
    BY <1>2, <1>3, <2>1, SetInduction
<1> QED
  BY <1>1, <1>4, FS_CardinalityType

\* The quotient by a positive number, and products with one.
LEMMA Quotient ==
  ASSUME NEW a \in Int, NEW n \in Nat \ {0}
  PROVE  LET q == a \div n IN q \in Int /\ q * n <= a /\ a < q * n + n
<1>1. a \div n \in Int /\ a % n \in 0 .. n-1
  OBVIOUS
<1>2. a = n * (a \div n) + (a % n)
  OBVIOUS
<1> QED
  BY <1>1, <1>2

LEMMA Multiples ==
  ASSUME NEW a \in Int, NEW b \in Int, NEW n \in Nat \ {0}, a * n < b * n + n
  PROVE  a < b + 1
<1>1. SUFFICES ASSUME b + 1 <= a PROVE FALSE
  OBVIOUS
<1>2. PICK k \in Nat : a = b + 1 + k
  BY <1>1
<1>3. a * n = b * n + n + k * n /\ k * n >= 0
  BY <1>2
<1> QED
  BY <1>3

\* The average of values between two bounds is between them.
LEMMA AverageBounds ==
  ASSUME NEW n \in Nat \ {0}, NEW f \in [0 .. n-1 -> Int],
         NEW lo \in Int, NEW hi \in Int,
         \A i \in 0 .. n-1 : lo <= f[i] /\ f[i] <= hi
  PROVE  lo <= SumFunction(f) \div n /\ SumFunction(f) \div n <= hi
<1>1. IsFiniteSet(0 .. n-1) /\ Cardinality(0 .. n-1) = n
  BY FS_Interval
<1>2. SumFunction(f) \in Int
  <2>. DEFINE D == 0 .. n-1
  <2>1. PICK g \in [SUBSET D -> Int] : SumFunction(f) = g[D]
    BY <1>1, SumIsFold, Zenon
  <2>2. D \in SUBSET D
    OBVIOUS
  <2> QED
    BY <2>1, <2>2
<1>3. lo * n <= SumFunction(f) /\ SumFunction(f) <= hi * n
  BY <1>1, SumBounds
<1>. DEFINE q == SumFunction(f) \div n
<1>4. q \in Int /\ q * n <= SumFunction(f) /\ SumFunction(f) < q * n + n
  BY <1>2, Quotient
<1>. HIDE DEF q
<1>5. lo * n \in Int /\ hi * n \in Int /\ q * n \in Int
  BY <1>4
<1>6. lo * n < q * n + n /\ q * n < hi * n + n
  <2>1. \A a, s, t \in Int : t <= s /\ s < a + n => t < a + n
    OBVIOUS
  <2>2. \A a, b, s \in Int : a <= s /\ s <= b => a < b + n
    OBVIOUS
  <2>3. lo * n < q * n + n
    BY <1>2, <1>3, <1>4, <1>5, <2>1
  <2>4. q * n < hi * n + n
    BY <1>2, <1>3, <1>4, <1>5, <2>2
  <2> QED
    BY <2>3, <2>4
<1>7. lo < q + 1 /\ q < hi + 1
  BY <1>4, <1>6, Multiples
<1> QED
  BY <1>4, <1>7 DEF q

-----------------------------------------------------------------------------
(* Least and greatest samples *)

\* A window has a lowest and a highest sample.
LEMMA Extremes ==
  ASSUME NEW s \in [0 .. Window-1 -> Wave]
  PROVE  LET low  == Min({s[i].low : i \in DOMAIN s})
             high == Max({s[i].high : i \in DOMAIN s})
         IN  /\ low \in Adc /\ high \in Adc
             /\ \E i \in 0 .. Window-1 : low = s[i].low
             /\ \E i \in 0 .. Window-1 : high = s[i].high
             /\ \A i \in 0 .. Window-1 : low <= s[i].low /\ s[i].high <= high
<1>. DEFINE L == {s[i].low : i \in DOMAIN s}
            H == {s[i].high : i \in DOMAIN s}
            G == {1023 - x : x \in H}
<1>1. 0 \in DOMAIN s
  BY InputAssumption
<1>2. L \in SUBSET Adc /\ H \in SUBSET Adc /\ L # {} /\ H # {}
  BY <1>1 DEF Wave
<1>. HIDE DEF L, H
<1>3. \E x \in L : \A y \in L : x <= y
  <2>1. L \in SUBSET Nat
    BY <1>2 DEF Adc
  <2> QED
    BY <1>2, <2>1, LeastNat
<1>4. \E x \in H : \A y \in H : y <= x
  <2>1. G \in SUBSET Nat /\ G # {}
    <3>1. \A x \in H : x \in 0 .. 1023
      BY <1>2 DEF Adc
    <3>2. \A x \in 0 .. 1023 : 1023 - x \in Nat
      OBVIOUS
    <3>3. ASSUME NEW x \in H PROVE 1023 - x \in Nat
      <4>1. x \in 0 .. 1023
        BY <3>1
      <4> QED
        BY <4>1, <3>2
    <3> QED
      BY <1>2, <3>3
  <2>2. \E g \in G : \A h \in G : g <= h
    <3>. HIDE DEF G
    <3> QED
      BY <2>1, LeastNat
  <2>3. PICK x \in H : \A h \in G : 1023 - x <= h
    BY <2>2
  <2>4. \A y \in H : 1023 - y \in G
    OBVIOUS
  <2>. HIDE DEF G
  <2>5. \A y \in H : 1023 - x <= 1023 - y
    BY <2>3, <2>4
  <2> QED
    BY <1>2, <2>5 DEF Adc
<1>5. Min(L) \in L /\ \A y \in L : Min(L) <= y
  BY <1>3 DEF Min
<1>6. Max(H) \in H /\ \A y \in H : y <= Max(H)
  BY <1>4 DEF Max
<1> QED
  BY <1>2, <1>5, <1>6 DEF L, H

\* The counter of steady waves stops at its bound.
LEMMA Capped ==
  ASSUME NEW a \in Nat, NEW b \in Nat
  PROVE  Min({a, b}) = IF a <= b THEN a ELSE b
  BY DEF Min

-----------------------------------------------------------------------------
(* The voltages of a steady mains *)

\* What a wave of the mains amounts to before the correction.
Raw(m) == {IF Swings(w.low, w.high) THEN Volts(w.low) ELSE 0 : w \in m}

LEMMA VoltsType == \A a \in Adc : Volts(a) \in Int
  BY DEF Adc, Volts

\* The voltages of a mains are positive or all zero, and within one volt.
LEMMA RawWithinOne ==
  ASSUME NEW m \in Mains
  PROVE  /\ Raw(m) \subseteq Nat
         /\ \A u, v \in Raw(m) : u - v <= 1 /\ (u = 0 <=> v = 0)
<1>1. m \subseteq Wave
  BY InputAssumption
<1>2. \A w \in m : w.low \in Adc /\ Volts(w.low) \in Int
  BY <1>1, VoltsType DEF Wave
<1>3. CASE \A v, w \in m : ~Swings(v.low, w.high)
  BY <1>3 DEF Raw
<1>4. CASE \A v, w \in m : /\ Swings(w.low, w.high) /\ Volts(w.low) > 0
                           /\ Volts(v.low) - Volts(w.low) <= 1
  BY <1>2, <1>4 DEF Raw
<1> QED
  BY <1>3, <1>4, MainsAssumption

\* The display shows the voltages with what is added to those that are not zero.
LEMMA VoltagesAreRaw ==
  ASSUME NEW m \in Mains
  PROVE  /\ VoltagesOf(m) = {Corrected(v) : v \in Raw(m)}
         /\ \A v \in Raw(m) : Corrected(v) \in Nat /\ (Corrected(v) = 0 <=> v = 0)
         /\ \A u, v \in VoltagesOf(m) : u \in Nat /\ u - v <= 1 /\ (u = 0 <=> v = 0)
<1>1. VoltagesOf(m) = {Corrected(v) : v \in Raw(m)}
  BY DEF VoltagesOf, Raw, Corrected
<1>2. \A v \in Raw(m) : Corrected(v) \in Nat /\ (Corrected(v) = 0 <=> v = 0)
  BY RawWithinOne DEF Corrected
<1>3. \A u, v \in Raw(m) : Corrected(u) - Corrected(v) <= 1
  BY RawWithinOne DEF Corrected
<1>4. \A u, v \in Raw(m) : Corrected(u) = 0 <=> Corrected(v) = 0
  BY <1>2, RawWithinOne
<1> QED
  BY <1>1, <1>2, <1>3, <1>4

\* The average of voltages of one mains is one of them.
LEMMA AverageIsRaw ==
  ASSUME NEW m \in Mains, NEW b \in [0 .. Size-1 -> Int],
         \A i \in 0 .. Size-1 : b[i] \in Raw(m)
  PROVE  SumFunction(b) \div Size \in Raw(m)
<1>. DEFINE u == b[0]
            a == SumFunction(b) \div Size
<1>0. Size \in Nat \ {0} /\ 0 \in 0 .. Size-1
  BY InputAssumption
<1>1. \A lo, hi \in Int : (\A i \in 0 .. Size-1 : lo <= b[i] /\ b[i] <= hi)
                            => lo <= a /\ a <= hi
  BY <1>0, AverageBounds
<1>2. u \in Raw(m) /\ u \in Int /\ a \in Int
  <2>1. SumFunction(b) \in Int
    <3>1. IsFiniteSet(0 .. Size-1)
      BY <1>0, FS_Interval
    <3>2. \E g \in [SUBSET (0 .. Size-1) -> Int] : SumFunction(b) = g[0 .. Size-1]
      BY <3>1, SumIsFold, Zenon
    <3> QED
      BY <3>2
  <2> QED
    BY <1>0, <2>1
<1>3. \A i \in 0 .. Size-1 : b[i] \in Int /\ b[i] - u \in {-1, 0, 1}
  <2>1. \A v, w \in Raw(m) : v \in Int /\ w \in Int /\ v - w <= 1 /\ w - v <= 1
    BY RawWithinOne
  <2>. HIDE DEF u
  <2>2. \A i \in 0 .. Size-1 : /\ b[i] \in Int /\ u \in Int
                               /\ b[i] - u <= 1 /\ u - b[i] <= 1
    BY <1>2, <2>1
  <2> QED
    BY <2>2
<1>4. \A i, j \in 0 .. Size-1 : b[i] - b[j] <= 1
  BY RawWithinOne
<1>. HIDE DEF a, u
<1>5. CASE \E i \in 0 .. Size-1 : b[i] = u + 1
  <2>1. PICK i \in 0 .. Size-1 : b[i] = u + 1
    BY <1>5
  <2>2. \A j \in 0 .. Size-1 : u <= b[j] /\ b[j] <= u + 1
    BY <1>2, <1>3, <1>4, <2>1
  <2>3. a = u \/ a = b[i]
    BY <1>1, <1>2, <2>1, <2>2
  <2> QED
    BY <1>2, <2>3 DEF a
<1>6. CASE \E i \in 0 .. Size-1 : b[i] = u - 1
  <2>1. PICK i \in 0 .. Size-1 : b[i] = u - 1
    BY <1>6
  <2>2. \A j \in 0 .. Size-1 : u - 1 <= b[j] /\ b[j] <= u
    BY <1>2, <1>3, <1>4, <2>1
  <2>3. a = u \/ a = b[i]
    BY <1>1, <1>2, <2>1, <2>2
  <2> QED
    BY <1>2, <2>3 DEF a
<1>7. CASE \A i \in 0 .. Size-1 : b[i] # u + 1 /\ b[i] # u - 1
  <2>1. \A j \in 0 .. Size-1 : u <= b[j] /\ b[j] <= u
    BY <1>2, <1>3, <1>7
  <2>2. a = u
    BY <1>1, <1>2, <2>1
  <2> QED
    BY <1>2, <2>2 DEF a
<1> QED
  BY <1>5, <1>6, <1>7

-----------------------------------------------------------------------------
(* The invariant *)

TypeOK ==
  /\ mains \in Mains
  /\ samples \in [0 .. Window-1 -> Wave] /\ sample_index \in 0 .. Window-1
  /\ due \in 0 .. Every
  /\ buff \in [0 .. Size-1 -> Int] /\ index \in 0 .. Size-1
  /\ first \in BOOLEAN /\ shown \in Int
  /\ steady \in 0 .. Settled /\ changes \in Nat

\* How many newer ones there are than the sample, or the value, at a place.
SampleAge(i) == IF i < sample_index THEN sample_index - 1 - i
                                    ELSE sample_index - 1 - i + Window
ValueAge(i)  == IF i < index THEN index - 1 - i ELSE index - 1 - i + Size

\* The samples taken since the mains changed are of the mains.
WindowInv ==
  \A i \in 0 .. Window-1 : SampleAge(i) < steady => samples[i] \in mains

\* So are the values computed when all samples were.
ValuesInv ==
  \A i \in 0 .. Size-1 :
    steady - due - ValueAge(i) * Every >= Window => buff[i] \in Raw(mains)

\* Before the first update no more waves have passed than since an update.
FirstInv == first => steady <= due

\* The display was decided on the buffer as it is.
ShownInv ==
  ~first => \E old \in Int : shown = Displayed(old, Corrected(SumFunction(buff) \div Size))

SettledInv == TypeOK /\ WindowInv /\ ValuesInv /\ FirstInv /\ ShownInv

LEMMA Bounds ==
  /\ Window \in Nat /\ Every \in Nat /\ Every > 0 /\ Every < Window
  /\ Size \in Nat /\ Size > 0 /\ MaxChanges \in Nat
  /\ Size * Every \in Nat /\ Settled \in Nat /\ Settled = Window + Size * Every
<1>1. /\ Window \in Nat /\ Every \in Nat /\ Every > 0 /\ Every < Window
      /\ Size \in Nat /\ Size > 0 /\ MaxChanges \in Nat
  BY InputAssumption
<1>2. Size * Every \in Nat
  BY <1>1
<1> QED
  BY <1>1, <1>2 DEF Settled

LEMMA AgeRange ==
  \A i, j \in 0 .. Size-1 : (IF i < j THEN j - 1 - i ELSE j - 1 - i + Size) \in 0 .. Size-1
  BY Bounds

\* The updates a value is old fit into the waves the mains has to be steady.
LEMMA AgeFits ==
  ASSUME NEW a \in 0 .. Size-1
  PROVE  /\ a * Every \in Nat /\ (a + 1) * Every = a * Every + Every
         /\ a * Every + Every <= Size * Every
<1>1. PICK k \in Nat : Size = a + 1 + k
  BY Bounds
<1>2. Size * Every = a * Every + Every + k * Every
  BY <1>1, Bounds
<1>3. k * Every \in Nat /\ a * Every \in Nat /\ (a + 1) * Every = a * Every + Every
  BY Bounds
<1> QED
  BY <1>2, <1>3, Bounds

\* What an update measures, and what the average starts from.
Measured ==
  LET low  == Min({samples[i].low : i \in DOMAIN samples})
      high == Max({samples[i].high : i \in DOMAIN samples})
  IN  IF Swings(low, high) THEN Volts(low) ELSE 0
Started ==
  LET low  == Min({samples[i].low : i \in DOMAIN samples})
      high == Max({samples[i].high : i \in DOMAIN samples})
      adc  == IF Swings(low, high) THEN low ELSE 0
  IN  IF first THEN [i \in DOMAIN buff |-> adc] ELSE buff

LEMMA UpdateIs ==
  ASSUME Update
  PROVE  /\ buff' = [Started EXCEPT ![index] = Measured]
         /\ shown' = Displayed(shown, Corrected(SumFunction(buff') \div Size))
  BY Zenon DEF Update, Started, Measured

LEMMA MeasuredType ==
  ASSUME TypeOK
  PROVE  Measured \in Int /\ Started \in [0 .. Size-1 -> Int] /\ (~first => Started = buff)
<1>. DEFINE low  == Min({samples[i].low : i \in DOMAIN samples})
            high == Max({samples[i].high : i \in DOMAIN samples})
<1>1. low \in Adc
  BY Extremes DEF TypeOK
<1>. HIDE DEF low, high
<1>2. Volts(low) \in Int /\ low \in Int
  BY <1>1, VoltsType DEF Adc
<1>3. Measured \in Int
  BY <1>2 DEF Measured, low, high
<1>4. Started \in [0 .. Size-1 -> Int]
  <2>. DEFINE adc == IF Swings(low, high) THEN low ELSE 0
  <2>1. adc \in Int
    BY <1>2
  <2>2. Started = IF first THEN [i \in DOMAIN buff |-> adc] ELSE buff
    BY DEF Started, low, high
  <2>. HIDE DEF adc
  <2> QED
    BY <2>1, <2>2 DEF TypeOK
<1> QED
  BY <1>3, <1>4 DEF Started

\* A window of samples of the mains measures a voltage of the mains.
LEMMA MeasuredIsRaw ==
  ASSUME TypeOK, \A i \in 0 .. Window-1 : samples[i] \in mains
  PROVE  Measured \in Raw(mains)
<1>. DEFINE low  == Min({samples[i].low : i \in DOMAIN samples})
            high == Max({samples[i].high : i \in DOMAIN samples})
<1>1. /\ low \in Adc /\ high \in Adc
      /\ \E i \in 0 .. Window-1 : low = samples[i].low
      /\ \E i \in 0 .. Window-1 : high = samples[i].high
      /\ \A i \in 0 .. Window-1 : low <= samples[i].low /\ samples[i].high <= high
  BY Extremes DEF TypeOK
<1>. HIDE DEF low, high
<1>2. PICK v \in mains, w \in mains : /\ low = v.low /\ high = w.high
                                      /\ low <= w.low /\ v.high <= high
  BY <1>1
<1>3. v \in Wave /\ w \in Wave
  BY InputAssumption DEF TypeOK
<1>4. CASE \A a, b \in mains : ~Swings(a.low, b.high)
  <2>1. Measured = 0
    BY <1>2, <1>4 DEF Measured, low, high
  <2> QED
    BY <1>4, <2>1 DEF Raw
<1>5. CASE \A a \in mains : Swings(a.low, a.high)
  <2>1. Swings(v.low, v.high)
    BY <1>5
  <2>2. Swings(low, high)
    BY <1>1, <1>2, <1>3, <2>1 DEF Swings, Wave, Adc
  <2>3. Measured = Volts(v.low)
    BY <1>2, <2>2 DEF Measured, low, high
  <2> QED
    BY <2>1, <2>3 DEF Raw
<1> QED
  BY <1>4, <1>5, MainsAssumption DEF TypeOK

LEMMA InitSettled ==
  Init => SettledInv
<1> SUFFICES ASSUME Init PROVE SettledInv
  OBVIOUS
<1>1. TypeOK
  BY Bounds DEF Init, TypeOK, Wave, Adc
<1>2. WindowInv
  BY Bounds DEF Init, WindowInv, SampleAge
<1>3. ValuesInv
  <2>1. ASSUME NEW i \in 0 .. Size-1 PROVE ~(steady - due - ValueAge(i) * Every >= Window)
    <3>1. ValueAge(i) \in 0 .. Size-1
      BY Bounds DEF Init, ValueAge
    <3>2. ValueAge(i) * Every \in Nat
      BY <3>1, AgeFits
    <3> QED
      BY <3>2, Bounds DEF Init
  <2> QED
    BY <2>1 DEF ValuesInv
<1>4. FirstInv /\ ShownInv
  BY DEF Init, FirstInv, ShownInv
<1> QED
  BY <1>1, <1>2, <1>3, <1>4 DEF SettledInv

LEMMA SampleSettled ==
  ASSUME SettledInv, Sample
  PROVE  SettledInv'
<1>. USE DEF SettledInv
<1>1. steady' = IF steady + 1 <= Settled THEN steady + 1 ELSE Settled
  BY Bounds, Capped DEF Sample, TypeOK
<1>2. PICK w \in mains : samples' = [samples EXCEPT ![sample_index] = w]
  BY DEF Sample
<1>3. w \in Wave
  BY <1>2, InputAssumption DEF TypeOK
<1>4. sample_index' = IF sample_index = Window-1 THEN 0 ELSE sample_index + 1
  BY Bounds DEF Sample, TypeOK
<1>5. TypeOK'
  BY <1>1, <1>2, <1>3, <1>4, Bounds DEF Sample, TypeOK, display
<1>6. WindowInv'
  <2>1. ASSUME NEW i \in 0 .. Window-1, SampleAge(i)' < steady'
        PROVE  samples'[i] \in mains
    <3>1. CASE i = sample_index
      BY <1>2, <3>1 DEF TypeOK
    <3>2. CASE i # sample_index
      <4>1. SampleAge(i)' = SampleAge(i) + 1
        BY <1>4, <3>2, Bounds DEF SampleAge, TypeOK
      <4>2. SampleAge(i) \in Int
        BY Bounds DEF SampleAge, TypeOK
      <4>3. SampleAge(i) < steady
        BY <1>1, <2>1, <4>1, <4>2, Bounds DEF TypeOK
      <4>4. samples'[i] = samples[i]
        BY <1>2, <3>2 DEF TypeOK
      <4> QED
        BY <4>3, <4>4 DEF WindowInv
    <3> QED
      BY <3>1, <3>2
  <2>2. mains' = mains
    BY DEF Sample
  <2> QED
    BY <2>1, <2>2 DEF WindowInv
<1>7. ValuesInv'
  <2>1. UNCHANGED <<mains, buff, index>> /\ due' = due + 1
    BY DEF Sample, display
  <2>2. ASSUME NEW i \in 0 .. Size-1, steady' - due' - ValueAge(i) * Every >= Window
        PROVE  steady - due - ValueAge(i) * Every >= Window
    <3>1. ValueAge(i) \in 0 .. Size-1
      BY Bounds DEF ValueAge, TypeOK
    <3>2. ValueAge(i) * Every \in Nat
      BY <3>1, AgeFits
    <3>. DEFINE p == ValueAge(i) * Every
    <3>. HIDE DEF p
    <3>3. p \in Nat /\ steady' - due' - p >= Window
      BY <2>2, <3>2 DEF p
    <3>4. steady - due - p >= Window
      BY <1>1, <2>1, <3>3, Bounds DEF TypeOK
    <3> QED
      BY <3>4 DEF p
  <2>3. \A i \in 0 .. Size-1 : ValueAge(i)' = ValueAge(i)
    BY <2>1 DEF ValueAge
  <2> QED
    BY <2>1, <2>2, <2>3 DEF ValuesInv
<1>8. FirstInv'
  BY <1>1, Bounds DEF Sample, FirstInv, TypeOK, display
<1>9. ShownInv'
  <2>1. UNCHANGED <<first, shown, buff>>
    BY DEF Sample, display
  <2> QED
    BY <2>1 DEF ShownInv
<1> QED
  BY <1>5, <1>6, <1>7, <1>8, <1>9

\* After an update, values as old as the mains is steady are of the mains.
LEMMA UpdateValues ==
  ASSUME SettledInv, Update, NEW i \in 0 .. Size-1,
         steady - ValueAge(i)' * Every >= Window
  PROVE  buff'[i] \in Raw(mains)
<1>. USE DEF SettledInv
<1>1. buff' = [Started EXCEPT ![index] = Measured]
  BY UpdateIs
<1>2. index' = IF index = Size-1 THEN 0 ELSE index + 1
  BY Bounds DEF Update, NextPlace, TypeOK
<1>3. Started \in [0 .. Size-1 -> Int]
  BY MeasuredType
<1>4. CASE i = index
  <2>1. ValueAge(i)' = 0
    BY <1>2, <1>4, Bounds DEF ValueAge, TypeOK
  <2>2. steady >= Window
    BY <2>1, Bounds DEF TypeOK
  <2>3. \A k \in 0 .. Window-1 : SampleAge(k) < steady
    BY <2>2, Bounds DEF SampleAge, TypeOK
  <2>4. Measured \in Raw(mains)
    BY <2>3, MeasuredIsRaw DEF WindowInv
  <2> QED
    BY <1>1, <1>3, <1>4, <2>4
<1>5. CASE i # index
  <2>1. ValueAge(i)' = ValueAge(i) + 1 /\ ValueAge(i) \in 0 .. Size-1
    BY <1>2, <1>5, Bounds DEF ValueAge, TypeOK
  <2>2. /\ (ValueAge(i) + 1) * Every = ValueAge(i) * Every + Every
        /\ ValueAge(i) * Every \in Nat
    BY <2>1, AgeFits
  <2>. DEFINE p == ValueAge(i) * Every
  <2>3. ValueAge(i)' * Every = p + Every
    BY <2>1, <2>2
  <2>4. p \in Nat
    BY <2>2
  <2>. HIDE DEF p
  <2>5. steady - (p + Every) >= Window
    BY <2>3
  <2>6. due = Every
    BY DEF Update
  <2>7. steady - due - p >= Window
    BY <2>4, <2>5, <2>6, Bounds DEF TypeOK
  <2>8. buff[i] \in Raw(mains)
    BY <2>7 DEF ValuesInv, p
  <2>9. ~first
    BY <2>4, <2>5, <2>6, Bounds DEF FirstInv, TypeOK
  <2> QED
    BY <1>1, <1>3, <1>5, <2>8, <2>9, MeasuredType
<1> QED
  BY <1>4, <1>5

LEMMA UpdateSettled ==
  ASSUME SettledInv, Update
  PROVE  SettledInv'
<1>. USE DEF SettledInv
<1>1. /\ buff' = [Started EXCEPT ![index] = Measured]
      /\ shown' = Displayed(shown, Corrected(SumFunction(buff') \div Size))
  BY UpdateIs
<1>2. UNCHANGED <<mains, samples, sample_index, steady, changes>> /\ due' = 0 /\ first' = FALSE
  BY DEF Update, sampling
<1>3. buff' \in [0 .. Size-1 -> Int]
  BY <1>1, MeasuredType DEF TypeOK
<1>4. shown' \in Int
  <2>1. SumFunction(buff') \in Int
    BY <1>3, SumType, Bounds
  <2>2. SumFunction(buff') \div Size \in Int
    BY <2>1, Bounds
  <2>3. Corrected(SumFunction(buff') \div Size) \in Int
    BY <2>2 DEF Corrected
  <2> QED
    BY <1>1, <2>3 DEF Displayed, TypeOK
<1>5. TypeOK'
  <2>1. index' \in 0 .. Size-1
    BY Bounds DEF Update, NextPlace, TypeOK
  <2>2. due' \in 0 .. Every
    BY <1>2, Bounds
  <2> QED
    BY <1>2, <1>3, <1>4, <2>1, <2>2 DEF TypeOK
<1>6. WindowInv'
  BY <1>2 DEF WindowInv, SampleAge
<1>7. ValuesInv'
  <2>1. ASSUME NEW i \in 0 .. Size-1, steady' - due' - ValueAge(i)' * Every >= Window
        PROVE  buff'[i] \in Raw(mains)
    <3>1. steady - 0 - ValueAge(i)' * Every >= Window
      BY <1>2, <2>1
    <3>2. ValueAge(i)' \in 0 .. Size-1
      <4>1. index' \in 0 .. Size-1
        BY <1>5 DEF TypeOK
      <4> QED
        BY <4>1, AgeRange DEF ValueAge
    <3>3. ValueAge(i)' * Every \in Nat
      BY <3>2, AgeFits
    <3>4. steady - ValueAge(i)' * Every >= Window
      <4>. DEFINE p == ValueAge(i)' * Every
      <4>. HIDE DEF p
      <4>1. steady - 0 - p >= Window /\ p \in Nat /\ steady \in Nat
        BY <3>1, <3>3, Bounds DEF p, TypeOK
      <4>2. steady - p >= Window
        BY <4>1, Bounds
      <4> QED
        BY <4>2 DEF p
    <3> QED
      BY <3>4, UpdateValues
  <2>2. Raw(mains)' = Raw(mains)
    BY <1>2 DEF Raw
  <2> QED
    BY <2>1, <2>2 DEF ValuesInv
<1>8. FirstInv'
  BY <1>2 DEF FirstInv
<1>9. ShownInv'
  BY <1>1 DEF ShownInv, TypeOK
<1> QED
  BY <1>5, <1>6, <1>7, <1>8, <1>9

LEMMA ChangeSettled ==
  ASSUME SettledInv, Change
  PROVE  SettledInv'
<1>. USE DEF SettledInv
<1>1. /\ UNCHANGED <<samples, sample_index, due, buff, index, first, shown>>
      /\ steady' = 0 /\ mains' \in Mains /\ changes' = changes + 1
  BY DEF Change, sampling, display
<1>2. TypeOK'
  BY <1>1, Bounds DEF TypeOK
<1>3. WindowInv'
  BY <1>1, Bounds DEF WindowInv, SampleAge, TypeOK
<1>4. ValuesInv'
  <2>1. ASSUME NEW i \in 0 .. Size-1
        PROVE  ~(steady' - due' - ValueAge(i)' * Every >= Window)
    <3>1. ValueAge(i)' \in 0 .. Size-1
      <4>1. index' \in 0 .. Size-1
        BY <1>2 DEF TypeOK
      <4> QED
        BY <4>1, AgeRange DEF ValueAge
    <3>2. ValueAge(i)' * Every \in Nat
      BY <3>1, AgeFits
    <3>. DEFINE p == ValueAge(i)' * Every
    <3>3. p \in Nat
      BY <3>2
    <3>. HIDE DEF p
    <3>4. ~(steady' - due' - p >= Window)
      BY <1>1, <3>3, Bounds DEF TypeOK
    <3> QED
      BY <3>4 DEF p
  <2> QED
    BY <2>1 DEF ValuesInv
<1>5. FirstInv'
  BY <1>1 DEF FirstInv, TypeOK
<1>6. ShownInv'
  BY <1>1 DEF ShownInv
<1> QED
  BY <1>2, <1>3, <1>4, <1>5, <1>6

LEMMA SettledHolds == Spec => []SettledInv
<1>1. SettledInv /\ [Next]_vars => SettledInv'
  <2> SUFFICES ASSUME SettledInv, [Next]_vars PROVE SettledInv'
    OBVIOUS
  <2>1. CASE Sample
    BY <2>1, SampleSettled
  <2>2. CASE Update
    BY <2>2, UpdateSettled
  <2>3. CASE Change
    BY <2>3, ChangeSettled
  <2>4. CASE UNCHANGED vars
    BY <2>4 DEF SettledInv, vars, sampling, display, TypeOK, WindowInv, SampleAge,
       ValuesInv, ValueAge, Raw, FirstInv, ShownInv
  <2> QED
    BY <2>1, <2>2, <2>3, <2>4 DEF Next
<1> QED
  BY InitSettled, <1>1, PTL DEF Spec

-----------------------------------------------------------------------------
(* The display *)

\* Once the mains has been steady long enough every value that is averaged is
\* one of its voltages, and with them the average.
LEMMA SettledAverage ==
  ASSUME SettledInv, steady = Settled, ~first, due < Every
  PROVE  Corrected(SumFunction(buff) \div Size) \in VoltagesOf(mains)
<1>. USE DEF SettledInv
<1>1. ASSUME NEW i \in 0 .. Size-1 PROVE buff[i] \in Raw(mains)
  <2>1. ValueAge(i) \in 0 .. Size-1
    BY Bounds DEF ValueAge, TypeOK
  <2>. DEFINE p == ValueAge(i) * Every
  <2>2. p \in Nat /\ p + Every <= Size * Every
    BY <2>1, AgeFits
  <2>. HIDE DEF p
  <2>3. steady - due - p >= Window
    <3>. DEFINE q == Size * Every
    <3>1. q \in Nat /\ Settled = Window + q /\ p + Every <= q
      BY <2>2, Bounds
    <3>. HIDE DEF q
    <3> QED
      BY <2>2, <3>1, Bounds DEF TypeOK
  <2> QED
    BY <2>3 DEF ValuesInv, p
<1>2. SumFunction(buff) \div Size \in Raw(mains)
  BY <1>1, AverageIsRaw DEF TypeOK
<1> QED
  BY <1>2, VoltagesAreRaw DEF TypeOK

LEMMA AfterUpdate ==
  ASSUME SettledInv', steady' = Settled, ~first', due' < Every, mains' = mains
  PROVE  Corrected(SumFunction(buff') \div Size) \in VoltagesOf(mains)
<1>1. (SettledInv /\ steady = Settled /\ ~first /\ due < Every
         => Corrected(SumFunction(buff) \div Size) \in VoltagesOf(mains))'
  BY SettledAverage, PTL
<1> QED
  BY <1>1 DEF VoltagesOf

\* When the mains has been steady for the window and for as many updates as are
\* averaged, the display shows it to within a volt, and zero for no mains: for
\* every size of both buffers, every period and every steady mains.
THEOREM SteadyShown == Spec => []SteadyIsShown
<1>1. SettledInv => SteadyIsShown
  <2> SUFFICES ASSUME SettledInv, Settles PROVE SteadyIsShown
    BY DEF SteadyIsShown
  <2>. USE DEF SettledInv
  <2>1. ~first
    BY Bounds DEF Settles, FirstInv, TypeOK
  <2>. DEFINE new == Corrected(SumFunction(buff) \div Size)
  <2>2. new \in VoltagesOf(mains)
    BY <2>1, SettledAverage DEF Settles
  <2>3. PICK old \in Int : shown = Displayed(old, new)
    BY <2>1 DEF ShownInv
  <2>4. new \in Nat /\ (new = 0 <=> 0 \in VoltagesOf(mains))
    BY <2>2, VoltagesAreRaw DEF TypeOK
  <2>. HIDE DEF new
  <2>5. shown - new \in -1 .. 1 /\ (shown = 0 <=> new = 0)
    BY <2>3, <2>4 DEF Displayed
  <2> QED
    BY <2>2, <2>4, <2>5 DEF SteadyIsShown
<1> QED
  BY <1>1, SettledHolds, PTL

\* While the mains is steady, a display that shows one of its voltages keeps it:
\* an update that reckons the other one changes nothing.
THEOREM DisplayStill == Spec => StillDisplay
<1>1. SettledInv /\ SettledInv' /\ [Next]_vars =>
        [steady = Settled /\ shown \in VoltagesOf(mains) /\ mains' = mains
           => shown' = shown]_vars
  <2> SUFFICES ASSUME SettledInv, SettledInv', Next, steady = Settled,
                      shown \in VoltagesOf(mains), mains' = mains
               PROVE  shown' = shown
    OBVIOUS
  <2>1. CASE Sample \/ Change
    BY <2>1 DEF Sample, Change, display
  <2>2. CASE Update
    <3>1. steady' = Settled /\ ~first' /\ due' < Every
      BY <2>2, Bounds DEF Update
    <3>. DEFINE new == Corrected(SumFunction(buff') \div Size)
    <3>2. shown' = Displayed(shown, new)
      BY <2>2, UpdateIs
    <3>3. new \in VoltagesOf(mains)
      BY <3>1, AfterUpdate
    <3>. HIDE DEF new
    <3>4. /\ shown \in Nat /\ new \in Nat /\ (shown = 0 <=> new = 0)
          /\ shown - new <= 1 /\ new - shown <= 1
      BY <3>3, VoltagesAreRaw DEF SettledInv, TypeOK
    <3> QED
      BY <3>2, <3>4 DEF Displayed
  <2> QED
    BY <2>1, <2>2 DEF Next
<1> QED
  BY <1>1, SettledHolds, PTL DEF Spec, StillDisplay
====
