--------------------------- MODULE MegaMoeWavesProof ---------------------------
(***************************************************************************)
(* Proofs about MegaMoeWaves, for any number of programs, experts, waves,  *)
(* slots and tiles and any loads: the roles of a program walk one list of  *)
(* tiles, the programs share the tiles out, none is left out, the L1 tiles *)
(* of a block are done before its L2 tiles, and no wait closes a circle.   *)
(*                                                                         *)
(* All tiles have a number, in the order in which the waves take them; the *)
(* scheduler loop changes a cursor and not the number it stands for.       *)
(***************************************************************************)
EXTENDS MegaMoeWaves, FiniteSetTheorems, WellFoundedInduction, TLAPS

-----------------------------------------------------------------------------
(* Sums of sizes.                                                            *)
LEMMA NatMinimum ==
  ASSUME NEW T, T \subseteq Nat, T # {}
  PROVE  \E x \in T : \A y \in T : x <= y
<1>1. \E x \in T : \A y \in T : ~ (<<y, x>> \in OpToRel(<, Nat))
  BY NatLessThanWellFounded, WFMin
<1>2. \A x, y \in Nat : <<y, x>> \in OpToRel(<, Nat) <=> y < x
  BY DEF OpToRel
<1>3. \E x \in T : \A y \in T : ~ (y < x)
  BY <1>1, <1>2, Zenon
<1> QED BY <1>3

\* The sets A[x], side by side.
Stacked(A, S) == UNION {{x} \X A[x] : x \in S}

\* Nothing, and one set more.
LEMMA StackedTwo ==
  ASSUME NEW A
  PROVE  /\ Stacked(A, {}) = {}
         /\ \A S : \A x : x \notin S /\ IsFiniteSet(Stacked(A, S)) /\ IsFiniteSet(A[x])
              => /\ IsFiniteSet(Stacked(A, S \cup {x}))
                 /\ Cardinality(Stacked(A, S \cup {x})) =
                      Cardinality(Stacked(A, S)) + Cardinality(A[x])
<1>1. Stacked(A, {}) = {} BY DEF Stacked
<1>2. ASSUME NEW S, NEW x, x \notin S, IsFiniteSet(Stacked(A, S)), IsFiniteSet(A[x])
      PROVE  /\ IsFiniteSet(Stacked(A, S \cup {x}))
             /\ Cardinality(Stacked(A, S \cup {x})) =
                  Cardinality(Stacked(A, S)) + Cardinality(A[x])
  <2> DEFINE R == {x} \X A[x]
             b == [k \in A[x] |-> <<x, k>>]
  <2>1. Stacked(A, S \cup {x}) = Stacked(A, S) \cup R
    BY DEF Stacked
  <2>2. Stacked(A, S) \cap R = {}
    BY <1>2 DEF Stacked
  <2>3. IsFiniteSet(R) /\ Cardinality(R) = Cardinality(A[x])
    <3>1. b \in [A[x] -> R] OBVIOUS
    <3>2. \A k, l \in A[x] : b[k] = b[l] => k = l OBVIOUS
    <3>3. \A t \in R : \E k \in A[x] : b[k] = t OBVIOUS
    <3>4. b \in Bijection(A[x], R)
      BY <3>1, <3>2, <3>3 DEF Bijection, Injection, IsInjective, Surjection
    <3>5. ExistsBijection(A[x], R) BY <3>4 DEF ExistsBijection
    <3> QED BY <1>2, <3>5, FS_Bijection
  <2> HIDE DEF R
  <2>4. /\ IsFiniteSet(Stacked(A, S) \cup R)
        /\ Cardinality(Stacked(A, S) \cup R) =
             Cardinality(Stacked(A, S)) + Cardinality(R) - Cardinality(Stacked(A, S) \cap R)
    BY <1>2, <2>3, FS_Union
  <2>5. Cardinality(Stacked(A, S)) \in Nat /\ Cardinality(A[x]) \in Nat
    BY <1>2, FS_CardinalityType
  <2>6. Cardinality(Stacked(A, S) \cap R) = 0 BY <2>2, FS_EmptySet
  <2>7. IsFiniteSet(Stacked(A, S \cup {x})) BY <2>1, <2>4
  <2>8. PICK m, n, k : /\ m = Cardinality(Stacked(A, S)) /\ n = Cardinality(A[x])
                       /\ k = Cardinality(Stacked(A, S \cup {x}))
    OBVIOUS
  <2>9. k = m + n - 0 BY <2>1, <2>3, <2>4, <2>6, <2>8
  <2>10. k = m + n BY <2>5, <2>8, <2>9
  <2> QED BY <2>7, <2>8, <2>10
<1> QED BY <1>1, <1>2

\* A sum of sizes is the size of the sets side by side.
LEMMA SumOfSizes ==
  ASSUME NEW S, IsFiniteSet(S), NEW A, NEW f,
         \A x \in S : IsFiniteSet(A[x]) /\ f[x] = Cardinality(A[x])
  PROVE  /\ IsFiniteSet(Stacked(A, S))
         /\ SumFunctionOnSet(f, S) = Cardinality(Stacked(A, S))
<1> DEFINE C(s) == CHOOSE x \in s : TRUE
<1> DEFINE Fold(g) == [s \in SUBSET S |-> IF s = {} THEN 0 ELSE f[C(s)] + g[s \ {C(s)}]]
<1>0. \A x \in S : f[x] \in Nat BY FS_CardinalityType
<1>1. SumFunctionOnSet(f, S) = (CHOOSE g : g = Fold(g))[S]
  BY DEF SumFunctionOnSet, FoldFunctionOnSet, MapThenFoldSet
<1>2. ASSUME NEW s \in SUBSET S, s # {} PROVE C(s) \in s
  BY <1>2
<1> HIDE DEF C
<1>3. ASSUME NEW s \in SUBSET S PROVE IsFiniteSet(s) /\ Cardinality(s) \in Nat
  BY <1>3, FS_Subset, FS_CardinalityType
<1>4. ASSUME NEW s \in SUBSET S, s # {}
      PROVE  /\ s \ {C(s)} \in SUBSET S
             /\ Cardinality(s \ {C(s)}) = Cardinality(s) - 1
             /\ s = (s \ {C(s)}) \cup {C(s)}
  <2>1. C(s) \in s BY <1>2, <1>4
  <2>2. IsFiniteSet(s) BY <1>3
  <2>3. Cardinality(s \ {C(s)}) = Cardinality(s) - 1 BY <2>1, <2>2, FS_RemoveElement
  <2> QED BY <2>1, <2>3
<1>5. \A s \in SUBSET S : IsFiniteSet(Stacked(A, s))
  <2> DEFINE Bad == {s \in SUBSET S : ~IsFiniteSet(Stacked(A, s))}
             Sizes_ == {Cardinality(s) : s \in Bad}
  <2> SUFFICES ASSUME Bad # {} PROVE FALSE
    OBVIOUS
  <2>1. Sizes_ \subseteq Nat /\ Sizes_ # {} BY <1>3
  <2>2. \E n \in Sizes_ : \A k \in Sizes_ : n <= k BY <2>1, NatMinimum
  <2>3. PICK s \in Bad : \A u \in Bad : Cardinality(s) <= Cardinality(u) BY <2>2
  <2>4. s # {} BY <2>3, StackedTwo, FS_EmptySet
  <2>5. s \ {C(s)} \notin Bad BY <1>3, <1>4, <2>3, <2>4
  <2>6. IsFiniteSet(Stacked(A, s \ {C(s)})) BY <1>4, <2>4, <2>5
  <2>7. C(s) \notin s \ {C(s)} /\ IsFiniteSet(A[C(s)]) BY <1>2, <2>4
  <2>8. IsFiniteSet(Stacked(A, (s \ {C(s)}) \cup {C(s)}))
    BY <2>6, <2>7, StackedTwo
  <2> QED BY <1>4, <2>3, <2>4, <2>8
<1>6. ASSUME NEW s \in SUBSET S, s # {}
      PROVE  Cardinality(Stacked(A, s)) = f[C(s)] + Cardinality(Stacked(A, s \ {C(s)}))
  <2> DEFINE x == C(s)
             t == s \ {x}
  <2>1. /\ x \notin t /\ IsFiniteSet(A[x]) /\ f[x] = Cardinality(A[x]) /\ f[x] \in Nat
        /\ IsFiniteSet(Stacked(A, t)) /\ s = t \cup {x}
    BY <1>0, <1>2, <1>4, <1>5, <1>6
  <2>2. Cardinality(Stacked(A, t)) \in Nat BY <2>1, FS_CardinalityType
  <2> HIDE DEF x, t
  <2>3. Cardinality(Stacked(A, t \cup {x})) = Cardinality(Stacked(A, t)) + Cardinality(A[x])
    BY <2>1, StackedTwo
  <2>4. Cardinality(Stacked(A, s)) = f[x] + Cardinality(Stacked(A, t))
    BY <2>1, <2>2, <2>3
  <2> QED BY <2>4 DEF x, t
<1> DEFINE h == [s \in SUBSET S |-> Cardinality(Stacked(A, s))]
<1>7. h = Fold(h)
  <2>1. ASSUME NEW s \in SUBSET S
        PROVE  h[s] = IF s = {} THEN 0 ELSE f[C(s)] + h[s \ {C(s)}]
    <3>1. CASE s = {} BY <3>1, StackedTwo, FS_EmptySet
    <3>2. CASE s # {} BY <1>4, <1>6, <3>2
    <3> QED BY <3>1, <3>2
  <2> QED BY <2>1
<1>8. \E g : g = Fold(g) BY <1>7
<1>9. PICK g : g = Fold(g) /\ g = CHOOSE k : k = Fold(k)
  BY <1>8
<1>10. \A s \in SUBSET S : g[s] = Cardinality(Stacked(A, s))
  <2>1. ASSUME NEW s \in SUBSET S
        PROVE  g[s] = IF s = {} THEN 0 ELSE f[C(s)] + g[s \ {C(s)}]
    BY <1>9
  <2> DEFINE Bad == {s \in SUBSET S : g[s] # Cardinality(Stacked(A, s))}
             Sizes_ == {Cardinality(s) : s \in Bad}
  <2> SUFFICES ASSUME Bad # {} PROVE FALSE
    OBVIOUS
  <2>2. Sizes_ \subseteq Nat /\ Sizes_ # {} BY <1>3
  <2>3. \E n \in Sizes_ : \A k \in Sizes_ : n <= k BY <2>2, NatMinimum
  <2>4. PICK s \in Bad : \A u \in Bad : Cardinality(s) <= Cardinality(u) BY <2>3
  <2>5. s # {} BY <2>1, <2>4, StackedTwo, FS_EmptySet
  <2>6. s \ {C(s)} \notin Bad BY <1>3, <1>4, <2>4, <2>5
  <2>7. g[s \ {C(s)}] = Cardinality(Stacked(A, s \ {C(s)})) BY <1>4, <2>5, <2>6
  <2> QED BY <1>6, <2>1, <2>4, <2>5, <2>7
<1>11. S \in SUBSET S OBVIOUS
<1> QED BY <1>1, <1>5, <1>9, <1>10, <1>11

-----------------------------------------------------------------------------
(* The blocks of the experts in front of an expert.                          *)
Top == ((EPR + EPW - 1) \div EPW) * EPW
Sum(n, e) == BlocksOf(n, 0, e)

\* The sizes of the launch, as the code's shapes allow them.
LEMMA Sizes ==
  /\ NUM_SMS \in Nat \ {0} /\ EPR \in Nat \ {0} /\ EPW \in Nat \ {0} /\ EPW <= EPR
  /\ BLOCK_M \in Nat \ {0} /\ BLOCK_M % 2 = 0
  /\ NL1N \in Nat \ {0} /\ NL2N \in Nat \ {0} /\ NK1 \in Nat \ {0} /\ NK2 \in Nat \ {0}
  /\ STAGES \in Nat \ {0} /\ TokenCounts \subseteq Nat
BY WavesAssumption DEF NL1N, NL2N, NK1, NK2

\* Quotient and rest.
LEMMA Division ==
  \A b \in Nat, m \in Nat \ {0} :
    b % m \in 0 .. m - 1 /\ b \div m \in Nat /\ b = m * (b \div m) + (b % m)
OBVIOUS

\* Products keep the order.
LEMMA Order ==
  \A k, l, m \in Nat : k <= l => k * m <= l * m /\ m * k <= m * l
OBVIOUS

\* Products of naturals.
LEMMA Products == \A k, l \in Nat : k * l \in Nat /\ k * l = l * k
OBVIOUS

\* The padded experts are whole waves, the last of which holds the last expert.
LEMMA TopFacts == Top \in Nat /\ EPR <= Top /\ Top < EPR + EPW /\ Padded = 0 .. Top - 1
<1>1. PICK m \in Nat \ {0}, a \in Nat : m = EPW /\ a = EPR + EPW - 1 BY Sizes
<1>2. PICK v \in Nat : v = a \div m /\ a = m * v + (a % m) /\ a % m \in 0 .. m - 1
  BY Division
<1>3. PICK t \in Nat : t = m * v /\ t = v * m BY Products
<1>4. Top = t BY <1>1, <1>2, <1>3 DEF Top
<1>5. a = t + (a % m) BY <1>2, <1>3
<1> QED BY <1>1, <1>2, <1>4, <1>5, Sizes DEF Padded, Top

\* The blocks of no expert, and of one more.
LEMMA BlocksStep ==
  ASSUME NEW n \in [Padded -> Nat], NEW lo \in Nat, NEW hi \in Nat, lo <= hi, hi <= Top
  PROVE  /\ BlocksOf(n, lo, lo) = 0
         /\ BlocksOf(n, lo, hi) \in Nat
         /\ hi < Top => BlocksOf(n, lo, hi + 1) = BlocksOf(n, lo, hi) + n[hi]
<1> DEFINE A == [e \in Padded |-> 0 .. n[e] - 1]
<1>1. Top \in Nat /\ Padded = 0 .. Top - 1 BY TopFacts
<1>2. \A e \in Padded : IsFiniteSet(A[e]) /\ n[e] = Cardinality(A[e])
  <2>1. ASSUME NEW e \in Padded PROVE IsFiniteSet(0 .. n[e] - 1) /\ n[e] = Cardinality(0 .. n[e] - 1)
    <3>1. PICK k \in Nat : k = n[e] OBVIOUS
    <3>2. k - 1 \in Int /\ 0 \in Int BY <3>1
    <3>3. IsFiniteSet(0 .. k - 1) /\ Cardinality(0 .. k - 1) =
            IF 0 > k - 1 THEN 0 ELSE (k - 1) - 0 + 1
      BY <3>2, FS_Interval
    <3> QED BY <3>1, <3>3
  <2> QED BY <2>1
<1> HIDE DEF A
<1>3. ASSUME NEW h \in Nat, h <= Top
      PROVE  /\ IsFiniteSet(Stacked(A, lo .. h - 1))
             /\ BlocksOf(n, lo, h) = Cardinality(Stacked(A, lo .. h - 1))
  <2>1. lo .. h - 1 \subseteq Padded BY <1>1, <1>3
  <2>2. IsFiniteSet(lo .. h - 1) BY FS_Interval
  <2>3. \A e \in lo .. h - 1 : IsFiniteSet(A[e]) /\ n[e] = Cardinality(A[e])
    BY <1>2, <2>1
  <2> QED BY <2>2, <2>3, SumOfSizes DEF BlocksOf
<1>4. BlocksOf(n, lo, lo) = 0
  <2>1. lo <= Top BY <1>1
  <2>2. lo .. lo - 1 = {} OBVIOUS
  <2>3. Cardinality(Stacked(A, {})) = 0 BY StackedTwo, FS_EmptySet
  <2> QED BY <1>3, <2>1, <2>2, <2>3
<1>5. BlocksOf(n, lo, hi) \in Nat BY <1>3, FS_CardinalityType
<1>6. ASSUME hi < Top PROVE BlocksOf(n, lo, hi + 1) = BlocksOf(n, lo, hi) + n[hi]
  <2>1. lo .. (hi + 1) - 1 = (lo .. hi - 1) \cup {hi} OBVIOUS
  <2>2. hi \notin lo .. hi - 1 OBVIOUS
  <2>3. hi \in Padded /\ hi + 1 \in Nat /\ hi + 1 <= Top BY <1>1, <1>6
  <2>4. Cardinality(Stacked(A, (lo .. hi - 1) \cup {hi}))
          = Cardinality(Stacked(A, lo .. hi - 1)) + Cardinality(A[hi])
    <3>1. IsFiniteSet(Stacked(A, lo .. hi - 1)) /\ IsFiniteSet(A[hi]) BY <1>2, <1>3, <2>3
    <3> QED BY <2>2, <3>1, StackedTwo
  <2> QED BY <1>2, <1>3, <2>1, <2>3, <2>4
<1> QED BY <1>4, <1>5, <1>6

\* Sums of blocks add up and grow with the expert.
LEMMA SumFacts ==
  ASSUME NEW n \in [Padded -> Nat]
  PROVE  /\ Sum(n, 0) = 0
         /\ \A e \in 0 .. Top : Sum(n, e) \in Nat
         /\ \A e \in 0 .. Top - 1 : n[e] \in Nat /\ Sum(n, e + 1) = Sum(n, e) + n[e]
         /\ \A lo, hi \in 0 .. Top : lo <= hi =>
              /\ Sum(n, lo) <= Sum(n, hi)
              /\ BlocksOf(n, lo, hi) = Sum(n, hi) - Sum(n, lo)
<1>1. Top \in Nat /\ Padded = 0 .. Top - 1 BY TopFacts
<1>2. Sum(n, 0) = 0 /\ \A e \in 0 .. Top : Sum(n, e) \in Nat
  BY <1>1, BlocksStep DEF Sum
<1>3. ASSUME NEW e \in 0 .. Top - 1 PROVE n[e] \in Nat /\ Sum(n, e + 1) = Sum(n, e) + n[e]
  BY <1>1, BlocksStep DEF Sum
<1>4. ASSUME NEW lo \in 0 .. Top
      PROVE  \A hi \in lo .. Top : /\ Sum(n, lo) <= Sum(n, hi)
                                   /\ BlocksOf(n, lo, hi) = Sum(n, hi) - Sum(n, lo)
  <2> DEFINE Good(hi) == Sum(n, lo) <= Sum(n, hi) /\ BlocksOf(n, lo, hi) = Sum(n, hi) - Sum(n, lo)
             Bad == {hi \in lo .. Top : ~Good(hi)}
  <2> SUFFICES ASSUME Bad # {} PROVE FALSE
    OBVIOUS
  <2>1. PICK m \in Bad : \A y \in Bad : m <= y
    <3>1. Bad \subseteq Nat BY <1>1
    <3> HIDE DEF Bad
    <3> QED BY <3>1, NatMinimum
  <2>2. m # lo
    <3>0. lo \in Nat /\ lo <= lo /\ lo <= Top BY <1>1
    <3>1. BlocksOf(n, lo, lo) = 0 BY <3>0, BlocksStep
    <3>2. Sum(n, lo) \in Nat BY <1>2
    <3>3. Good(lo) BY <3>1, <3>2
    <3> QED BY <2>1, <3>3
  <2>3. m - 1 \in lo .. Top /\ m - 1 \notin Bad /\ m - 1 < Top /\ (m - 1) + 1 = m
    BY <1>1, <2>1, <2>2
  <2>4. Good(m - 1) BY <2>3
  <2>5. /\ BlocksOf(n, lo, m) = BlocksOf(n, lo, m - 1) + n[m - 1]
        /\ Sum(n, m) = Sum(n, m - 1) + n[m - 1] /\ n[m - 1] \in Nat
    <3>1. m - 1 \in 0 .. Top - 1 BY <1>1, <2>3
    <3>2. lo \in Nat /\ m - 1 \in Nat /\ lo <= m - 1 /\ m - 1 <= Top BY <1>1, <2>3
    <3>3. BlocksOf(n, lo, (m - 1) + 1) = BlocksOf(n, lo, m - 1) + n[m - 1]
      BY <2>3, <3>2, BlocksStep
    <3>4. Sum(n, (m - 1) + 1) = Sum(n, m - 1) + n[m - 1] /\ n[m - 1] \in Nat BY <1>3, <3>1
    <3> QED BY <2>3, <3>3, <3>4
  <2>6. Sum(n, lo) \in Nat /\ Sum(n, m - 1) \in Nat BY <1>1, <1>2, <2>3
  <2>7. Good(m) BY <2>4, <2>5, <2>6
  <2> QED BY <2>7
<1> QED BY <1>2, <1>3, <1>4

-----------------------------------------------------------------------------
(* Waves: experts between two multiples of EPW.                              *)
Start(e) == (e \div EPW) * EPW
End(e)   == Start(e) + EPW

\* The wave of an expert between two multiples of EPW.
LEMMA StartIs ==
  ASSUME NEW e \in Nat, NEW v \in Nat, v * EPW <= e, e < v * EPW + EPW
  PROVE  e \div EPW = v /\ Start(e) = v * EPW
<1>1. PICK m \in Nat \ {0} : m = EPW BY Sizes
<1>2. PICK q \in Nat : q = e \div m /\ e = m * q + (e % m) /\ e % m \in 0 .. m - 1
  BY Division
<1>3. m * q = q * m /\ q * m \in Nat /\ v * m \in Nat BY Products
<1>4. ASSUME q < v PROVE FALSE
  <2>1. (q + 1) * m <= v * m BY <1>4, Order
  <2>2. (q + 1) * m = q * m + m OBVIOUS
  <2> QED BY <1>1, <1>2, <1>3, <2>1, <2>2
<1>5. ASSUME v < q PROVE FALSE
  <2>1. (v + 1) * m <= q * m BY <1>5, Order
  <2>2. (v + 1) * m = v * m + m OBVIOUS
  <2> QED BY <1>1, <1>2, <1>3, <2>1, <2>2
<1> QED BY <1>1, <1>2, <1>4, <1>5 DEF Start

\* A wave holds its experts, and waves follow each other.
LEMMA WaveFacts ==
  ASSUME NEW e \in Nat
  PROVE  /\ Start(e) \in Nat /\ End(e) \in Nat /\ Start(e) <= e /\ e < End(e)
         /\ (e \div EPW + 1) * EPW = End(e)
         /\ \A f \in Nat : Start(e) <= f /\ f < End(e) => Start(f) = Start(e)
         /\ Start(End(e)) = End(e)
         /\ \A f \in Nat : f > e => Start(e) <= Start(f)
                                    /\ (Start(e) # Start(f) => End(e) <= Start(f))
<1>1. PICK m \in Nat \ {0} : m = EPW BY Sizes
<1>2. PICK q \in Nat : q = e \div m /\ e = m * q + (e % m) /\ e % m \in 0 .. m - 1
  BY Division
<1>3. PICK s \in Nat : s = q * m /\ s = m * q BY Products
<1>4. Start(e) = s /\ End(e) = s + m BY <1>1, <1>2, <1>3 DEF Start, End
<1>5. s <= e /\ e < s + m BY <1>2, <1>3
<1>6. (q + 1) * m = s + m BY <1>3
<1>7. \A f \in Nat : Start(e) <= f /\ f < End(e) => Start(f) = Start(e)
  BY <1>1, <1>3, <1>4, StartIs
<1>8. Start(End(e)) = End(e)
  <2>1. (q + 1) * EPW <= s + m /\ s + m < (q + 1) * EPW + EPW /\ s + m \in Nat /\ q + 1 \in Nat
    BY <1>1, <1>3, <1>6
  <2> QED BY <1>1, <1>4, <1>6, <2>1, StartIs
<1>9. ASSUME NEW f \in Nat, f > e
      PROVE  Start(e) <= Start(f) /\ (Start(e) # Start(f) => End(e) <= Start(f))
  <2>1. PICK p \in Nat : p = f \div m /\ f = m * p + (f % m) /\ f % m \in 0 .. m - 1
    BY Division
  <2>2. PICK t \in Nat : t = p * m /\ t = m * p BY Products
  <2>3. Start(f) = t BY <1>1, <2>1, <2>2 DEF Start
  <2>4. ASSUME p < q PROVE FALSE
    <3>1. (p + 1) * m <= q * m /\ (p + 1) * m = t + m BY <2>2, <2>4, Order
    <3> QED BY <1>3, <1>5, <1>9, <2>1, <2>2, <3>1
  <2>5. p > q => s + m <= t
    <3>1. ASSUME p > q PROVE (q + 1) * m <= p * m BY <3>1, Order
    <3> QED BY <1>6, <2>2, <3>1
  <2> QED BY <1>3, <1>4, <2>2, <2>3, <2>4, <2>5
<1> QED BY <1>1, <1>2, <1>4, <1>5, <1>6, <1>7, <1>8, <1>9

\* The last wave ends where the padded experts do.
LEMMA LastWave ==
  /\ Start(Top) = Top
  /\ \A e \in Nat : e < EPR => End(e) <= Top /\ (End(e) >= EPR => End(e) = Top)
<1>1. PICK m \in Nat \ {0}, v \in Nat : m = EPW /\ v = (EPR + EPW - 1) \div EPW
  <2>1. EPR + EPW - 1 \in Nat BY Sizes
  <2> QED BY <2>1, Sizes, Division
<1>2. PICK t \in Nat : t = v * m /\ t = Top BY <1>1, Products DEF Top
<1>3. Start(Top) = Top
  <2>1. v * EPW <= t /\ t < v * EPW + EPW BY <1>1, <1>2
  <2> QED BY <1>1, <1>2, <2>1, StartIs
<1>4. ASSUME NEW e \in Nat, e < EPR PROVE End(e) <= Top /\ (End(e) >= EPR => End(e) = Top)
  <2>1. PICK s \in Nat : s = Start(e) /\ s <= e /\ e < s + m
    BY <1>1, WaveFacts DEF End
  <2>2. e < t BY <1>2, <1>4, TopFacts, Sizes
  <2>3. s + m <= t BY <1>1, <1>2, <1>3, <2>1, <2>2, WaveFacts DEF End
  <2>4. ASSUME s + m >= EPR, s + m < t PROVE FALSE
    <3>1. Start(s + m) = s + m BY <1>1, <2>1, WaveFacts DEF End
    <3>2. (s + m) + m <= t
      <4>1. s + m \in Nat /\ t > s + m BY <2>1, <2>4
      <4>2. Start(t) = t BY <1>2, <1>3
      <4>3. Start(s + m) # Start(t) => (s + m) + m <= t
        BY <1>1, <1>2, <3>1, <4>1, <4>2, WaveFacts DEF End
      <4> QED BY <2>4, <3>1, <4>2, <4>3
    <3> QED BY <1>1, <1>2, <2>1, <2>4, <3>2, TopFacts, Sizes
  <2> QED BY <1>1, <1>2, <2>1, <2>3, <2>4, Sizes DEF End
<1> QED BY <1>3, <1>4

-----------------------------------------------------------------------------
(***************************************************************************)
(* All tiles of a rank have a number: the tiles of the waves before, both   *)
(* phases, the L1 tiles of the wave if the phase is 2, and the tiles of the *)
(* experts in front.  Seek changes a cursor but not the number it stands    *)
(* for.                                                                     *)
(***************************************************************************)
First(n, e, p) ==
  IF p = 1 THEN NL1N * Sum(n, e) + NL2N * Sum(n, Start(e))
           ELSE NL1N * Sum(n, End(e)) + NL2N * Sum(n, e)
Number(n, c) == First(n, c.cur, c.phase) + c.block

\* On a tile: of an expert that has blocks enough.
OnTile(n, c) ==
  ~c.stop /\ c.cur < EPR /\ c.block < n[c.cur] * Width(c.phase)
Over(c) == c.stop /\ c.cur = Top /\ c.phase = 1

\* The loaders' offsets of the pool.
Carried(n, c) == c.pool = Sum(n, c.cur) /\ c.wave = Sum(n, Start(c.cur))

\* Where the loop begins.
Entry(c) == c \in Cursors /\ ~c.stop /\ (c.cur < EPR \/ (c.cur = Top /\ c.phase = 1))

Turn(n, f, c) ==
  LET end  == WaveEnd(c)
      hits == {e \in c.cur .. end - 1 : c.block < Skipped(n, c, e + 1)}
  IN  IF c.cur >= EPR THEN [c EXCEPT !.stop = TRUE]
      ELSE IF hits # {}
        THEN [c EXCEPT !.cur = Min(hits),
                       !.block = @ - Skipped(n, c, Min(hits)),
                       !.pool = @ + BlocksOf(n, c.cur, Min(hits))]
      ELSE f[IF c.phase = 1 THEN EndOfPhase1(n, c, end)
                            ELSE EndOfPhase2(n, c, end)]

\* What the loop goes on with when the rest of the phase has too few tiles.
NextPhase(n, c) == IF c.phase = 1 THEN EndOfPhase1(n, c, WaveEnd(c))
                                  ELSE EndOfPhase2(n, c, WaveEnd(c))
Hits(n, c) == {e \in c.cur .. WaveEnd(c) - 1 : c.block < Skipped(n, c, e + 1)}

\* Waves and phases that are left; the loop makes progress in it.
Remaining(c) == IF c.cur >= EPR THEN 0 ELSE 2 * (Top - Start(c.cur)) + 3 - c.phase

\* First tiles have a number.
LEMMA FirstNat ==
  ASSUME NEW n \in [Padded -> Nat]
  PROVE  /\ \A e \in 0 .. Top : First(n, e, 1) \in Nat
         /\ \A e \in Nat : e < EPR => First(n, e, 2) \in Nat
<1>1. ASSUME NEW e \in 0 .. Top PROVE First(n, e, 1) \in Nat
  <2>1. e \in Nat /\ Start(e) \in 0 .. Top
    <3>1. e \in Nat /\ e <= Top /\ Top \in Nat BY <1>1, TopFacts
    <3>2. Start(e) \in Nat /\ Start(e) <= e BY <3>1, WaveFacts
    <3> QED BY <3>1, <3>2
  <2>2. Sum(n, e) \in Nat /\ Sum(n, Start(e)) \in Nat BY <2>1, SumFacts
  <2>3. NL1N * Sum(n, e) \in Nat /\ NL2N * Sum(n, Start(e)) \in Nat BY <2>2, Products, Sizes
  <2> QED BY <2>3 DEF First
<1>2. ASSUME NEW e \in Nat, e < EPR PROVE First(n, e, 2) \in Nat
  <2>1. e \in 0 .. Top /\ End(e) \in 0 .. Top
    <3>1. End(e) \in Nat /\ e < End(e) BY WaveFacts
    <3>2. End(e) <= Top /\ Top \in Nat BY <1>2, LastWave, TopFacts
    <3> QED BY <3>1, <3>2
  <2>2. Sum(n, e) \in Nat /\ Sum(n, End(e)) \in Nat BY <2>1, SumFacts
  <2>3. NL1N * Sum(n, End(e)) \in Nat /\ NL2N * Sum(n, e) \in Nat BY <2>2, Products, Sizes
  <2> QED BY <2>3 DEF First
<1> QED BY <1>1, <1>2

-----------------------------------------------------------------------------
(* One turn of the loop.                                                     *)
LEMMA MinFacts ==
  ASSUME NEW S, S \subseteq Nat, S # {}
  PROVE  Min(S) \in S /\ \A x \in S : Min(S) <= x
<1>1. \E x \in S : \A y \in S : x <= y BY NatMinimum
<1> QED BY <1>1 DEF Min

\* Tiles passed over, in the wave and at its end.
LEMMA SkippedFacts ==
  ASSUME NEW n \in [Padded -> Nat], NEW c \in Cursors, c.cur < EPR
  PROVE  /\ WaveEnd(c) = End(c.cur) /\ WaveEnd(c) \in Nat /\ c.cur < WaveEnd(c)
         /\ c.cur \in Nat /\ WaveEnd(c) <= Top
         /\ \A e \in c.cur .. WaveEnd(c) :
              /\ Skipped(n, c, e) \in Nat
              /\ Skipped(n, c, e) = (Sum(n, e) - Sum(n, c.cur)) * Width(c.phase)
              /\ BlocksOf(n, c.cur, e) \in Nat
              /\ BlocksOf(n, c.cur, e) = Sum(n, e) - Sum(n, c.cur)
              /\ e < WaveEnd(c) =>
                   First(n, e, c.phase) = First(n, c.cur, c.phase) + Skipped(n, c, e)
         /\ c.phase = 1 => First(n, Start(c.cur), 2) = First(n, c.cur, 1) + Skipped(n, c, WaveEnd(c))
         /\ c.phase = 2 => First(n, WaveEnd(c), 1) = First(n, c.cur, 2) + Skipped(n, c, WaveEnd(c))
<1>1. PICK k \in Nat : k = c.cur BY DEF Cursors
<1>2. c.phase \in {1, 2} BY DEF Cursors
<1>3. PICK w \in Nat, s \in Nat : /\ w = WaveEnd(c) /\ w = End(k) /\ s = Start(k) /\ s <= k /\ k < w
                                 /\ w <= Top
  BY <1>1, WaveFacts, LastWave DEF WaveEnd
<1>4. Top \in Nat /\ k \in 0 .. Top /\ w \in 0 .. Top /\ s \in 0 .. Top BY <1>3, TopFacts
<1>5. PICK a \in Nat, b \in Nat : a = NL1N /\ b = NL2N BY Sizes
<1>6. ASSUME NEW e \in k .. w
      PROVE  /\ BlocksOf(n, k, e) \in Nat /\ BlocksOf(n, k, e) = Sum(n, e) - Sum(n, k)
             /\ Sum(n, e) \in Nat /\ Sum(n, k) \in Nat
  <2>1. e \in 0 .. Top /\ k <= e BY <1>3, <1>4
  <2>2. Sum(n, e) \in Nat /\ Sum(n, k) \in Nat BY <1>4, <2>1, SumFacts
  <2>3. Sum(n, k) <= Sum(n, e) /\ BlocksOf(n, k, e) = Sum(n, e) - Sum(n, k)
    BY <1>4, <2>1, SumFacts
  <2> QED BY <2>2, <2>3
<1>7. Width(c.phase) \in Nat BY <1>2, Sizes DEF Width
<1>8. ASSUME NEW e \in k .. w
      PROVE  /\ Skipped(n, c, e) \in Nat
             /\ Skipped(n, c, e) = (Sum(n, e) - Sum(n, k)) * Width(c.phase)
  <2>1. PICK x \in Nat, y \in Nat : x = BlocksOf(n, k, e) /\ y = Width(c.phase) BY <1>6, <1>7
  <2>2. x * y \in Nat BY Products
  <2> QED BY <1>1, <1>6, <2>1, <2>2 DEF Skipped
<1>9. \A x, y, z \in Nat : x <= y => z * y = z * x + (y - x) * z OBVIOUS
<1>10. PICK sw \in Nat, sk \in Nat, ss \in Nat : sw = Sum(n, w) /\ sk = Sum(n, k) /\ ss = Sum(n, s)
  BY <1>4, SumFacts
<1>11. ASSUME NEW e \in k .. w, e < w PROVE First(n, e, c.phase) = First(n, k, c.phase) + Skipped(n, c, e)
  <2>1. Start(e) = s /\ End(e) = w
    <3>1. e \in Nat /\ Start(k) <= e /\ e < End(k) BY <1>3, <1>11
    <3>2. Start(e) = Start(k) BY <3>1, WaveFacts
    <3> QED BY <1>3, <3>2 DEF End
  <2>2. PICK se \in Nat : se = Sum(n, e) /\ sk <= se
    <3>1. e \in 0 .. Top /\ k <= e BY <1>3, <1>4, <1>11
    <3> QED BY <1>4, <1>10, <3>1, SumFacts
  <2>3. CASE c.phase = 1
    <3>1. First(n, e, 1) = a * se + b * ss /\ First(n, k, 1) = a * sk + b * ss
      BY <1>3, <1>5, <1>10, <2>1, <2>2 DEF First
    <3>2. Skipped(n, c, e) = (se - sk) * a BY <1>5, <1>8, <1>10, <2>2, <2>3 DEF Width
    <3>3. a * se = a * sk + (se - sk) * a BY <1>9, <2>2
    <3>4. a * se \in Nat /\ a * sk \in Nat /\ b * ss \in Nat BY Products
    <3> QED BY <1>8, <2>3, <3>1, <3>2, <3>3, <3>4
  <2>4. CASE c.phase = 2
    <3>1. First(n, e, 2) = a * sw + b * se /\ First(n, k, 2) = a * sw + b * sk
      BY <1>3, <1>5, <1>10, <2>1, <2>2 DEF First
    <3>2. Skipped(n, c, e) = (se - sk) * b BY <1>5, <1>8, <1>10, <2>2, <2>4 DEF Width
    <3>3. b * se = b * sk + (se - sk) * b BY <1>9, <2>2
    <3>4. b * se \in Nat /\ b * sk \in Nat /\ a * sw \in Nat BY Products
    <3> QED BY <1>8, <2>4, <3>1, <3>2, <3>3, <3>4
  <2> QED BY <1>2, <2>3, <2>4
<1>12. sk <= sw /\ w \in k .. w
  <2>1. k <= w BY <1>3
  <2> QED BY <1>3, <1>4, <1>10, <2>1, SumFacts
<1>13. ASSUME c.phase = 1 PROVE First(n, s, 2) = First(n, k, 1) + Skipped(n, c, w)
  <2>1. End(s) = w
    <3>1. Start(k) <= s /\ s < End(k) BY <1>3
    <3>2. Start(s) = Start(k) BY <1>3, <3>1, WaveFacts
    <3> QED BY <1>3, <3>2 DEF End
  <2>2. First(n, s, 2) = a * sw + b * ss /\ First(n, k, 1) = a * sk + b * ss
    BY <1>3, <1>5, <1>10, <2>1 DEF First
  <2>3. Skipped(n, c, w) = (sw - sk) * a BY <1>5, <1>8, <1>10, <1>12, <1>13 DEF Width
  <2>4. a * sw = a * sk + (sw - sk) * a BY <1>9, <1>12
  <2>5. a * sw \in Nat /\ a * sk \in Nat /\ b * ss \in Nat BY Products
  <2> QED BY <1>8, <1>12, <2>2, <2>3, <2>4, <2>5
<1>14. ASSUME c.phase = 2 PROVE First(n, w, 1) = First(n, k, 2) + Skipped(n, c, w)
  <2>1. Start(w) = w BY <1>3, WaveFacts
  <2>2. First(n, w, 1) = a * sw + b * sw /\ First(n, k, 2) = a * sw + b * sk
    BY <1>3, <1>5, <1>10, <2>1 DEF First
  <2>3. Skipped(n, c, w) = (sw - sk) * b BY <1>5, <1>8, <1>10, <1>12, <1>14 DEF Width
  <2>4. b * sw = b * sk + (sw - sk) * b BY <1>9, <1>12
  <2>5. b * sw \in Nat /\ b * sk \in Nat /\ a * sw \in Nat BY Products
  <2> QED BY <1>8, <1>12, <2>2, <2>3, <2>4, <2>5
<1> QED BY <1>1, <1>3, <1>6, <1>8, <1>11, <1>13, <1>14

\* The first expert whose tiles reach beyond the cursor's holds its tile.
LEMMA HitsFacts ==
  ASSUME NEW n \in [Padded -> Nat], NEW c \in Cursors, c.cur < EPR
  PROVE  /\ Hits(n, c) \subseteq Nat
         /\ Hits(n, c) = {} => c.block >= Skipped(n, c, WaveEnd(c))
         /\ Hits(n, c) # {} =>
              /\ Min(Hits(n, c)) \in c.cur .. WaveEnd(c) - 1
              /\ Skipped(n, c, Min(Hits(n, c))) <= c.block
              /\ c.block < Skipped(n, c, Min(Hits(n, c)) + 1)
<1>1. PICK k \in Nat, w \in Nat, b \in Nat : k = c.cur /\ w = WaveEnd(c) /\ b = c.block /\ k < w
  BY SkippedFacts DEF Cursors
<1>2. \A e \in k .. w : Skipped(n, c, e) \in Nat BY <1>1, SkippedFacts
<1>3. Hits(n, c) = {e \in k .. w - 1 : b < Skipped(n, c, e + 1)} BY <1>1 DEF Hits
<1>4. Hits(n, c) \subseteq Nat BY <1>3
<1>5. ASSUME Hits(n, c) = {} PROVE b >= Skipped(n, c, w)
  <2>1. w - 1 \in k .. w - 1 /\ (w - 1) + 1 = w /\ w \in k .. w BY <1>1
  <2>2. ~(b < Skipped(n, c, w)) BY <1>3, <1>5, <2>1
  <2> QED BY <1>2, <2>1, <2>2
<1>6. ASSUME Hits(n, c) # {}
      PROVE  /\ Min(Hits(n, c)) \in k .. w - 1
             /\ Skipped(n, c, Min(Hits(n, c))) <= b
             /\ b < Skipped(n, c, Min(Hits(n, c)) + 1)
  <2>1. PICK h \in Nat : /\ h = Min(Hits(n, c)) /\ h \in Hits(n, c)
                         /\ \A x \in Hits(n, c) : h <= x
    BY <1>4, <1>6, MinFacts
  <2>2. h \in k .. w - 1 /\ b < Skipped(n, c, h + 1) BY <1>3, <2>1
  <2>3. Skipped(n, c, h) <= b
    <3>1. CASE h = k
      <4>1. Sum(n, k) \in Nat
        <5>1. k \in 0 .. Top BY <1>1, TopFacts, Sizes
        <5> QED BY <5>1, SumFacts
      <4>2. k \in k .. w BY <1>1
      <4>3. Skipped(n, c, k) = (Sum(n, k) - Sum(n, k)) * Width(c.phase) BY <1>1, <4>2, SkippedFacts
      <4>4. Width(c.phase) \in Nat BY Sizes DEF Width, Cursors
      <4>5. \A x, y \in Nat : (x - x) * y = 0 OBVIOUS
      <4>6. Skipped(n, c, k) = 0 BY <4>1, <4>3, <4>4, <4>5
      <4> QED BY <3>1, <4>6
    <3>2. CASE h # k
      <4>1. h - 1 \in k .. w - 1 /\ h - 1 \notin Hits(n, c) /\ (h - 1) + 1 = h /\ h \in k .. w
        BY <1>1, <2>1, <2>2, <3>2
      <4>2. ~(b < Skipped(n, c, h)) BY <1>3, <4>1
      <4> QED BY <1>2, <4>1, <4>2
    <3> QED BY <3>1, <3>2
  <2> QED BY <2>1, <2>2, <2>3
<1> QED BY <1>1, <1>4, <1>5, <1>6

-----------------------------------------------------------------------------
(* The loop ends: Seek is a function that satisfies its equation.            *)
LEMMA NextPhaseFacts ==
  ASSUME NEW n \in [Padded -> Nat], NEW c \in Cursors, c.cur < EPR, Hits(n, c) = {}
  PROVE  /\ NextPhase(n, c) \in Cursors
         /\ Remaining(NextPhase(n, c)) \in Nat
         /\ Remaining(NextPhase(n, c)) < Remaining(c)
         /\ NextPhase(n, c).ck = c.ck /\ NextPhase(n, c).kb = c.kb
         /\ NextPhase(n, c).stop = c.stop
         /\ Entry(c) => Entry(NextPhase(n, c))
         /\ Number(n, NextPhase(n, c)) = Number(n, c)
         /\ Carried(n, c) => Carried(n, NextPhase(n, c))
<1>1. PICK k \in Nat, w \in Nat, b \in Nat, s \in Nat :
        /\ k = c.cur /\ w = WaveEnd(c) /\ b = c.block /\ s = Start(k)
        /\ s <= k /\ k < w /\ w = End(k) /\ w <= Top
  <2>1. c.cur \in Nat /\ c.block \in Nat BY DEF Cursors
  <2>2. Start(c.cur) \in Nat /\ Start(c.cur) <= c.cur BY <2>1, WaveFacts
  <2>3. /\ WaveEnd(c) = End(c.cur) /\ WaveEnd(c) \in Nat /\ c.cur < WaveEnd(c)
        /\ WaveEnd(c) <= Top
    BY SkippedFacts
  <2> QED BY <2>1, <2>2, <2>3
<1>2. Top \in Nat /\ EPR <= Top /\ EPR \in Nat BY TopFacts, Sizes
<1>3. PICK d \in Nat : d = Skipped(n, c, w) /\ d <= b
  <2>1. w \in k .. w BY <1>1
  <2>2. Skipped(n, c, w) \in Nat BY <1>1, <2>1, SkippedFacts
  <2> QED BY <1>1, <2>2, HitsFacts
<1>4. PICK m \in Nat : m = BlocksOf(n, k, w) /\ m = Sum(n, w) - Sum(n, k)
  <2>1. w \in k .. w BY <1>1
  <2> QED BY <1>1, <2>1, SkippedFacts
<1>5. Sum(n, k) \in Nat /\ Sum(n, w) \in Nat /\ Sum(n, s) \in Nat
  <2>1. k \in 0 .. Top /\ w \in 0 .. Top /\ s \in 0 .. Top BY <1>1, <1>2
  <2> QED BY <2>1, SumFacts
<1>6. Remaining(c) = 2 * (Top - s) + 3 - c.phase BY <1>1, <1>2 DEF Remaining
<1>7. CASE c.phase = 1
  <2>1. ((w - 1) \div EPW) * EPW = s
    <3>1. w - 1 \in Nat /\ Start(k) <= w - 1 /\ w - 1 < End(k) BY <1>1
    <3>2. Start(w - 1) = s BY <1>1, <3>1, WaveFacts
    <3> QED BY <3>2 DEF Start
  <2>2. NextPhase(n, c) = [c EXCEPT !.block = b - d, !.phase = 2, !.cur = s, !.pool = c.wave]
    BY <1>1, <1>3, <1>7, <2>1 DEF NextPhase, EndOfPhase1
  <2>3. PICK e : e = NextPhase(n, c) OBVIOUS
  <2>4. /\ e \in Cursors /\ e.cur = s /\ e.phase = 2 /\ e.block = b - d /\ e.pool = c.wave
        /\ e.wave = c.wave /\ e.ck = c.ck /\ e.kb = c.kb /\ e.stop = c.stop
    <3>1. b - d \in Nat BY <1>3
    <3>2. /\ c = [block |-> c.block, cur |-> c.cur, phase |-> c.phase, pool |-> c.pool,
                  wave |-> c.wave, ck |-> c.ck, kb |-> c.kb, stop |-> c.stop]
          /\ c.wave \in Nat /\ c.ck \in Nat /\ c.kb \in Nat /\ c.stop \in BOOLEAN
      BY DEF Cursors
    <3>3. e = [block |-> b - d, cur |-> s, phase |-> 2, pool |-> c.wave,
               wave |-> c.wave, ck |-> c.ck, kb |-> c.kb, stop |-> c.stop]
      BY <2>2, <2>3, <3>2
    <3> QED BY <3>1, <3>2, <3>3 DEF Cursors
  <2>5. Start(s) = s
    <3>1. Start(k) <= s /\ s < End(k) BY <1>1
    <3> QED BY <1>1, <3>1, WaveFacts
  <2>6. Remaining(e) = 2 * (Top - s) + 1 BY <1>1, <1>2, <2>4, <2>5 DEF Remaining
  <2>7. Remaining(e) \in Nat /\ Remaining(e) < Remaining(c) BY <1>1, <1>2, <1>6, <1>7, <2>6
  <2>8. Entry(c) => Entry(e) BY <1>1, <1>2, <2>4 DEF Entry
  <2>9. Number(n, e) = Number(n, c)
    <3>1. First(n, s, 2) = First(n, k, 1) + d BY <1>1, <1>3, <1>7, SkippedFacts
    <3>2. First(n, k, 1) \in Nat
      <4>1. k \in 0 .. Top BY <1>1, <1>2
      <4> QED BY <4>1, FirstNat
    <3> QED BY <1>1, <1>3, <1>7, <2>4, <3>1, <3>2 DEF Number
  <2>10. Carried(n, c) => Carried(n, e) BY <1>1, <2>4, <2>5 DEF Carried
  <2> QED BY <2>3, <2>4, <2>7, <2>8, <2>9, <2>10
<1>8. CASE c.phase = 2
  <2>1. NextPhase(n, c) = [c EXCEPT !.block = b - d, !.phase = 1, !.cur = w,
                                    !.pool = c.pool + m, !.wave = c.pool + m]
    BY <1>1, <1>3, <1>4, <1>8 DEF NextPhase, EndOfPhase2
  <2>2. PICK e : e = NextPhase(n, c) OBVIOUS
  <2>3. /\ e \in Cursors /\ e.cur = w /\ e.phase = 1 /\ e.block = b - d /\ e.pool = c.pool + m
        /\ e.wave = c.pool + m /\ e.ck = c.ck /\ e.kb = c.kb /\ e.stop = c.stop
    <3>1. b - d \in Nat BY <1>3
    <3>2. /\ c = [block |-> c.block, cur |-> c.cur, phase |-> c.phase, pool |-> c.pool,
                  wave |-> c.wave, ck |-> c.ck, kb |-> c.kb, stop |-> c.stop]
          /\ c.pool \in Nat /\ c.ck \in Nat /\ c.kb \in Nat /\ c.stop \in BOOLEAN
      BY DEF Cursors
    <3>3. c.pool + m \in Nat BY <3>2
    <3>4. e = [block |-> b - d, cur |-> w, phase |-> 1, pool |-> c.pool + m,
               wave |-> c.pool + m, ck |-> c.ck, kb |-> c.kb, stop |-> c.stop]
      BY <2>1, <2>2, <3>2
    <3> QED BY <3>1, <3>2, <3>3, <3>4 DEF Cursors
  <2>4. Start(w) = w BY <1>1, WaveFacts
  <2>5. Remaining(e) \in Nat /\ Remaining(e) < Remaining(c)
    <3>1. CASE w >= EPR BY <1>1, <1>2, <1>6, <1>8, <2>3, <3>1 DEF Remaining
    <3>2. CASE w < EPR
      <4>1. Remaining(e) = 2 * (Top - w) + 2 BY <1>1, <1>2, <2>3, <2>4, <3>2 DEF Remaining
      <4> QED BY <1>1, <1>2, <1>6, <1>8, <3>2, <4>1
    <3> QED BY <1>1, <1>2, <3>1, <3>2
  <2>6. Entry(c) => Entry(e)
    <3>1. w < EPR \/ w = Top BY <1>1, <1>2, LastWave
    <3> QED BY <2>3, <3>1 DEF Entry
  <2>7. Number(n, e) = Number(n, c)
    <3>1. First(n, w, 1) = First(n, k, 2) + d BY <1>1, <1>3, <1>8, SkippedFacts
    <3>2. First(n, k, 2) \in Nat BY <1>1, FirstNat
    <3> QED BY <1>1, <1>3, <1>8, <2>3, <3>1, <3>2 DEF Number
  <2>8. Carried(n, c) => Carried(n, e) BY <1>1, <1>4, <1>5, <2>3, <2>4 DEF Carried
  <2> QED BY <2>2, <2>3, <2>5, <2>6, <2>7, <2>8
<1> QED BY <1>7, <1>8 DEF Cursors

\* What is left of the walk is bounded.
LEMMA RemainingNat == \A c \in Cursors : Remaining(c) \in Nat /\ Remaining(c) < 2 * Top + 3
<1> SUFFICES ASSUME NEW c \in Cursors
             PROVE  Remaining(c) \in Nat /\ Remaining(c) < 2 * Top + 3
  OBVIOUS
<1>1. c.cur \in Nat /\ c.phase \in {1, 2} BY DEF Cursors
<1>2. Start(c.cur) \in Nat /\ Start(c.cur) <= c.cur BY <1>1, WaveFacts
<1>3. Top \in Nat /\ EPR \in Nat /\ EPR <= Top BY TopFacts, Sizes
<1>4. CASE c.cur >= EPR BY <1>3, <1>4 DEF Remaining
<1>5. CASE ~(c.cur >= EPR)
  <2>1. Remaining(c) = 2 * (Top - Start(c.cur)) + 3 - c.phase BY <1>5 DEF Remaining
  <2> QED BY <1>1, <1>2, <1>3, <1>5, <2>1
<1> QED BY <1>4, <1>5

\* A turn that ends the loop does not depend on the rest of it.
LEMMA TurnStays ==
  ASSUME NEW n, NEW f, NEW g, NEW c, c.cur >= EPR \/ Hits(n, c) # {}
  PROVE  Turn(n, f, c) = Turn(n, g, c)
BY DEF Turn, Hits

\* A turn that does not end it goes on with the next phase.
LEMMA TurnGoesOn ==
  ASSUME NEW n, NEW f, NEW c, ~(c.cur >= EPR), Hits(n, c) = {}
  PROVE  Turn(n, f, c) = f[NextPhase(n, c)]
BY DEF Turn, Hits, NextPhase

\* Seek is the recursive function of its turns.
LEMMA SeekTurns ==
  ASSUME NEW n \in [Padded -> Nat]
  PROVE  \A c \in Cursors : Seek(n, c) =
           (CHOOSE g : g = [x \in Cursors |-> Turn(n, g, x)])[c]
BY DEF Seek, Turn

\* There is a function like the one in Seek: every turn leaves less to go through.
LEMMA SeekEquation ==
  ASSUME NEW n \in [Padded -> Nat]
  PROVE  \E f : /\ \A c \in Cursors : Seek(n, c) = f[c]
                /\ \A c \in Cursors : f[c] = Turn(n, f, c)
<1> DEFINE Near(m) == {c \in Cursors : Remaining(c) < m}
           Good == {m \in Nat : \E f : /\ f = [c \in Cursors |-> f[c]]
                                       /\ \A c \in Near(m) : f[c] = Turn(n, f, c)}
           Bad == Nat \ Good
<1>1. 0 \in Good
  <2> DEFINE f == [c \in Cursors |-> 0]
  <2>1. f = [c \in Cursors |-> f[c]] OBVIOUS
  <2>2. Near(0) = {} BY RemainingNat
  <2> HIDE DEF f
  <2> QED BY <2>1, <2>2
<1>2. ASSUME NEW m \in Nat, m \in Good PROVE m + 1 \in Good
  <2>1. PICK f : /\ f = [c \in Cursors |-> f[c]]
                 /\ \A c \in Near(m) : f[c] = Turn(n, f, c)
    BY <1>2
  <2> DEFINE g == [c \in Cursors |-> IF c \in Near(m) THEN f[c] ELSE Turn(n, f, c)]
  <2>2. g = [c \in Cursors |-> g[c]] OBVIOUS
  <2>3. \A c \in Cursors : g[c] = Turn(n, f, c) BY <2>1
  <2>4. \A c \in Near(m) : g[c] = f[c] /\ c \in Cursors OBVIOUS
  <2> HIDE DEF g
  <2>5. ASSUME NEW c \in Near(m + 1) PROVE g[c] = Turn(n, g, c)
    <3>0. c \in Cursors /\ Remaining(c) < m + 1 OBVIOUS
    <3>1. CASE c.cur >= EPR \/ Hits(n, c) # {}
      <4>1. Turn(n, g, c) = Turn(n, f, c) BY <3>1, TurnStays
      <4> QED BY <2>3, <3>0, <4>1
    <3>3. CASE ~(c.cur >= EPR) /\ Hits(n, c) = {}
      <4>1. c.cur < EPR BY <3>0, <3>3, Sizes DEF Cursors
      <4>2. /\ NextPhase(n, c) \in Cursors /\ Remaining(NextPhase(n, c)) \in Nat
            /\ Remaining(NextPhase(n, c)) < Remaining(c)
        BY <3>0, <3>3, <4>1, NextPhaseFacts
      <4>3. Remaining(NextPhase(n, c)) < m BY <3>0, <4>2, RemainingNat
      <4>4. g[NextPhase(n, c)] = f[NextPhase(n, c)] BY <2>4, <4>2, <4>3
      <4>5. Turn(n, g, c) = g[NextPhase(n, c)] /\ Turn(n, f, c) = f[NextPhase(n, c)]
        BY <3>3, TurnGoesOn
      <4> QED BY <2>3, <3>0, <4>4, <4>5
    <3> QED BY <3>1, <3>3
  <2> HIDE DEF Near
  <2> QED BY <2>2, <2>5
<1>3. Bad = {}
  <2> SUFFICES ASSUME Bad # {} PROVE FALSE
    OBVIOUS
  <2> HIDE DEF Good
  <2>1. Bad \subseteq Nat OBVIOUS
  <2>2. PICK m \in Bad : \A y \in Bad : m <= y
    <3> HIDE DEF Bad
    <3> QED BY <2>1, NatMinimum
  <2>3. m \in Nat /\ m # 0 BY <1>1
  <2>4. m - 1 \in Nat /\ m - 1 \notin Bad /\ (m - 1) + 1 = m BY <2>2, <2>3
  <2>5. m \in Good BY <1>2, <2>4
  <2> QED BY <2>5
<1>4. \A c \in Cursors : Remaining(c) < 2 * Top + 3 BY RemainingNat
<1>5. 2 * Top + 3 \in Good BY <1>3, TopFacts
<1>6. Near(2 * Top + 3) = Cursors BY <1>4
<1>7. PICK f : f = [c \in Cursors |-> f[c]] /\ \A c \in Cursors : f[c] = Turn(n, f, c)
  BY <1>5, <1>6
<1> HIDE DEF Near, Good, Bad
<1>8. f = [c \in Cursors |-> Turn(n, f, c)] BY <1>7
<1>9. PICK h : h = (CHOOSE g : g = [x \in Cursors |-> Turn(n, g, x)]) OBVIOUS
<1>10. h = [c \in Cursors |-> Turn(n, h, c)] BY <1>8, <1>9
<1>11. \A c \in Cursors : Seek(n, c) = h[c] BY <1>9, SeekTurns
<1> QED BY <1>10, <1>11

-----------------------------------------------------------------------------
(* What the loop finds: the cursor of the tile with the number it was given. *)
Loads == {n \in [Padded -> Nat] : \A e \in Padded : e >= EPR => n[e] = 0}

Sought(n, c, d) ==
  /\ d \in Cursors
  /\ d.ck = c.ck /\ d.kb = c.kb
  /\ Number(n, d) = Number(n, c)
  /\ OnTile(n, d) \/ Over(d)
  /\ Carried(n, c) => Carried(n, d)

\* A turn that finds an expert keeps the number and the offsets.
LEMMA HitSought ==
  ASSUME NEW n \in Loads, NEW c, Entry(c), c.cur < EPR, Hits(n, c) # {}
  PROVE  Sought(n, c, [c EXCEPT !.cur = Min(Hits(n, c)),
                                !.block = @ - Skipped(n, c, Min(Hits(n, c))),
                                !.pool = @ + BlocksOf(n, c.cur, Min(Hits(n, c)))])
<1>1. n \in [Padded -> Nat] /\ \A e \in Padded : e >= EPR => n[e] = 0 BY DEF Loads
<1>2. c \in Cursors /\ ~c.stop BY DEF Entry
<1>3. PICK k \in Nat, w \in Nat, b \in Nat, s \in Nat :
        /\ k = c.cur /\ w = WaveEnd(c) /\ b = c.block /\ s = Start(k)
        /\ s <= k /\ k < w /\ w = End(k) /\ w <= Top
  <2>1. c.cur \in Nat /\ c.block \in Nat BY <1>2 DEF Cursors
  <2>2. Start(c.cur) \in Nat /\ Start(c.cur) <= c.cur BY <2>1, WaveFacts
  <2>3. /\ WaveEnd(c) = End(c.cur) /\ WaveEnd(c) \in Nat /\ c.cur < WaveEnd(c)
        /\ WaveEnd(c) <= Top
    BY <1>1, <1>2, SkippedFacts
  <2> QED BY <2>1, <2>2, <2>3
<1>4. Top \in Nat /\ EPR <= Top /\ EPR \in Nat /\ Padded = 0 .. Top - 1 BY TopFacts, Sizes
<1>5. PICK h \in Nat : h = Min(Hits(n, c)) /\ k <= h /\ h < w
                       /\ Skipped(n, c, h) <= b /\ b < Skipped(n, c, h + 1)
  <2>1. /\ Min(Hits(n, c)) \in k .. w - 1
        /\ Skipped(n, c, Min(Hits(n, c))) <= b
        /\ b < Skipped(n, c, Min(Hits(n, c)) + 1)
    BY <1>1, <1>2, <1>3, HitsFacts
  <2> QED BY <1>3, <2>1
<1>6. h \in k .. w /\ h + 1 \in k .. w /\ h \in 0 .. Top - 1 /\ h \in 0 .. Top /\ k \in 0 .. Top
  BY <1>3, <1>4, <1>5
<1>7. PICK x \in Nat, y \in Nat, z \in Nat, q \in Nat :
        x = Sum(n, k) /\ y = Sum(n, h) /\ z = n[h] /\ q = Width(c.phase)
        /\ x <= y /\ Sum(n, h + 1) = y + z
  <2>1. Sum(n, k) \in Nat /\ Sum(n, h) \in Nat BY <1>1, <1>6, SumFacts
  <2>2. n[h] \in Nat /\ Sum(n, h + 1) = Sum(n, h) + n[h] BY <1>1, <1>6, SumFacts
  <2>3. Sum(n, k) <= Sum(n, h) BY <1>1, <1>5, <1>6, SumFacts
  <2>4. Width(c.phase) \in Nat BY <1>2, Sizes DEF Width, Cursors
  <2> QED BY <2>1, <2>2, <2>3, <2>4
<1>8. PICK d \in Nat : d = Skipped(n, c, h) /\ d = (y - x) * q /\ d <= b
  <2>1. Skipped(n, c, h) \in Nat /\ Skipped(n, c, h) = (Sum(n, h) - Sum(n, k)) * Width(c.phase)
    BY <1>1, <1>2, <1>3, <1>6, SkippedFacts
  <2> QED BY <1>5, <1>7, <2>1
<1>9. Skipped(n, c, h + 1) = d + z * q
  <2>1. Skipped(n, c, h + 1) = (Sum(n, h + 1) - Sum(n, k)) * Width(c.phase)
    BY <1>1, <1>2, <1>3, <1>6, SkippedFacts
  <2>2. ((y + z) - x) * q = (y - x) * q + z * q OBVIOUS
  <2> QED BY <1>7, <1>8, <2>1, <2>2
<1>10. b - d \in Nat /\ b - d < z * q
  <2>1. z * q \in Nat BY Products
  <2> QED BY <1>5, <1>8, <1>9, <2>1
<1>11. h < EPR
  <2>1. ASSUME z = 0 PROVE FALSE
    <3>1. 0 * q = 0 OBVIOUS
    <3> QED BY <1>10, <2>1, <3>1
  <2>2. h >= EPR => z = 0 BY <1>1, <1>4, <1>6, <1>7
  <2> QED BY <1>4, <2>1, <2>2
<1>12. PICK m \in Nat : m = BlocksOf(n, k, h) /\ m = y - x
  BY <1>1, <1>2, <1>3, <1>6, <1>7, SkippedFacts
<1>13. PICK e : e = [c EXCEPT !.cur = Min(Hits(n, c)),
                              !.block = @ - Skipped(n, c, Min(Hits(n, c))),
                              !.pool = @ + BlocksOf(n, c.cur, Min(Hits(n, c)))]
  OBVIOUS
<1>14. /\ e \in Cursors /\ e.cur = h /\ e.phase = c.phase /\ e.block = b - d
       /\ e.pool = c.pool + m /\ e.wave = c.wave /\ e.ck = c.ck /\ e.kb = c.kb
       /\ e.stop = c.stop
  <2>1. /\ c = [block |-> c.block, cur |-> c.cur, phase |-> c.phase, pool |-> c.pool,
                wave |-> c.wave, ck |-> c.ck, kb |-> c.kb, stop |-> c.stop]
        /\ c.pool \in Nat /\ c.wave \in Nat /\ c.ck \in Nat /\ c.kb \in Nat
        /\ c.stop \in BOOLEAN /\ c.phase \in {1, 2}
    BY <1>2 DEF Cursors
  <2>2. c.pool + m \in Nat BY <2>1
  <2>3. e = [block |-> b - d, cur |-> h, phase |-> c.phase, pool |-> c.pool + m,
             wave |-> c.wave, ck |-> c.ck, kb |-> c.kb, stop |-> c.stop]
    BY <1>3, <1>5, <1>8, <1>12, <1>13, <2>1
  <2> QED BY <1>10, <2>1, <2>2, <2>3 DEF Cursors
<1>15. Start(h) = s
  <2>1. Start(k) <= h /\ h < End(k) BY <1>3, <1>5
  <2> QED BY <1>3, <2>1, WaveFacts
<1>16. Number(n, e) = Number(n, c)
  <2>1. First(n, h, c.phase) = First(n, k, c.phase) + d
    BY <1>1, <1>2, <1>3, <1>5, <1>6, <1>8, SkippedFacts
  <2>2. First(n, k, c.phase) \in Nat
    <3>1. c.phase \in {1, 2} BY <1>2 DEF Cursors
    <3> QED BY <1>1, <1>3, <1>6, <3>1, FirstNat
  <2> QED BY <1>3, <1>8, <1>14, <2>1, <2>2 DEF Number
<1>17. OnTile(n, e) BY <1>2, <1>7, <1>10, <1>11, <1>14 DEF OnTile
<1>18. Carried(n, c) => Carried(n, e)
  BY <1>3, <1>7, <1>12, <1>14, <1>15 DEF Carried
<1> QED BY <1>13, <1>14, <1>16, <1>17, <1>18 DEF Sought

\* The loop keeps the number and ends on a tile or past the last.
LEMMA SeekFacts ==
  ASSUME NEW n \in Loads, NEW c, Entry(c)
  PROVE  Sought(n, c, Seek(n, c))
<1>0. n \in [Padded -> Nat] BY DEF Loads
<1>1. PICK f : /\ \A x \in Cursors : Seek(n, x) = f[x]
               /\ \A x \in Cursors : f[x] = Turn(n, f, x)
  BY <1>0, SeekEquation
<1> DEFINE Bad == {x \in Cursors : Entry(x) /\ ~Sought(n, x, f[x])}
           Left == {Remaining(x) : x \in Bad}
<1>2. Bad = {}
  <2> SUFFICES ASSUME Bad # {} PROVE FALSE
    OBVIOUS
  <2>1. Left \subseteq Nat /\ Left # {} BY RemainingNat
  <2>2. \E m \in Left : \A k \in Left : m <= k BY <2>1, NatMinimum
  <2>3. PICK x \in Bad : \A y \in Bad : Remaining(x) <= Remaining(y) BY <2>2
  <2>4. x \in Cursors /\ Entry(x) /\ f[x] = Turn(n, f, x) BY <1>1
  <2>5. x.cur < EPR \/ (x.cur >= EPR /\ x.cur = Top /\ x.phase = 1)
    BY <2>4, TopFacts, Sizes DEF Entry
  <2>6. CASE x.cur >= EPR /\ x.cur = Top /\ x.phase = 1
    <3>1. f[x] = [x EXCEPT !.stop = TRUE] BY <2>4, <2>6 DEF Turn
    <3>2. PICK y : y = f[x] OBVIOUS
    <3>3. /\ y \in Cursors /\ y.cur = x.cur /\ y.phase = x.phase /\ y.block = x.block
          /\ y.pool = x.pool /\ y.wave = x.wave /\ y.ck = x.ck /\ y.kb = x.kb /\ y.stop = TRUE
      BY <2>4, <3>1, <3>2 DEF Cursors
    <3>4. Sought(n, x, y) BY <2>6, <3>3 DEF Sought, Number, Over, Carried
    <3> QED BY <3>2, <3>4
  <2>7. CASE x.cur < EPR /\ Hits(n, x) # {}
    <3>1. ~(x.cur >= EPR) BY <2>4, <2>7, Sizes DEF Cursors
    <3>2. f[x] = [x EXCEPT !.cur = Min(Hits(n, x)),
                           !.block = @ - Skipped(n, x, Min(Hits(n, x))),
                           !.pool = @ + BlocksOf(n, x.cur, Min(Hits(n, x)))]
      BY <2>4, <2>7, <3>1 DEF Turn, Hits
    <3>3. Sought(n, x, f[x]) BY <2>4, <2>7, <3>2, HitSought
    <3> QED BY <3>3
  <2>8. CASE x.cur < EPR /\ Hits(n, x) = {}
    <3>1. ~(x.cur >= EPR) BY <2>4, <2>8, Sizes DEF Cursors
    <3>2. PICK y : y = NextPhase(n, x) OBVIOUS
    <3>3. f[x] = f[y] BY <2>4, <2>8, <3>1, <3>2, TurnGoesOn
    <3>4. /\ y \in Cursors /\ Remaining(y) \in Nat /\ Remaining(y) < Remaining(x)
          /\ y.ck = x.ck /\ y.kb = x.kb /\ Entry(y) /\ Number(n, y) = Number(n, x)
          /\ (Carried(n, x) => Carried(n, y))
      BY <1>0, <2>4, <2>8, <3>2, NextPhaseFacts
    <3>5. y \notin Bad BY <2>3, <3>4, <2>4, RemainingNat
    <3>6. Sought(n, y, f[y]) BY <3>4, <3>5
    <3>7. Sought(n, x, f[x]) BY <3>3, <3>4, <3>6 DEF Sought
    <3> QED BY <3>7
  <2> QED BY <2>5, <2>6, <2>7, <2>8
<1>3. c \in Cursors BY DEF Entry
<1> QED BY <1>1, <1>2, <1>3

-----------------------------------------------------------------------------
(* A number belongs to one tile.                                             *)

\* The tiles of an expert and a phase end before those of any later one begin.
LEMMA TilesInOrder ==
  ASSUME NEW n \in [Padded -> Nat], NEW e \in Nat, NEW f \in Nat, e < EPR, f < EPR, e < f
  PROVE  /\ First(n, e, 1) + n[e] * NL1N <= First(n, f, 1)
         /\ First(n, e, 2) + n[e] * NL2N <= First(n, f, 2)
         /\ First(n, e, 1) + n[e] * NL1N <= First(n, f, 2)
         /\ First(n, e, 2) + n[e] * NL2N <= First(n, f, 1)
              \/ First(n, f, 1) + n[f] * NL1N <= First(n, e, 2)
<1> DEFINE s == Start(e)
           w == End(e)
           t == Start(f)
           v == End(f)
<1>1. s \in Nat /\ t \in Nat /\ w \in Nat /\ v \in Nat /\ s <= e /\ e < w /\ t <= f /\ f < v
      /\ w <= Top /\ v <= Top /\ s <= t /\ (s # t => w <= t) /\ (s = t => w = v)
  <2>1. s \in Nat /\ t \in Nat /\ w \in Nat /\ v \in Nat /\ s <= e /\ e < w /\ t <= f /\ f < v
    BY WaveFacts
  <2>2. w <= Top /\ v <= Top BY LastWave
  <2>3. s <= t /\ (s # t => w <= t) BY WaveFacts
  <2> QED BY <2>1, <2>2, <2>3 DEF End
<1>2. First(n, e, 1) = NL1N * Sum(n, e) + NL2N * Sum(n, s) /\ First(n, e, 2) = NL1N * Sum(n, w) + NL2N * Sum(n, e)
      /\ First(n, f, 1) = NL1N * Sum(n, f) + NL2N * Sum(n, t) /\ First(n, f, 2) = NL1N * Sum(n, v) + NL2N * Sum(n, f)
  BY DEF First
<1> HIDE DEF s, w, t, v
<1>3. PICK T \in Nat : T = Top /\ EPR <= T BY TopFacts
<1>4. /\ s \in 0 .. T /\ t \in 0 .. T /\ w \in 0 .. T /\ v \in 0 .. T /\ e \in 0 .. T /\ f \in 0 .. T
      /\ e + 1 \in 0 .. T /\ f + 1 \in 0 .. T /\ e \in 0 .. T - 1 /\ f \in 0 .. T - 1
      /\ e + 1 <= f /\ e + 1 <= w /\ f + 1 <= v /\ w <= v
  BY <1>1, <1>3, Sizes
<1>5. PICK ss \in Nat, st \in Nat, sw \in Nat, sv \in Nat, se \in Nat, sf \in Nat, ne \in Nat, nf \in Nat :
        /\ ss = Sum(n, s) /\ st = Sum(n, t) /\ sw = Sum(n, w) /\ sv = Sum(n, v)
        /\ se = Sum(n, e) /\ sf = Sum(n, f) /\ ne = n[e] /\ nf = n[f]
        /\ Sum(n, e + 1) = se + ne /\ Sum(n, f + 1) = sf + nf
  <2>1. /\ Sum(n, s) \in Nat /\ Sum(n, t) \in Nat /\ Sum(n, w) \in Nat /\ Sum(n, v) \in Nat
        /\ Sum(n, e) \in Nat /\ Sum(n, f) \in Nat
    BY <1>3, <1>4, SumFacts
  <2>2. /\ n[e] \in Nat /\ n[f] \in Nat /\ Sum(n, e + 1) = Sum(n, e) + n[e]
        /\ Sum(n, f + 1) = Sum(n, f) + n[f]
    BY <1>3, <1>4, SumFacts
  <2> QED BY <2>1, <2>2
<1>6. \A x, y \in 0 .. T : x <= y => Sum(n, x) <= Sum(n, y) BY <1>3, SumFacts
<1>7. ss <= st /\ se + ne <= sf /\ se + ne <= sw /\ sf + nf <= sv /\ ss <= se /\ ss <= sf /\ sw <= sv
  BY <1>1, <1>4, <1>5, <1>6
<1>8. s # t => sw <= st /\ sw <= sf
  <2>1. ASSUME s # t PROVE w <= t /\ w <= f BY <1>1, <2>1
  <2> QED BY <1>4, <1>5, <1>6, <2>1
<1>9. PICK a \in Nat, b \in Nat : a = NL1N /\ b = NL2N BY Sizes
<1>10. \A x, y \in Nat : x <= y => a * x <= a * y /\ b * x <= b * y BY Order
<1>11. \A x, y \in Nat : a * (x + y) = a * x + y * a /\ b * (x + y) = b * x + y * b OBVIOUS
<1>12. \A x \in Nat : a * x \in Nat /\ b * x \in Nat /\ x * a \in Nat /\ x * b \in Nat BY Products
<1>13. /\ a * se + ne * a <= a * sf /\ a * se + ne * a <= a * sw /\ a * se + ne * a <= a * sv
       /\ b * se + ne * b <= b * sf /\ a * sw <= a * sv /\ b * ss <= b * st /\ b * ss <= b * sf
  <2>1. se + ne \in Nat /\ se + ne <= sv BY <1>7
  <2> QED BY <1>7, <1>10, <1>11, <2>1
<1>14. PICK ase \in Nat, asf \in Nat, asw \in Nat, asv \in Nat, ane \in Nat, anf \in Nat,
            bse \in Nat, bsf \in Nat, bss \in Nat, bst \in Nat, bne \in Nat, bsw \in Nat :
         /\ ase = a * se /\ asf = a * sf /\ asw = a * sw /\ asv = a * sv /\ ane = ne * a /\ anf = nf * a
         /\ bse = b * se /\ bsf = b * sf /\ bss = b * ss /\ bst = b * st /\ bne = ne * b /\ bsw = b * sw
  BY <1>12
<1>15. /\ First(n, e, 1) = ase + bss /\ First(n, e, 2) = asw + bse
       /\ First(n, f, 1) = asf + bst /\ First(n, f, 2) = asv + bsf
       /\ n[e] * NL1N = ane /\ n[e] * NL2N = bne /\ n[f] * NL1N = anf
  BY <1>2, <1>5, <1>9, <1>14
<1>16. /\ ase + ane <= asf /\ ase + ane <= asw /\ ase + ane <= asv /\ bse + bne <= bsf
       /\ asw <= asv /\ bss <= bst /\ bss <= bsf
  BY <1>13, <1>14
<1>17. CASE s = t
  <2>1. asf + anf <= asw
    <3>1. w = v BY <1>1, <1>17
    <3>2. sf + nf \in Nat /\ sf + nf <= sw BY <1>5, <1>7, <3>1
    <3>3. a * (sf + nf) <= a * sw /\ a * (sf + nf) = a * sf + nf * a BY <1>10, <1>11, <3>2
    <3> QED BY <1>14, <3>3
  <2>2. bst <= bse
    <3>1. st <= se BY <1>5, <1>7, <1>17
    <3> QED BY <1>10, <1>14, <3>1
  <2> QED BY <1>15, <1>16, <2>1, <2>2
<1>18. CASE s # t
  <2>1. asw <= asf BY <1>8, <1>10, <1>14, <1>18
  <2>2. bse + bne <= bst
    <3>1. se + ne \in Nat /\ se + ne <= st BY <1>7, <1>8, <1>18
    <3>2. b * (se + ne) <= b * st /\ b * (se + ne) = b * se + ne * b BY <1>10, <1>11, <3>1
    <3> QED BY <1>14, <3>2
  <2> QED BY <1>15, <1>16, <2>1, <2>2
<1> QED BY <1>17, <1>18

-----------------------------------------------------------------------------
\* L1 tiles of an expert come before its L2 tiles, and all before the end.
LEMMA TilesOfExpert ==
  ASSUME NEW n \in [Padded -> Nat], NEW e \in Nat, e < EPR
  PROVE  /\ First(n, e, 1) + n[e] * NL1N <= First(n, e, 2)
         /\ First(n, e, 1) + n[e] * NL1N <= First(n, Top, 1)
         /\ First(n, e, 2) + n[e] * NL2N <= First(n, Top, 1)
<1> DEFINE s == Start(e)
           w == End(e)
<1>1. s \in Nat /\ w \in Nat /\ s <= e /\ e < w /\ w <= Top BY WaveFacts, LastWave
<1>2. First(n, e, 1) = NL1N * Sum(n, e) + NL2N * Sum(n, s) /\ First(n, e, 2) = NL1N * Sum(n, w) + NL2N * Sum(n, e)
      /\ First(n, Top, 1) = NL1N * Sum(n, Top) + NL2N * Sum(n, Top)
  BY LastWave DEF First
<1> HIDE DEF s, w
<1>3. PICK T \in Nat : T = Top /\ EPR <= T BY TopFacts
<1>4. /\ s \in 0 .. T /\ w \in 0 .. T /\ e \in 0 .. T /\ T \in 0 .. T
      /\ e + 1 \in 0 .. T /\ e \in 0 .. T - 1 /\ e + 1 <= w /\ w <= T /\ e <= T
  BY <1>1, <1>3, Sizes
<1>5. PICK ss \in Nat, sw \in Nat, se \in Nat, sT \in Nat, ne \in Nat :
        /\ ss = Sum(n, s) /\ sw = Sum(n, w) /\ se = Sum(n, e) /\ sT = Sum(n, T) /\ ne = n[e]
        /\ Sum(n, e + 1) = se + ne
  <2>1. Sum(n, s) \in Nat /\ Sum(n, w) \in Nat /\ Sum(n, e) \in Nat /\ Sum(n, T) \in Nat
    BY <1>3, <1>4, SumFacts
  <2>2. n[e] \in Nat /\ Sum(n, e + 1) = Sum(n, e) + n[e] BY <1>3, <1>4, SumFacts
  <2> QED BY <2>1, <2>2
<1>6. \A x, y \in 0 .. T : x <= y => Sum(n, x) <= Sum(n, y) BY <1>3, SumFacts
<1>7. ss <= se /\ se + ne <= sw /\ sw <= sT
  BY <1>1, <1>4, <1>5, <1>6
<1>8. PICK a \in Nat, b \in Nat : a = NL1N /\ b = NL2N BY Sizes
<1>9. \A x, y \in Nat : x <= y => a * x <= a * y /\ b * x <= b * y BY Order
<1>10. \A x, y \in Nat : a * (x + y) = a * x + y * a /\ b * (x + y) = b * x + y * b OBVIOUS
<1>11. \A x \in Nat : a * x \in Nat /\ b * x \in Nat /\ x * a \in Nat /\ x * b \in Nat BY Products
<1>12. /\ a * se + ne * a <= a * sw /\ b * se + ne * b <= b * sT /\ a * sw <= a * sT
       /\ b * ss <= b * se /\ b * ss <= b * sT
  <2>1. se + ne \in Nat /\ se + ne <= sT /\ ss <= sT BY <1>7
  <2> QED BY <1>7, <1>9, <1>10, <2>1
<1>13. PICK ase \in Nat, asw \in Nat, asT \in Nat, ane \in Nat,
            bse \in Nat, bss \in Nat, bsT \in Nat, bne \in Nat :
         /\ ase = a * se /\ asw = a * sw /\ asT = a * sT /\ ane = ne * a
         /\ bse = b * se /\ bss = b * ss /\ bsT = b * sT /\ bne = ne * b
  BY <1>11
<1>14. /\ First(n, e, 1) = ase + bss /\ First(n, e, 2) = asw + bse
       /\ First(n, Top, 1) = asT + bsT /\ n[e] * NL1N = ane /\ n[e] * NL2N = bne
  BY <1>2, <1>3, <1>5, <1>8, <1>13
<1>15. /\ ase + ane <= asw /\ bse + bne <= bsT /\ asw <= asT /\ bss <= bse /\ bss <= bsT
  BY <1>12, <1>13
<1> QED BY <1>14, <1>15

\* The tile that a number names.
TileOf(n, e, p, b) == First(n, e, p) + b

\* No two tiles have one number.
LEMMA TileUnique ==
  ASSUME NEW n \in [Padded -> Nat], NEW e \in Nat, NEW f \in Nat, e < EPR, f < EPR,
         NEW p \in {1, 2}, NEW q \in {1, 2}, NEW b \in Nat, NEW d \in Nat,
         b < n[e] * Width(p), d < n[f] * Width(q), TileOf(n, e, p, b) = TileOf(n, f, q, d)
  PROVE  e = f /\ p = q /\ b = d
<1>1. \A g \in Nat : g < EPR => n[g] * NL1N \in Nat /\ n[g] * NL2N \in Nat
                     /\ First(n, g, 1) \in Nat /\ First(n, g, 2) \in Nat
  <2>1. ASSUME NEW g \in Nat, g < EPR
        PROVE  n[g] * NL1N \in Nat /\ n[g] * NL2N \in Nat /\ First(n, g, 1) \in Nat /\ First(n, g, 2) \in Nat
    <3>1. g \in 0 .. Top /\ g \in Padded BY <2>1, TopFacts, Sizes
    <3>2. n[g] \in Nat BY <3>1
    <3>3. n[g] * NL1N \in Nat /\ n[g] * NL2N \in Nat BY <3>2, Products, Sizes
    <3> QED BY <2>1, <3>1, <3>3, FirstNat
  <2> QED BY <2>1
<1>2. Width(1) = NL1N /\ Width(2) = NL2N BY DEF Width
<1>3. ASSUME NEW g \in Nat, NEW h \in Nat, g < EPR, h < EPR, g < h, NEW x \in Nat, NEW y \in Nat,
             NEW r \in {1, 2}, NEW z \in {1, 2}, x < n[g] * Width(r), y < n[h] * Width(z)
      PROVE  First(n, g, r) + x # First(n, h, z) + y
  <2>1. /\ First(n, g, 1) + n[g] * NL1N <= First(n, h, 1)
        /\ First(n, g, 2) + n[g] * NL2N <= First(n, h, 2)
        /\ First(n, g, 1) + n[g] * NL1N <= First(n, h, 2)
        /\ First(n, g, 2) + n[g] * NL2N <= First(n, h, 1)
             \/ First(n, h, 1) + n[h] * NL1N <= First(n, g, 2)
    BY <1>3, TilesInOrder
  <2> QED BY <1>1, <1>2, <1>3, <2>1
<1>4. e = f
  <2>1. CASE e < f BY <1>3, <2>1 DEF TileOf
  <2>2. CASE f < e BY <1>3, <2>2 DEF TileOf
  <2> QED BY <2>1, <2>2
<1>5. p = q
  <2>1. First(n, e, 1) + n[e] * NL1N <= First(n, e, 2) BY TilesOfExpert
  <2> QED BY <1>1, <1>2, <1>4, <2>1 DEF TileOf
<1>6. b = d
  <2>1. First(n, e, p) \in Nat BY <1>1
  <2> QED BY <1>4, <1>5, <2>1 DEF TileOf
<1> QED BY <1>4, <1>5, <1>6

\* A cursor on a tile has the number of the tile.
LEMMA OnTileFacts ==
  ASSUME NEW n \in [Padded -> Nat], NEW c \in Cursors, OnTile(n, c)
  PROVE  /\ Number(n, c) \in Nat /\ Number(n, c) < First(n, Top, 1)
         /\ Number(n, c) = TileOf(n, c.cur, c.phase, c.block)
         /\ c.cur \in Nat /\ c.cur < EPR /\ c.phase \in {1, 2} /\ c.block \in Nat
         /\ c.block < n[c.cur] * Width(c.phase)
<1>1. c.cur \in Nat /\ c.cur < EPR /\ c.phase \in {1, 2} /\ c.block \in Nat
      /\ c.block < n[c.cur] * Width(c.phase)
  BY DEF OnTile, Cursors
<1>2. c.cur \in 0 .. Top /\ c.cur \in Padded /\ Top \in 0 .. Top BY <1>1, TopFacts, Sizes
<1>3. First(n, c.cur, c.phase) \in Nat /\ First(n, Top, 1) \in Nat BY <1>1, <1>2, FirstNat
<1>4. First(n, c.cur, c.phase) + n[c.cur] * Width(c.phase) <= First(n, Top, 1)
  BY <1>1, TilesOfExpert DEF Width
<1>5. n[c.cur] * Width(c.phase) \in Nat
  <2>1. n[c.cur] \in Nat /\ Width(c.phase) \in Nat BY <1>1, <1>2, Sizes DEF Width
  <2> QED BY <2>1, Products
<1> QED BY <1>1, <1>3, <1>4, <1>5 DEF Number, TileOf

\* A cursor past the last tile has a number beyond all tiles.
LEMMA OverFacts ==
  ASSUME NEW n \in [Padded -> Nat], NEW c \in Cursors, Over(c)
  PROVE  Number(n, c) \in Nat /\ Number(n, c) >= First(n, Top, 1) /\ First(n, Top, 1) \in Nat
         /\ Number(n, c) = First(n, Top, 1) + c.block
<1>1. Top \in 0 .. Top BY TopFacts
<1>2. First(n, Top, 1) \in Nat BY <1>1, FirstNat
<1> QED BY <1>2 DEF Over, Number, Cursors

\* Two walks to one number end in the same place.
LEMMA SameTile ==
  ASSUME NEW n \in [Padded -> Nat], NEW c \in Cursors, NEW d \in Cursors,
         OnTile(n, c) \/ Over(c), OnTile(n, d) \/ Over(d), Number(n, c) = Number(n, d)
  PROVE  c.cur = d.cur /\ c.phase = d.phase /\ c.block = d.block /\ c.stop = d.stop
<1>1. CASE OnTile(n, c) /\ OnTile(n, d)
  <2>1. c.cur = d.cur /\ c.phase = d.phase /\ c.block = d.block
    BY <1>1, OnTileFacts, TileUnique
  <2> QED BY <1>1, <2>1 DEF OnTile, Cursors
<1>2. CASE Over(c) /\ Over(d)
  <2>1. First(n, Top, 1) + c.block = First(n, Top, 1) + d.block /\ First(n, Top, 1) \in Nat
    BY <1>2, OverFacts
  <2>2. c.block \in Nat /\ d.block \in Nat BY DEF Cursors
  <2> QED BY <1>2, <2>1, <2>2 DEF Over, Cursors
<1>3. ~(OnTile(n, c) /\ Over(d)) /\ ~(Over(c) /\ OnTile(n, d))
  <2>1. ASSUME OnTile(n, c), Over(d) PROVE FALSE BY <2>1, OnTileFacts, OverFacts
  <2>2. ASSUME OnTile(n, d), Over(c) PROVE FALSE BY <2>2, OnTileFacts, OverFacts
  <2> QED BY <2>1, <2>2
<1> QED BY <1>1, <1>2, <1>3

-----------------------------------------------------------------------------
(* A program's cursor stands for the numbers s, s + NUM_SMS, ...             *)
Share(s) == {s + j * NUM_SMS : j \in Nat}

Fine(n, s, c) ==
  /\ c \in Cursors
  /\ OnTile(n, c) \/ Over(c)
  /\ Carried(n, c)
  /\ Number(n, c) \in Share(s)
  /\ ~c.stop => c.kb < NK(c.phase)

\* The padding experts have no blocks.
LEMMA LoadsFact == ASSUME tokens \in [Local -> Nat] PROVE NumM \in Loads
<1>1. ASSUME NEW e \in Padded
      PROVE  /\ NumM[e] \in Nat
             /\ e >= EPR => NumM[e] = 0
             /\ e < EPR => NumM[e] = (tokens[e] + BLOCK_M - 1) \div BLOCK_M
  <2>1. e \in Nat BY TopFacts
  <2>2. CASE e < EPR
    <3>1. e \in Local BY <2>1, <2>2, Sizes DEF Local
    <3>2. PICK t \in Nat, m \in Nat \ {0} : t = tokens[e] /\ m = BLOCK_M BY <3>1, Sizes
    <3>3. (t + m - 1) \in Nat BY <3>2
    <3>4. (t + m - 1) \div m \in Nat BY <3>2, <3>3, Division
    <3> QED BY <2>1, <2>2, <3>2, <3>4, Sizes DEF NumM
  <2>3. CASE ~(e < EPR) BY <2>1, <2>3, Sizes DEF NumM
  <2> QED BY <2>1, <2>2, <2>3, Sizes
<1>2. NumM = [e \in Padded |-> NumM[e]] BY DEF NumM
<1>3. NumM \in [Padded -> Nat] BY <1>1, <1>2
<1> QED BY <1>1, <1>3 DEF Loads

\* The first cursor of a program stands for the program's number.
LEMMA CursorFacts ==
  ASSUME NEW n \in Loads, NEW s \in SMs
  PROVE  /\ Cursor(s) \in Cursors /\ Entry(Cursor(s)) /\ Cursor(s).ck = 0 /\ Cursor(s).kb = 0
         /\ Carried(n, Cursor(s)) /\ Number(n, Cursor(s)) = s /\ ~Cursor(s).stop
<1>0. n \in [Padded -> Nat] BY DEF Loads
<1>1. s \in Nat BY Sizes DEF SMs
<1>2. /\ Cursor(s) \in Cursors /\ Cursor(s).ck = 0 /\ Cursor(s).kb = 0 /\ ~Cursor(s).stop
      /\ Cursor(s).cur = 0 /\ Cursor(s).phase = 1 /\ Cursor(s).block = s
      /\ Cursor(s).pool = 0 /\ Cursor(s).wave = 0
  BY <1>1 DEF Cursor, Cursors
<1>3. Start(0) = 0
  <2>1. Start(0) \in Nat /\ Start(0) <= 0 BY WaveFacts
  <2> QED BY <2>1
<1>4. Sum(n, 0) = 0 BY <1>0, SumFacts
<1>5. First(n, 0, 1) = 0
  <2>1. \A k \in Nat : k * 0 = 0 OBVIOUS
  <2>2. NL1N * 0 = 0 /\ NL2N * 0 = 0 BY <2>1, Sizes
  <2> QED BY <1>3, <1>4, <2>2 DEF First
<1>6. Entry(Cursor(s)) BY <1>2, Sizes DEF Entry
<1> QED BY <1>1, <1>2, <1>3, <1>4, <1>5, <1>6 DEF Carried, Number

\* The first tile of a program is in its share.
LEMMA FirstFine ==
  ASSUME NEW n \in Loads, NEW s \in SMs
  PROVE  Fine(n, s, Seek(n, Cursor(s))) /\ Seek(n, Cursor(s)).ck = 0
<1>1. /\ Entry(Cursor(s)) /\ Cursor(s).ck = 0 /\ Cursor(s).kb = 0
      /\ Carried(n, Cursor(s)) /\ Number(n, Cursor(s)) = s
  BY CursorFacts
<1>2. PICK d : d = Seek(n, Cursor(s)) /\ Sought(n, Cursor(s), d) BY <1>1, SeekFacts
<1>3. /\ d \in Cursors /\ d.ck = 0 /\ d.kb = 0 /\ Number(n, d) = s /\ (OnTile(n, d) \/ Over(d))
      /\ Carried(n, d)
  BY <1>1, <1>2 DEF Sought
<1>4. s \in Share(s)
  <2>1. s \in Nat /\ NUM_SMS \in Nat BY Sizes DEF SMs
  <2>2. s = s + 0 * NUM_SMS BY <2>1
  <2> QED BY <2>2 DEF Share
<1>5. d.kb < NK(d.phase) BY <1>3, Sizes DEF NK
<1> QED BY <1>2, <1>3, <1>4, <1>5 DEF Fine

\* Records: a cursor by its fields.
LEMMA CursorFields ==
  ASSUME NEW c \in Cursors
  PROVE  /\ c = [block |-> c.block, cur |-> c.cur, phase |-> c.phase, pool |-> c.pool,
                 wave |-> c.wave, ck |-> c.ck, kb |-> c.kb, stop |-> c.stop]
         /\ c.block \in Nat /\ c.cur \in Nat /\ c.phase \in {1, 2} /\ c.pool \in Nat
         /\ c.wave \in Nat /\ c.ck \in Nat /\ c.kb \in Nat /\ c.stop \in BOOLEAN
BY DEF Cursors

\* The next slice of a tile.
LEMMA NextSlice ==
  ASSUME NEW c \in Cursors, NEW d, d = [[c EXCEPT !.ck = @ + 1] EXCEPT !.kb = @ + 1]
  PROVE  /\ d \in Cursors /\ d.block = c.block /\ d.cur = c.cur /\ d.phase = c.phase
         /\ d.pool = c.pool /\ d.wave = c.wave /\ d.ck = c.ck + 1 /\ d.kb = c.kb + 1
         /\ d.stop = c.stop
<1>0. /\ c = [block |-> c.block, cur |-> c.cur, phase |-> c.phase, pool |-> c.pool,
              wave |-> c.wave, ck |-> c.ck, kb |-> c.kb, stop |-> c.stop]
      /\ c.block \in Nat /\ c.cur \in Nat /\ c.phase \in {1, 2} /\ c.pool \in Nat
      /\ c.wave \in Nat /\ c.ck \in Nat /\ c.kb \in Nat /\ c.stop \in BOOLEAN
  BY CursorFields
<1>1. d = [block |-> c.block, cur |-> c.cur, phase |-> c.phase, pool |-> c.pool,
           wave |-> c.wave, ck |-> c.ck + 1, kb |-> c.kb + 1, stop |-> c.stop]
  BY <1>0
<1>2. c.ck + 1 \in Nat /\ c.kb + 1 \in Nat BY CursorFields
<1> QED BY <1>0, <1>1, <1>2 DEF Cursors

\* The next tile of a program, before the loop.
LEMMA NextNumber ==
  ASSUME NEW c \in Cursors,
         NEW d, d = [[c EXCEPT !.ck = @ + 1] EXCEPT !.block = @ + NUM_SMS, !.kb = 0]
  PROVE  /\ d \in Cursors /\ d.block = c.block + NUM_SMS /\ d.cur = c.cur /\ d.phase = c.phase
         /\ d.pool = c.pool /\ d.wave = c.wave /\ d.ck = c.ck + 1 /\ d.kb = 0
         /\ d.stop = c.stop
<1>0. /\ c = [block |-> c.block, cur |-> c.cur, phase |-> c.phase, pool |-> c.pool,
              wave |-> c.wave, ck |-> c.ck, kb |-> c.kb, stop |-> c.stop]
      /\ c.block \in Nat /\ c.cur \in Nat /\ c.phase \in {1, 2} /\ c.pool \in Nat
      /\ c.wave \in Nat /\ c.ck \in Nat /\ c.kb \in Nat /\ c.stop \in BOOLEAN
  BY CursorFields
<1>1. d = [block |-> c.block + NUM_SMS, cur |-> c.cur, phase |-> c.phase, pool |-> c.pool,
           wave |-> c.wave, ck |-> c.ck + 1, kb |-> 0, stop |-> c.stop]
  BY <1>0
<1>2. c.ck + 1 \in Nat /\ c.block + NUM_SMS \in Nat BY CursorFields, Sizes
<1> QED BY <1>0, <1>1, <1>2 DEF Cursors

\* The math warps' cursor carries no offsets.
LEMMA UnpooledFacts ==
  ASSUME NEW c \in Cursors
  PROVE  /\ Unpooled(c) \in Cursors
         /\ Unpooled(c).cur = c.cur /\ Unpooled(c).phase = c.phase /\ Unpooled(c).block = c.block
         /\ Unpooled(c).ck = c.ck /\ Unpooled(c).kb = c.kb /\ Unpooled(c).stop = c.stop
         /\ Unpooled(c) = [block |-> c.block, cur |-> c.cur, phase |-> c.phase, pool |-> 0,
                           wave |-> 0, ck |-> c.ck, kb |-> c.kb, stop |-> c.stop]
<1>0. /\ c = [block |-> c.block, cur |-> c.cur, phase |-> c.phase, pool |-> c.pool,
              wave |-> c.wave, ck |-> c.ck, kb |-> c.kb, stop |-> c.stop]
      /\ c.block \in Nat /\ c.cur \in Nat /\ c.phase \in {1, 2} /\ c.pool \in Nat
      /\ c.wave \in Nat /\ c.ck \in Nat /\ c.kb \in Nat /\ c.stop \in BOOLEAN
  BY CursorFields
<1>1. Unpooled(c) = [block |-> c.block, cur |-> c.cur, phase |-> c.phase, pool |-> 0,
                     wave |-> 0, ck |-> c.ck, kb |-> c.kb, stop |-> c.stop]
  <2>1. PICK d : d = c OBVIOUS
  <2>2. Unpooled(c) = [d EXCEPT !.pool = 0, !.wave = 0] BY <2>1 DEF Unpooled
  <2>3. d = [block |-> c.block, cur |-> c.cur, phase |-> c.phase, pool |-> c.pool,
             wave |-> c.wave, ck |-> c.ck, kb |-> c.kb, stop |-> c.stop]
    BY <1>0, <2>1
  <2>4. PICK u : u = [d EXCEPT !.pool = 0, !.wave = 0] OBVIOUS
  <2>5. u = [block |-> c.block, cur |-> c.cur, phase |-> c.phase, pool |-> 0,
             wave |-> 0, ck |-> c.ck, kb |-> c.kb, stop |-> c.stop]
    BY <2>3, <2>4
  <2> QED BY <2>2, <2>4, <2>5
<1>2. 0 \in Nat OBVIOUS
<1> QED BY <1>0, <1>1, <1>2 DEF Cursors

\* Cursors that differ in the offsets only.
LEMMA UnpooledSame ==
  ASSUME NEW c \in Cursors, NEW d \in Cursors, c.cur = d.cur, c.phase = d.phase,
         c.block = d.block, c.ck = d.ck, c.kb = d.kb, c.stop = d.stop
  PROVE  Unpooled(c) = Unpooled(d)
BY UnpooledFacts

\* What a step of a role makes of its cursor.
LEMMA AdvanceFacts ==
  ASSUME NumM \in Loads, NEW s \in SMs, NEW c, Fine(NumM, s, c), ~c.stop
  PROVE  /\ Fine(NumM, s, Advance(c))
         /\ Advance(c).ck = c.ck + 1
         /\ c.kb + 1 < NK(c.phase) =>
              /\ Number(NumM, Advance(c)) = Number(NumM, c)
              /\ Advance(c).kb = c.kb + 1
              /\ Advance(c).cur = c.cur /\ Advance(c).phase = c.phase
              /\ Advance(c).block = c.block /\ ~Advance(c).stop
         /\ ~(c.kb + 1 < NK(c.phase)) =>
              /\ c.kb + 1 = NK(c.phase)
              /\ Number(NumM, Advance(c)) = Number(NumM, c) + NUM_SMS
              /\ Advance(c).kb = 0
<1>0. /\ c \in Cursors /\ OnTile(NumM, c) /\ Carried(NumM, c) /\ Number(NumM, c) \in Share(s)
      /\ c.kb < NK(c.phase)
  BY DEF Fine, Over
<1>1. /\ c = [block |-> c.block, cur |-> c.cur, phase |-> c.phase, pool |-> c.pool,
              wave |-> c.wave, ck |-> c.ck, kb |-> c.kb, stop |-> c.stop]
      /\ c.block \in Nat /\ c.cur \in Nat /\ c.phase \in {1, 2} /\ c.pool \in Nat
      /\ c.wave \in Nat /\ c.ck \in Nat /\ c.kb \in Nat /\ c.stop = FALSE
  BY <1>0 DEF Cursors
<1>2. NK(c.phase) \in Nat /\ NUM_SMS \in Nat BY Sizes DEF NK
<1>3. NumM \in [Padded -> Nat] BY DEF Loads
<1>4. Number(NumM, c) \in Nat BY <1>0, <1>3, OnTileFacts
<1>5. CASE c.kb + 1 < NK(c.phase)
  <2>1. PICK d : d = Advance(c) OBVIOUS
  <2>2. d = [[c EXCEPT !.ck = @ + 1] EXCEPT !.kb = @ + 1] BY <1>5, <2>1 DEF Advance
  <2>3. /\ d \in Cursors /\ d.cur = c.cur /\ d.phase = c.phase /\ d.block = c.block
        /\ d.pool = c.pool /\ d.wave = c.wave /\ d.ck = c.ck + 1 /\ d.kb = c.kb + 1
        /\ d.stop = c.stop
    BY <1>0, <2>2, NextSlice
  <2>4. Number(NumM, d) = Number(NumM, c) BY <2>3 DEF Number
  <2>5. Fine(NumM, s, d) BY <1>0, <1>5, <2>3, <2>4 DEF Fine, OnTile, Carried
  <2> QED BY <1>5, <2>1, <2>3, <2>4, <2>5
<1>6. CASE ~(c.kb + 1 < NK(c.phase))
  <2>1. c.kb + 1 = NK(c.phase) BY <1>0, <1>1, <1>2, <1>6
  <2>2. PICK e : e = [[c EXCEPT !.ck = @ + 1] EXCEPT !.block = @ + NUM_SMS, !.kb = 0] OBVIOUS
  <2>3. Advance(c) = Seek(NumM, e) BY <1>6, <2>2 DEF Advance, NextTile
  <2>5. /\ e \in Cursors /\ e.cur = c.cur /\ e.phase = c.phase /\ e.block = c.block + NUM_SMS
        /\ e.pool = c.pool /\ e.wave = c.wave /\ e.ck = c.ck + 1 /\ e.kb = 0 /\ ~e.stop
    BY <1>0, <1>1, <2>2, NextNumber
  <2>6. Entry(e) BY <1>0, <2>5 DEF Entry, OnTile
  <2>7. PICK d : d = Advance(c) /\ Sought(NumM, e, d) BY <2>3, <2>6, SeekFacts
  <2>8. Number(NumM, e) = Number(NumM, c) + NUM_SMS
    <3>1. First(NumM, c.cur, c.phase) \in Nat
      <4>1. c.cur < EPR /\ c.cur \in 0 .. Top BY <1>0, <1>1, TopFacts, Sizes DEF OnTile
      <4> QED BY <1>1, <1>3, <4>1, FirstNat
    <3> QED BY <1>1, <1>2, <2>5, <3>1 DEF Number
  <2>9. /\ d \in Cursors /\ d.ck = c.ck + 1 /\ d.kb = 0 /\ (OnTile(NumM, d) \/ Over(d))
        /\ Number(NumM, d) = Number(NumM, c) + NUM_SMS /\ Carried(NumM, d)
    BY <1>0, <2>5, <2>7, <2>8 DEF Sought, Carried
  <2>10. Number(NumM, d) \in Share(s)
    <3>1. PICK j \in Nat : Number(NumM, c) = s + j * NUM_SMS BY <1>0 DEF Share
    <3>2. PICK k \in Nat, m \in Nat : k = NUM_SMS /\ m = s BY <1>2, Sizes DEF SMs
    <3>3. (m + j * k) + k = m + (j + 1) * k /\ j + 1 \in Nat OBVIOUS
    <3> QED BY <2>9, <3>1, <3>2, <3>3 DEF Share
  <2>11. Fine(NumM, s, d)
    <3>1. d.kb < NK(d.phase) BY <2>9, Sizes DEF NK
    <3> QED BY <2>9, <2>10, <3>1 DEF Fine
  <2> QED BY <1>6, <2>1, <2>7, <2>9, <2>11
<1> QED BY <1>5, <1>6

\* It walks along with the loaders'.
LEMMA UnpooledAdvance ==
  ASSUME NumM \in Loads, NEW s \in SMs, NEW c, Fine(NumM, s, c), ~c.stop
  PROVE  Unpooled(Advance(Unpooled(c))) = Unpooled(Advance(c))
<1>0. c \in Cursors /\ OnTile(NumM, c) BY DEF Fine, Over
<1>1. PICK u : /\ u = Unpooled(c) /\ u \in Cursors /\ u.cur = c.cur /\ u.phase = c.phase
               /\ u.block = c.block /\ u.ck = c.ck /\ u.kb = c.kb /\ u.stop = c.stop
  BY <1>0, UnpooledFacts
<1>2. NumM \in [Padded -> Nat] /\ NUM_SMS \in Nat BY Sizes DEF Loads
<1>4. CASE c.kb + 1 < NK(c.phase)
  <2>1. Advance(u) = [[u EXCEPT !.ck = @ + 1] EXCEPT !.kb = @ + 1]
        /\ Advance(c) = [[c EXCEPT !.ck = @ + 1] EXCEPT !.kb = @ + 1]
    BY <1>1, <1>4 DEF Advance
  <2>3. PICK a, b : a = Advance(u) /\ b = Advance(c) OBVIOUS
  <2>4. /\ a \in Cursors /\ a.cur = u.cur /\ a.phase = u.phase /\ a.block = u.block
        /\ a.ck = u.ck + 1 /\ a.kb = u.kb + 1 /\ a.stop = u.stop
    <3>1. u \in Cursors BY <1>1
    <3>2. a = [[u EXCEPT !.ck = @ + 1] EXCEPT !.kb = @ + 1] BY <2>1, <2>3
    <3> QED BY <3>1, <3>2, NextSlice
  <2>5. /\ b \in Cursors /\ b.cur = c.cur /\ b.phase = c.phase /\ b.block = c.block
        /\ b.ck = c.ck + 1 /\ b.kb = c.kb + 1 /\ b.stop = c.stop
    <3>1. b = [[c EXCEPT !.ck = @ + 1] EXCEPT !.kb = @ + 1] BY <2>1, <2>3
    <3> QED BY <1>0, <3>1, NextSlice
  <2>6. Unpooled(a) = Unpooled(b) BY <1>1, <2>4, <2>5, UnpooledSame
  <2> QED BY <1>1, <2>3, <2>6
<1>5. CASE ~(c.kb + 1 < NK(c.phase))
  <2>1. Advance(u) = NextTile([u EXCEPT !.ck = @ + 1])
        /\ Advance(c) = NextTile([c EXCEPT !.ck = @ + 1])
    BY <1>1, <1>5 DEF Advance
  <2>3. PICK a, b : /\ a = [[u EXCEPT !.ck = @ + 1] EXCEPT !.block = @ + NUM_SMS, !.kb = 0]
                    /\ b = [[c EXCEPT !.ck = @ + 1] EXCEPT !.block = @ + NUM_SMS, !.kb = 0]
    OBVIOUS
  <2>4. /\ a \in Cursors /\ a.cur = u.cur /\ a.phase = u.phase /\ a.block = u.block + NUM_SMS
        /\ a.ck = u.ck + 1 /\ a.kb = 0 /\ a.stop = u.stop
    <3>1. u \in Cursors BY <1>1
    <3> QED BY <2>3, <3>1, NextNumber
  <2>5. /\ b \in Cursors /\ b.cur = c.cur /\ b.phase = c.phase /\ b.block = c.block + NUM_SMS
        /\ b.ck = c.ck + 1 /\ b.kb = 0 /\ b.stop = c.stop
    BY <1>0, <2>3, NextNumber
  <2>6. Advance(u) = Seek(NumM, a) /\ Advance(c) = Seek(NumM, b)
    BY <2>1, <2>3 DEF NextTile
  <2>7. Entry(a) /\ Entry(b) BY <1>0, <1>1, <2>4, <2>5 DEF Entry, OnTile
  <2>8. PICK d, e : /\ d = Seek(NumM, a) /\ e = Seek(NumM, b)
                    /\ Sought(NumM, a, d) /\ Sought(NumM, b, e)
    BY <2>7, SeekFacts
  <2>9. Number(NumM, a) = Number(NumM, b) BY <1>1, <2>4, <2>5 DEF Number
  <2>10. /\ d \in Cursors /\ e \in Cursors /\ d.ck = e.ck /\ d.kb = e.kb
         /\ Number(NumM, d) = Number(NumM, e)
         /\ (OnTile(NumM, d) \/ Over(d)) /\ (OnTile(NumM, e) \/ Over(e))
    BY <1>1, <2>4, <2>5, <2>8, <2>9 DEF Sought
  <2>11. d.cur = e.cur /\ d.phase = e.phase /\ d.block = e.block /\ d.stop = e.stop
    BY <1>2, <2>10, SameTile
  <2>12. Unpooled(d) = Unpooled(e) BY <2>10, <2>11, UnpooledSame
  <2> QED BY <1>1, <2>6, <2>8, <2>12
<1> QED BY <1>4, <1>5

-----------------------------------------------------------------------------
(***************************************************************************)
(* SlotsMatchTiles.  The four roles of a program walk one path: they have   *)
(* all started from the first cursor, and where one has gone is where the   *)
(* next one will go.  N is how far the first of them is.                    *)
(***************************************************************************)
Shaped ==
  /\ tokens \in [Local -> Nat] /\ counted \in BOOLEAN /\ ready \in [SMs -> BOOLEAN]
  /\ load \in [SMs -> [Loaders -> Cursors]] /\ math \in [SMs -> [WGs -> Cursors]]
  /\ slots = [s \in SMs |-> [x \in Loaders |-> [i \in 0 .. STAGES - 1 |-> slots[s][x][i]]]]
  /\ scattered = [w \in WGs |-> scattered[w]]
  /\ \A s \in SMs : /\ ready[s] => counted
                    /\ ~counted => \A x \in Loaders : load[s][x] = Cursor(s)
                    /\ ~ready[s] => \A w \in WGs : math[s][w] = Cursor(s)

\* The path, and who stands where on it.
Path(s, N, P) ==
  /\ P[0] = Seek(NumM, Cursor(s))
  /\ \A i \in 0 .. N : Fine(NumM, s, P[i]) /\ P[i].ck = i
  /\ \A i \in 0 .. N - 1 : ~P[i].stop /\ P[i + 1] = Advance(P[i])

Standing(s, N, P) ==
  /\ \A x \in Loaders : load[s][x].ck \in 0 .. N /\ load[s][x] = P[load[s][x].ck]
  /\ ready[s] => \A w \in WGs : /\ math[s][w].ck \in 0 .. N
                                /\ math[s][w] = Unpooled(P[math[s][w].ck])

\* The last slices loaded are in their slots.
Loaded(s, N, P) ==
  \A x \in Loaders : \A k \in 0 .. N :
    k < load[s][x].ck /\ load[s][x].ck <= k + STAGES
      => slots[s][x][k % STAGES] = Copied(x, P[k])

Walk(s, N, P) == Path(s, N, P) /\ Standing(s, N, P) /\ Loaded(s, N, P)

\* No loader is more than the pipe ahead of a warp group.
Pipe(s) == \A x \in Loaders, w \in WGs : load[s][x].ck <= math[s][w].ck + STAGES

WalkInv(s) == counted => \E N \in Nat : \E P \in [0 .. N -> Cursors] : Walk(s, N, P)

PipeInv == Shaped /\ \A s \in SMs : WalkInv(s) /\ Pipe(s)

\* The path depends on the counts of tokens only.
LEMMA PathSame ==
  ASSUME tokens' = tokens
  PROVE  /\ NumM' = NumM
         /\ \A c : Advance(c)' = Advance(c)
         /\ \A s, N, P : Path(s, N, P)' <=> Path(s, N, P)
<1>1. NumM' = NumM BY DEF NumM
<1>2. \A n, c : Seek(n, c)' = Seek(n, c)
  OBVIOUS
<1>3. \A c : NextTile(c)' = NextTile(c) BY <1>1 DEF NextTile
<1>4. \A c : Advance(c)' = Advance(c) BY <1>3 DEF Advance
<1>5. \A s, N, P : Path(s, N, P)' <=> Path(s, N, P) BY <1>1, <1>4 DEF Path
<1> QED BY <1>1, <1>4, <1>5

\* A step of another program changes nothing in the walk of this one.
LEMMA WalkSame ==
  ASSUME NEW s \in SMs, tokens' = tokens, counted' = counted, load'[s] = load[s],
         math'[s] = math[s], ready'[s] = ready[s], slots'[s] = slots[s], WalkInv(s), Pipe(s)
  PROVE  WalkInv(s)' /\ Pipe(s)'
<1>1. Pipe(s)' BY DEF Pipe
<1>2. CASE ~counted BY <1>1, <1>2 DEF WalkInv
<1>3. CASE counted
  <2>1. PICK N \in Nat : \E P \in [0 .. N -> Cursors] : Walk(s, N, P) BY <1>3 DEF WalkInv
  <2>2. PICK P \in [0 .. N -> Cursors] : Walk(s, N, P) BY <2>1
  <2>3. Path(s, N, P)' BY <2>2, PathSame DEF Walk
  <2>4. Standing(s, N, P)' BY <2>2 DEF Walk, Standing
  <2>5. Loaded(s, N, P)' BY <2>2 DEF Walk, Loaded
  <2> QED BY <1>1, <2>3, <2>4, <2>5 DEF Walk, WalkInv
<1> QED BY <1>2, <1>3

\* The path goes on where it has not come to its end.
LEMMA WalkExtend ==
  ASSUME Shaped, NEW s \in SMs, NEW N \in Nat, NEW P \in [0 .. N -> Cursors],
         Walk(s, N, P), ~P[N].stop
  PROVE  \E Q \in [0 .. N + 1 -> Cursors] : Walk(s, N + 1, Q)
<1>0. NumM \in Loads BY LoadsFact DEF Shaped
<1>1. PICK c : c = Advance(P[N]) OBVIOUS
<1>2. Fine(NumM, s, P[N]) /\ P[N].ck = N BY DEF Walk, Path
<1>3. Fine(NumM, s, c) /\ c.ck = N + 1 BY <1>0, <1>1, <1>2, AdvanceFacts
<1>4. c \in Cursors BY <1>3 DEF Fine
<1> DEFINE Q == [i \in 0 .. N + 1 |-> IF i <= N THEN P[i] ELSE c]
<1>5. Q \in [0 .. N + 1 -> Cursors] BY <1>4
<1>6. (\A i \in 0 .. N : Q[i] = P[i]) /\ Q[N + 1] = c OBVIOUS
<1> HIDE DEF Q
<1>7. Path(s, N + 1, Q)
  <2>1. Q[0] = Seek(NumM, Cursor(s)) BY <1>6 DEF Walk, Path
  <2>2. ASSUME NEW i \in 0 .. N + 1 PROVE Fine(NumM, s, Q[i]) /\ Q[i].ck = i
    <3>1. CASE i \in 0 .. N BY <1>6, <3>1 DEF Walk, Path
    <3>2. CASE i = N + 1 BY <1>3, <1>6, <3>2
    <3> QED BY <3>1, <3>2
  <2>3. ASSUME NEW i \in 0 .. (N + 1) - 1 PROVE ~Q[i].stop /\ Q[i + 1] = Advance(Q[i])
    <3>1. CASE i \in 0 .. N - 1
      <4>1. i \in 0 .. N /\ i + 1 \in 0 .. N BY <3>1
      <4> QED BY <1>6, <3>1, <4>1 DEF Walk, Path
    <3>2. CASE i = N
      <4>1. Q[i] = P[N] /\ Q[i + 1] = c BY <1>6, <3>2
      <4> QED BY <1>1, <4>1
    <3> QED BY <3>1, <3>2
  <2> QED BY <2>1, <2>2, <2>3 DEF Path
<1>8. Standing(s, N + 1, Q) BY <1>6 DEF Walk, Standing
<1>9. Loaded(s, N + 1, Q)
  <2>1. ASSUME NEW x \in Loaders, NEW k \in 0 .. N + 1, k < load[s][x].ck,
               load[s][x].ck <= k + STAGES
        PROVE  slots[s][x][k % STAGES] = Copied(x, Q[k])
    <3>1. load[s][x].ck \in 0 .. N BY DEF Walk, Standing
    <3>2. k \in 0 .. N BY <2>1, <3>1
    <3> QED BY <1>6, <2>1, <3>2 DEF Walk, Loaded
  <2> QED BY <2>1 DEF Loaded
<1> QED BY <1>5, <1>7, <1>8, <1>9 DEF Walk

\* Slots of a window of the pipe are different.
LEMMA SlotsApart ==
  ASSUME NEW k \in Nat, NEW l \in Nat, k < l, l < k + STAGES
  PROVE  k % STAGES # l % STAGES /\ k % STAGES \in 0 .. STAGES - 1 /\ l % STAGES \in 0 .. STAGES - 1
<1>1. PICK m \in Nat \ {0} : m = STAGES BY Sizes
<1>2. PICK q \in Nat, u \in 0 .. m - 1 : k = m * q + u /\ u = k % m
  <2>1. k \div m \in Nat /\ k % m \in 0 .. m - 1 /\ k = m * (k \div m) + (k % m) BY Division
  <2> QED BY <2>1
<1>3. PICK p \in Nat, v \in 0 .. m - 1 : l = m * p + v /\ v = l % m
  <2>1. l \div m \in Nat /\ l % m \in 0 .. m - 1 /\ l = m * (l \div m) + (l % m) BY Division
  <2> QED BY <2>1
<1>4. ASSUME u = v PROVE FALSE
  <2>1. m * q \in Nat /\ m * p \in Nat BY Products
  <2>2. m * q < m * p /\ m * p < m * q + m
    <3>1. PICK a \in Nat, b \in Nat : a = m * q /\ b = m * p BY <2>1
    <3>2. k = a + u /\ l = b + u BY <1>2, <1>3, <1>4, <3>1
    <3>3. k < l /\ l < k + m BY <1>1
    <3>4. u \in Nat BY <1>2
    <3>5. a < b /\ b < a + m BY <3>2, <3>3, <3>4
    <3> QED BY <3>1, <3>5
  <2>3. CASE p <= q
    <3>1. m * p <= m * q BY <2>3, Order
    <3> QED BY <2>1, <2>2, <3>1
  <2>4. CASE q + 1 <= p
    <3>1. m * (q + 1) <= m * p /\ m * (q + 1) = m * q + m BY <2>4, Order
    <3> QED BY <2>1, <2>2, <3>1
  <2> QED BY <2>3, <2>4
<1> QED BY <1>1, <1>2, <1>3, <1>4

-----------------------------------------------------------------------------
(* The steps preserve PipeInv.                                               *)
LEMMA PipeInit == Init => PipeInv
<1> SUFFICES ASSUME Init PROVE PipeInv
  OBVIOUS
<1>1. tokens \in [Local -> Nat]
  <2>1. tokens \in [Local -> TokenCounts] /\ TokenCounts \subseteq Nat BY Sizes DEF Init
  <2> QED BY <2>1
<1>2. \A s \in SMs : Cursor(s) \in Cursors /\ Cursor(s).ck = 0
  BY <1>1, LoadsFact, CursorFacts
<1>3. load \in [SMs -> [Loaders -> Cursors]] /\ math \in [SMs -> [WGs -> Cursors]]
  BY <1>2 DEF Init
<1>4. Shaped BY <1>1, <1>3 DEF Init, Shaped
<1>5. ASSUME NEW s \in SMs PROVE WalkInv(s) /\ Pipe(s)
  <2>1. \A x \in Loaders, w \in WGs : load[s][x].ck = 0 /\ math[s][w].ck = 0 BY <1>2 DEF Init
  <2>2. 0 <= 0 + STAGES BY Sizes
  <2> QED BY <2>1, <2>2 DEF WalkInv, Pipe, Init
<1> QED BY <1>4, <1>5 DEF PipeInv

\* The loaders start.
LEMMA CountedStep == ASSUME PipeInv, SumsComplete PROVE PipeInv'
<1>0. Shaped /\ NumM \in Loads BY LoadsFact DEF PipeInv, Shaped
<1>1. /\ counted' = TRUE /\ counted = FALSE
      /\ load' = [s \in SMs |-> [x \in Loaders |-> Seek(NumM, Cursor(s))]]
      /\ UNCHANGED <<tokens, ready, arrived, mask, math, slots, scattered>>
  BY <1>0 DEF SumsComplete, Shaped
<1>2. \A s \in SMs : Fine(NumM, s, Seek(NumM, Cursor(s))) /\ Seek(NumM, Cursor(s)).ck = 0
                     /\ Seek(NumM, Cursor(s)) \in Cursors
  BY <1>0, FirstFine DEF Fine
<1>3. \A s \in SMs : ~ready[s] BY <1>0, <1>1 DEF Shaped
<1>4. load' \in [SMs -> [Loaders -> Cursors]] BY <1>1, <1>2
<1>5. Shaped' BY <1>0, <1>1, <1>3, <1>4 DEF Shaped
<1>6. ASSUME NEW s \in SMs PROVE WalkInv(s)' /\ Pipe(s)'
  <2>1. PICK c : c = Seek(NumM, Cursor(s)) OBVIOUS
  <2>2. Fine(NumM, s, c) /\ c.ck = 0 /\ c \in Cursors BY <1>2, <2>1
  <2>3. \A x \in Loaders : load'[s][x] = c BY <1>1, <2>1
  <2> DEFINE P == [i \in 0 .. 0 |-> c]
  <2>4. P \in [0 .. 0 -> Cursors] /\ P[0] = c BY <2>2
  <2> HIDE DEF P
  <2>5. Path(s, 0, P) BY <2>1, <2>2, <2>4 DEF Path
  <2>6. Path(s, 0, P)' BY <1>1, <2>5, PathSame
  <2>7. Standing(s, 0, P)'
    <3>1. \A x \in Loaders : load'[s][x].ck \in 0 .. 0 /\ load'[s][x] = P[load'[s][x].ck]
      BY <2>2, <2>3, <2>4
    <3>2. ~ready'[s] BY <1>1, <1>3
    <3> QED BY <3>1, <3>2 DEF Standing
  <2>8. Loaded(s, 0, P)' BY <2>2, <2>3 DEF Loaded
  <2>9. WalkInv(s)'
    <3>1. Walk(s, 0, P)' BY <2>6, <2>7, <2>8 DEF Walk
    <3>2. 0 \in Nat OBVIOUS
    <3> QED BY <2>4, <3>1, <3>2 DEF WalkInv
  <2>10. Pipe(s)'
    <3>1. \A w \in WGs : math'[s][w].ck \in Nat BY <1>0, <1>1 DEF Shaped, Cursors
    <3>2. \A x \in Loaders : load'[s][x].ck = 0 BY <2>2, <2>3
    <3> QED BY <3>1, <3>2, Sizes DEF Pipe
  <2> QED BY <2>9, <2>10
<1> QED BY <1>5, <1>6 DEF PipeInv

\* The math warp groups of a program start.
LEMMA ReadyStep == ASSUME PipeInv, NEW s \in SMs, MetadataReady(s) PROVE PipeInv'
<1>0. Shaped /\ NumM \in Loads BY LoadsFact DEF PipeInv, Shaped
<1>1. /\ counted /\ ~ready[s] /\ ready' = [ready EXCEPT ![s] = TRUE]
      /\ math' = [math EXCEPT ![s] = [w \in WGs |-> Unpooled(Seek(NumM, Cursor(s)))]]
      /\ UNCHANGED <<tokens, counted, arrived, mask, load, slots, scattered>>
  BY DEF MetadataReady
<1>2. /\ Fine(NumM, s, Seek(NumM, Cursor(s))) /\ Seek(NumM, Cursor(s)).ck = 0
      /\ Seek(NumM, Cursor(s)) \in Cursors
  BY <1>0, FirstFine DEF Fine
<1>3. PICK u : /\ u = Unpooled(Seek(NumM, Cursor(s))) /\ u \in Cursors /\ u.ck = 0
  BY <1>2, UnpooledFacts
<1>4. /\ \A w \in WGs : math'[s][w] = u
      /\ \A t \in SMs : t # s => math'[t] = math[t] /\ ready'[t] = ready[t]
      /\ ready'[s] = TRUE
  BY <1>0, <1>1, <1>3 DEF Shaped
<1>5. math' \in [SMs -> [WGs -> Cursors]] /\ ready' \in [SMs -> BOOLEAN]
  BY <1>0, <1>1, <1>3 DEF Shaped
<1>6. Shaped'
  <2>1. \A t \in SMs : ~ready'[t] => \A w \in WGs : math'[t][w] = Cursor(t)
    BY <1>0, <1>4 DEF Shaped
  <2> QED BY <1>0, <1>1, <1>5, <2>1 DEF Shaped
<1>7. ASSUME NEW t \in SMs PROVE WalkInv(t)' /\ Pipe(t)'
  <2>0. WalkInv(t) /\ Pipe(t) BY DEF PipeInv
  <2>1. CASE t # s BY <1>1, <1>4, <2>0, <2>1, WalkSame
  <2>2. CASE t = s
    <3>1. PICK N \in Nat : \E P \in [0 .. N -> Cursors] : Walk(s, N, P) BY <1>1, <2>0, <2>2 DEF WalkInv
    <3>2. PICK P \in [0 .. N -> Cursors] : Walk(s, N, P) BY <3>1
    <3>3. Path(s, N, P)' BY <1>1, <3>2, PathSame DEF Walk
    <3>4. P[0] = Seek(NumM, Cursor(s)) BY <3>2 DEF Walk, Path
    <3>5. Standing(s, N, P)'
      <4>1. \A w \in WGs : math'[s][w].ck \in 0 .. N /\ math'[s][w] = Unpooled(P[math'[s][w].ck])
        BY <1>3, <1>4, <3>4
      <4> QED BY <1>1, <3>2, <4>1 DEF Walk, Standing
    <3>6. Loaded(s, N, P)' BY <1>1, <3>2 DEF Walk, Loaded
    <3>7. Walk(s, N, P)' BY <3>3, <3>5, <3>6 DEF Walk
    <3>8. WalkInv(s)' BY <3>7 DEF WalkInv
    <3>9. Pipe(s)'
      <4>1. \A w \in WGs : math[s][w] = Cursor(s) /\ Cursor(s).ck = 0
        BY <1>0, <1>1, CursorFacts DEF Shaped
      <4>2. \A w \in WGs : math'[s][w].ck = math[s][w].ck BY <1>3, <1>4, <4>1
      <4> QED BY <1>1, <2>0, <2>2, <4>2 DEF Pipe
    <3> QED BY <2>2, <3>8, <3>9
  <2> QED BY <2>1, <2>2
<1> QED BY <1>6, <1>7 DEF PipeInv

\* The place of a loader that may go on, with the path beyond it.
LEMMA LoaderPlace ==
  ASSUME PipeInv, NEW s \in SMs, NEW x \in Loaders, counted, ~load[s][x].stop
  PROVE  \E N \in Nat : \E P \in [0 .. N -> Cursors] :
           /\ Walk(s, N, P) /\ load[s][x].ck \in 0 .. N - 1
<1>1. PICK N \in Nat : \E P \in [0 .. N -> Cursors] : Walk(s, N, P) BY DEF PipeInv, WalkInv
<1>2. PICK P \in [0 .. N -> Cursors] : Walk(s, N, P) BY <1>1
<1>3. load[s][x].ck \in 0 .. N /\ load[s][x] = P[load[s][x].ck] BY <1>2 DEF Walk, Standing
<1>4. CASE load[s][x].ck \in 0 .. N - 1 BY <1>2, <1>4
<1>5. CASE load[s][x].ck = N
  <2>1. ~P[N].stop BY <1>3, <1>5
  <2>2. PICK Q \in [0 .. N + 1 -> Cursors] : Walk(s, N + 1, Q)
    BY <1>2, <2>1, WalkExtend DEF PipeInv
  <2>3. load[s][x].ck \in 0 .. (N + 1) - 1 BY <1>5
  <2>4. N + 1 \in Nat OBVIOUS
  <2> QED BY <2>2, <2>3, <2>4
<1> QED BY <1>3, <1>4, <1>5

\* What a loader's step makes of the slots: one slot of its own is new.
LEMMA SlotsAfter ==
  ASSUME Shaped, NEW s \in SMs, NEW x \in Loaders, Load(s, x),
         NEW j \in 0 .. STAGES - 1, j = load[s][x].ck % STAGES, NEW c, c = load[s][x]
  PROVE  /\ slots'[s][x][j] = Copied(x, c)
         /\ \A i \in 0 .. STAGES - 1 : i # j => slots'[s][x][i] = slots[s][x][i]
         /\ \A y \in Loaders : y # x => slots'[s][y] = slots[s][y]
         /\ \A t \in SMs : t # s => slots'[t] = slots[t]
         /\ slots' = [t \in SMs |-> [y \in Loaders |-> [i \in 0 .. STAGES - 1 |-> slots'[t][y][i]]]]
<1>0. slots' = [slots EXCEPT ![s][x][j] = Copied(x, c)] BY DEF Load
<1>1. PICK old : old = slots OBVIOUS
<1>2. old = [t \in SMs |-> [y \in Loaders |-> [i \in 0 .. STAGES - 1 |-> old[t][y][i]]]]
  BY <1>1 DEF Shaped
<1>3. slots' = [old EXCEPT ![s][x][j] = Copied(x, c)] BY <1>1, <1>0
<1>4. PICK v : v = Copied(x, c) OBVIOUS
<1>5. PICK fst : fst = old[s] OBVIOUS
<1>6. PICK f : f = fst[x] OBVIOUS
<1>7. /\ old = [t \in SMs |-> old[t]]
      /\ \A t \in SMs : old[t] = [y \in Loaders |-> old[t][y]]
      /\ \A t \in SMs, y \in Loaders : old[t][y] = [i \in 0 .. STAGES - 1 |-> old[t][y][i]]
  BY <1>2
<1>8. /\ fst = [y \in Loaders |-> fst[y]]
      /\ f = [i \in 0 .. STAGES - 1 |-> f[i]]
  BY <1>5, <1>6, <1>7
<1>9. PICK row : row = [f EXCEPT ![j] = v] OBVIOUS
<1>10. /\ row[j] = v /\ \A i \in 0 .. STAGES - 1 : i # j => row[i] = f[i]
       /\ row = [i \in 0 .. STAGES - 1 |-> row[i]]
  BY <1>8, <1>9
<1>11. PICK rows : rows = [fst EXCEPT ![x] = row] OBVIOUS
<1>12. /\ rows[x] = row /\ \A y \in Loaders : y # x => rows[y] = fst[y]
       /\ rows = [y \in Loaders |-> rows[y]]
  BY <1>8, <1>11
<1>14. slots' = [old EXCEPT ![s] = rows] BY <1>3, <1>4, <1>5, <1>6, <1>9, <1>11
<1>15. /\ slots'[s] = rows /\ \A t \in SMs : t # s => slots'[t] = old[t]
       /\ slots' = [t \in SMs |-> slots'[t]]
  BY <1>7, <1>14
<1>16. ASSUME NEW t \in SMs, NEW y \in Loaders
       PROVE  slots'[t][y] = [i \in 0 .. STAGES - 1 |-> slots'[t][y][i]]
  <2>1. CASE t # s
    <3>1. slots'[t] = old[t] BY <1>15, <2>1
    <3> QED BY <1>7, <3>1
  <2>2. CASE t = s /\ y # x
    <3>1. slots'[t][y] = old[t][y] BY <1>5, <1>12, <1>15, <2>2
    <3> QED BY <1>7, <3>1
  <2>3. CASE t = s /\ y = x
    <3>1. slots'[t][y] = row BY <1>12, <1>15, <2>3
    <3> QED BY <1>10, <3>1
  <2> QED BY <2>1, <2>2, <2>3
<1>17. ASSUME NEW t \in SMs PROVE slots'[t] = [y \in Loaders |-> slots'[t][y]]
  <2>1. CASE t # s
    <3>1. slots'[t] = old[t] BY <1>15, <2>1
    <3> QED BY <1>7, <3>1
  <2>2. CASE t = s
    <3>1. slots'[t] = rows BY <1>15, <2>2
    <3> QED BY <1>12, <3>1
  <2> QED BY <2>1, <2>2
<1>13. slots' = [t \in SMs |-> [y \in Loaders |-> [i \in 0 .. STAGES - 1 |-> slots'[t][y][i]]]]
  BY <1>15, <1>16, <1>17
<1> QED BY <1>1, <1>4, <1>5, <1>6, <1>10, <1>12, <1>13, <1>15

-----------------------------------------------------------------------------
\* A loader goes one step along the path, to the end of it or beyond.
LEMMA LoadStep == ASSUME PipeInv, NEW s \in SMs, NEW x \in Loaders, Load(s, x) PROVE PipeInv'
<1>0. Shaped /\ NumM \in Loads BY LoadsFact DEF PipeInv, Shaped
<1>1. PICK c : c = load[s][x] OBVIOUS
<1>2. /\ counted /\ ~c.stop /\ Acquired(s, c.ck)
      /\ slots' = [slots EXCEPT ![s][x][c.ck % STAGES] = Copied(x, c)]
      /\ load' = [load EXCEPT ![s][x] = Advance(c)]
      /\ UNCHANGED <<tokens, counted, ready, arrived, mask, math, scattered>>
  BY <1>1 DEF Load
<1>3. PICK N \in Nat : \E P \in [0 .. N -> Cursors] :
           Walk(s, N, P) /\ load[s][x].ck \in 0 .. N - 1
  BY <1>1, <1>2, LoaderPlace
<1>4. PICK P \in [0 .. N -> Cursors] : Walk(s, N, P) /\ load[s][x].ck \in 0 .. N - 1
  BY <1>3
<1>5. PICK k \in 0 .. N - 1 : k = c.ck BY <1>1, <1>4
<1>6. c = P[k] /\ P[k + 1] = Advance(c) /\ k + 1 \in 0 .. N /\ k \in 0 .. N
  BY <1>1, <1>4, <1>5 DEF Walk, Standing, Path
<1>7. PICK d : d = Advance(c) /\ d = P[k + 1] /\ d \in Cursors /\ d.ck = k + 1
  BY <1>4, <1>6 DEF Walk, Path, Fine
<1>8. /\ load'[s][x] = d
      /\ \A y \in Loaders : y # x => load'[s][y] = load[s][y]
      /\ \A t \in SMs : t # s => load'[t] = load[t]
      /\ load' \in [SMs -> [Loaders -> Cursors]]
  BY <1>0, <1>2, <1>7 DEF Shaped
<1>9. k % STAGES \in 0 .. STAGES - 1
  <2>1. k \in Nat /\ STAGES \in Nat \ {0} BY Sizes
  <2> QED BY <2>1, Division
<1>10. PICK j : j = k % STAGES OBVIOUS
<1>11. /\ slots'[s][x][j] = Copied(x, c)
       /\ \A i \in 0 .. STAGES - 1 : i # j => slots'[s][x][i] = slots[s][x][i]
       /\ \A y \in Loaders : y # x => slots'[s][y] = slots[s][y]
       /\ \A t \in SMs : t # s => slots'[t] = slots[t]
       /\ slots' = [t \in SMs |-> [y \in Loaders |-> [i \in 0 .. STAGES - 1 |-> slots'[t][y][i]]]]
  BY <1>0, <1>1, <1>5, <1>9, <1>10, SlotsAfter
<1>12. Shaped' BY <1>0, <1>2, <1>8, <1>11 DEF Shaped
<1>13. ASSUME NEW t \in SMs PROVE WalkInv(t)' /\ Pipe(t)'
  <2>0. WalkInv(t) /\ Pipe(t) BY DEF PipeInv
  <2>1. CASE t # s BY <1>2, <1>8, <1>11, <2>0, <2>1, WalkSame
  <2>2. CASE t = s
    <3>1. Path(s, N, P)' BY <1>2, <1>4, PathSame DEF Walk
    <3>2. Standing(s, N, P)'
      <4>1. ASSUME NEW y \in Loaders PROVE load'[s][y].ck \in 0 .. N /\ load'[s][y] = P[load'[s][y].ck]
        <5>1. CASE y = x BY <1>6, <1>7, <1>8, <5>1
        <5>2. CASE y # x BY <1>4, <1>8, <5>2 DEF Walk, Standing
        <5> QED BY <5>1, <5>2
      <4> QED BY <1>2, <1>4, <4>1 DEF Walk, Standing
    <3>3. Loaded(s, N, P)'
      <4>1. ASSUME NEW y \in Loaders, NEW i \in 0 .. N, i < load'[s][y].ck,
                   load'[s][y].ck <= i + STAGES
            PROVE  slots'[s][y][i % STAGES] = Copied(y, P[i])
        <5>1. CASE y # x
          <6>1. load'[s][y] = load[s][y] /\ slots'[s][y] = slots[s][y] BY <1>8, <1>11, <5>1
          <6>2. i < load[s][y].ck /\ load[s][y].ck <= i + STAGES BY <4>1, <6>1
          <6>3. slots[s][y][i % STAGES] = Copied(y, P[i]) BY <1>4, <6>2 DEF Walk, Loaded
          <6> QED BY <6>1, <6>3
        <5>2. CASE y = x /\ i = k BY <1>6, <1>10, <1>11, <5>2
        <5>3. CASE y = x /\ i # k
          <6>1. i \in Nat /\ k \in Nat /\ i < k /\ k < i + STAGES
            BY <1>7, <1>8, <4>1, <5>3, Sizes
          <6>2. i % STAGES # j /\ i % STAGES \in 0 .. STAGES - 1 BY <1>10, <6>1, SlotsApart
          <6>3. i < load[s][x].ck /\ load[s][x].ck <= i + STAGES
            BY <1>1, <1>5, <6>1, Sizes
          <6>4. slots[s][x][i % STAGES] = Copied(x, P[i])
            BY <1>4, <6>3 DEF Walk, Loaded
          <6> QED BY <1>11, <5>3, <6>2, <6>4
        <5> QED BY <5>1, <5>2, <5>3
      <4> QED BY <4>1 DEF Loaded
    <3>4. Walk(s, N, P)' BY <3>1, <3>2, <3>3 DEF Walk
    <3>5. WalkInv(s)' BY <3>4 DEF WalkInv
    <3>6. Pipe(s)'
      <4>1. ASSUME NEW y \in Loaders, NEW w \in WGs PROVE load'[s][y].ck <= math'[s][w].ck + STAGES
        <5>1. CASE y # x BY <1>2, <1>8, <2>0, <2>2, <5>1 DEF Pipe
        <5>2. CASE y = x
          <6>1. math[s][w].ck \in Nat BY <1>0 DEF Shaped, Cursors
          <6>2. k < math[s][w].ck + STAGES BY <1>2, <1>5 DEF Acquired
          <6>3. load'[s][y].ck = k + 1 /\ math' = math BY <1>2, <1>7, <1>8, <5>2
          <6> QED BY <6>1, <6>2, <6>3, Sizes
        <5> QED BY <5>1, <5>2
      <4> QED BY <4>1 DEF Pipe
    <3> QED BY <2>2, <3>5, <3>6
  <2> QED BY <2>1, <2>2
<1> QED BY <1>12, <1>13 DEF PipeInv

\* The place of a warp group that may go on.
LEMMA MathPlace ==
  ASSUME PipeInv, NEW s \in SMs, NEW w \in WGs, ready[s], Committed(s, math[s][w].ck)
  PROVE  \E N \in Nat : \E P \in [0 .. N -> Cursors] :
           /\ Walk(s, N, P) /\ math[s][w].ck \in 0 .. N - 1
           /\ math[s][w] = Unpooled(P[math[s][w].ck])
           /\ ~P[math[s][w].ck].stop
           /\ P[math[s][w].ck + 1] = Advance(P[math[s][w].ck])
<1>1. counted BY DEF PipeInv, Shaped
<1>2. PICK N \in Nat : \E P \in [0 .. N -> Cursors] : Walk(s, N, P)
  BY <1>1 DEF PipeInv, WalkInv
<1>3. PICK P \in [0 .. N -> Cursors] : Walk(s, N, P) BY <1>2
<1>4. math[s][w].ck \in 0 .. N /\ math[s][w] = Unpooled(P[math[s][w].ck])
  BY <1>3 DEF Walk, Standing
<1>5. load[s]["A"].ck \in 0 .. N /\ math[s][w].ck < load[s]["A"].ck
  BY <1>3 DEF Walk, Standing, Committed, Loaders
<1>6. math[s][w].ck \in 0 .. N - 1 BY <1>4, <1>5
<1>7. ~P[math[s][w].ck].stop /\ P[math[s][w].ck + 1] = Advance(P[math[s][w].ck])
  BY <1>3, <1>6 DEF Walk, Path
<1> QED BY <1>3, <1>4, <1>6, <1>7

\* A warp group follows the loaders along the path.
LEMMA MultiplyStep == ASSUME PipeInv, NEW s \in SMs, NEW w \in WGs, Multiply(s, w) PROVE PipeInv'
<1>0. Shaped /\ NumM \in Loads BY LoadsFact DEF PipeInv, Shaped
<1>1. PICK c : c = math[s][w] OBVIOUS
<1>2. /\ ready[s] /\ ~c.stop /\ Committed(s, c.ck)
      /\ math' = [math EXCEPT ![s][w] = Unpooled(Advance(c))]
      /\ scattered' = IF c.kb + 1 = NK(c.phase) /\ c.phase = 2 /\ HasRows(w, MathBlock(c))
                      THEN [scattered EXCEPT ![w] = @ \cup RowsOf(w, MathBlock(c), NBlock(c))]
                      ELSE scattered
      /\ UNCHANGED <<tokens, counted, ready, arrived, load, slots>>
  BY <1>1 DEF Multiply
<1>3. PICK N \in Nat : \E P \in [0 .. N -> Cursors] :
           /\ Walk(s, N, P) /\ c.ck \in 0 .. N - 1 /\ c = Unpooled(P[c.ck])
           /\ ~P[c.ck].stop /\ P[c.ck + 1] = Advance(P[c.ck])
  BY <1>1, <1>2, MathPlace
<1>4. PICK P \in [0 .. N -> Cursors] :
           /\ Walk(s, N, P) /\ c.ck \in 0 .. N - 1 /\ c = Unpooled(P[c.ck])
           /\ ~P[c.ck].stop /\ P[c.ck + 1] = Advance(P[c.ck])
  BY <1>3
<1>5. PICK k \in 0 .. N - 1 : k = c.ck BY <1>4
<1>6. k \in 0 .. N /\ k + 1 \in 0 .. N BY <1>5
<1>7. Fine(NumM, s, P[k]) BY <1>4, <1>6 DEF Walk, Path
<1>8. PICK d : d = Unpooled(Advance(c)) /\ d = Unpooled(P[k + 1]) /\ d \in Cursors /\ d.ck = k + 1
  <2>1. Unpooled(Advance(c)) = Unpooled(P[k + 1])
    BY <1>0, <1>4, <1>5, <1>7, UnpooledAdvance
  <2>2. P[k + 1] \in Cursors /\ P[k + 1].ck = k + 1 BY <1>4, <1>6 DEF Walk, Path
  <2> QED BY <2>1, <2>2, UnpooledFacts
<1>9. /\ math'[s][w] = d
      /\ \A v \in WGs : v # w => math'[s][v] = math[s][v]
      /\ \A t \in SMs : t # s => math'[t] = math[t]
      /\ math' \in [SMs -> [WGs -> Cursors]]
  BY <1>0, <1>2, <1>8 DEF Shaped
<1>10. scattered' = [v \in WGs |-> scattered'[v]] BY <1>0, <1>2 DEF Shaped
<1>11. Shaped' BY <1>0, <1>2, <1>9, <1>10 DEF Shaped
<1>12. ASSUME NEW t \in SMs PROVE WalkInv(t)' /\ Pipe(t)'
  <2>0. WalkInv(t) /\ Pipe(t) BY DEF PipeInv
  <2>1. CASE t # s BY <1>2, <1>9, <2>0, <2>1, WalkSame
  <2>2. CASE t = s
    <3>1. Path(s, N, P)' BY <1>2, <1>4, PathSame DEF Walk
    <3>2. Standing(s, N, P)'
      <4>1. ASSUME NEW v \in WGs
            PROVE  math'[s][v].ck \in 0 .. N /\ math'[s][v] = Unpooled(P[math'[s][v].ck])
        <5>1. CASE v = w BY <1>6, <1>8, <1>9, <5>1
        <5>2. CASE v # w BY <1>2, <1>4, <1>9, <5>2 DEF Walk, Standing
        <5> QED BY <5>1, <5>2
      <4> QED BY <1>2, <1>4, <4>1 DEF Walk, Standing
    <3>3. Loaded(s, N, P)' BY <1>2, <1>4 DEF Walk, Loaded
    <3>4. Walk(s, N, P)' BY <3>1, <3>2, <3>3 DEF Walk
    <3>5. WalkInv(s)' BY <3>4 DEF WalkInv
    <3>6. Pipe(s)'
      <4>1. ASSUME NEW y \in Loaders, NEW v \in WGs PROVE load'[s][y].ck <= math'[s][v].ck + STAGES
        <5>1. load[s][y].ck <= math[s][v].ck + STAGES /\ load'[s][y].ck = load[s][y].ck
          BY <1>2, <2>0, <2>2 DEF Pipe
        <5>2. CASE v # w BY <1>9, <5>1, <5>2
        <5>3. CASE v = w
          <6>1. math[s][v].ck = k /\ math'[s][v].ck = k + 1 BY <1>1, <1>5, <1>8, <1>9, <5>3
          <6>2. load[s][y].ck \in Nat BY <1>0 DEF Shaped, Cursors
          <6> QED BY <5>1, <6>1, <6>2, Sizes
        <5> QED BY <5>2, <5>3
      <4> QED BY <4>1 DEF Pipe
    <3> QED BY <2>2, <3>5, <3>6
  <2> QED BY <2>1, <2>2
<1> QED BY <1>11, <1>12 DEF PipeInv

\* Every step keeps the roles on the path.
LEMMA PipeStep == PipeInv /\ [Next]_vars => PipeInv'
<1> SUFFICES ASSUME PipeInv, [Next]_vars PROVE PipeInv'
  OBVIOUS
<1>1. CASE SumsComplete BY <1>1, CountedStep
<1>2. CASE \E s \in SMs : MetadataReady(s) BY <1>2, ReadyStep
<1>3. CASE \E s \in SMs : \/ \E x \in Loaders : Load(s, x)
                          \/ \E w \in WGs : Multiply(s, w)
  BY <1>3, LoadStep, MultiplyStep
<1>4. ASSUME UNCHANGED <<tokens, counted, ready, load, math, slots, scattered>> PROVE PipeInv'
  <2>1. Shaped' BY <1>4 DEF PipeInv, Shaped
  <2>2. \A s \in SMs : WalkInv(s)' /\ Pipe(s)' BY <1>4, WalkSame DEF PipeInv
  <2> QED BY <2>1, <2>2 DEF PipeInv
<1>5. CASE \E b \in Pool : BlockArrives(b) BY <1>4, <1>5 DEF BlockArrives
<1>6. CASE Terminated \/ UNCHANGED vars BY <1>4, <1>6 DEF Terminated, vars
<1> QED BY <1>1, <1>2, <1>3, <1>5, <1>6 DEF Next

\* The offset of the pool that a loader carries is what the math warps compute.
LEMMA PipeMatches == PipeInv => SlotsMatchTiles
<1> SUFFICES ASSUME PipeInv, NEW s \in SMs, NEW w \in WGs,
                    ready[s], ~math[s][w].stop, Committed(s, math[s][w].ck)
             PROVE  LET c == math[s][w]
                        slot(x) == slots[s][x][c.ck % STAGES]
                        slice(at) == [phase |-> c.phase, expert |-> c.cur, at |-> at, kb |-> c.kb]
                    IN  slot("A") = slice(MathBlock(c)) /\ slot("B") = slice(NBlock(c))
  BY DEF SlotsMatchTiles
<1>1. PICK c : c = math[s][w] OBVIOUS
<1>2. PICK N \in Nat : \E P \in [0 .. N -> Cursors] :
           Walk(s, N, P) /\ c.ck \in 0 .. N - 1 /\ c = Unpooled(P[c.ck])
  BY <1>1, MathPlace
<1>3. PICK P \in [0 .. N -> Cursors] :
           Walk(s, N, P) /\ c.ck \in 0 .. N - 1 /\ c = Unpooled(P[c.ck])
  BY <1>2
<1>4. PICK k \in 0 .. N : k = c.ck /\ Fine(NumM, s, P[k])
  <2>1. c.ck \in 0 .. N BY <1>3
  <2> QED BY <1>3, <2>1 DEF Walk, Path
<1>5. PICK d : d = P[k] /\ d \in Cursors /\ Carried(NumM, d) BY <1>4 DEF Fine
<1>6. /\ c.cur = d.cur /\ c.phase = d.phase /\ c.block = d.block /\ c.kb = d.kb
  BY <1>3, <1>4, <1>5, UnpooledFacts
<1>7. \A x \in Loaders : slots[s][x][k % STAGES] = Copied(x, d)
  <2>1. ASSUME NEW x \in Loaders PROVE k < load[s][x].ck /\ load[s][x].ck <= k + STAGES
    BY <1>1, <1>4 DEF Committed, PipeInv, Pipe
  <2> QED BY <1>3, <1>5, <2>1 DEF Walk, Loaded
<1>8. MathBlock(c) = LoaderBlock(d) /\ NBlock(c) = NBlock(d)
  BY <1>5, <1>6 DEF MathBlock, LoaderBlock, MBlock, NBlock, Offset, Carried, Sum
<1>9. /\ Copied("A", d) = [phase |-> d.phase, expert |-> d.cur, kb |-> d.kb, at |-> LoaderBlock(d)]
      /\ Copied("B", d) = [phase |-> d.phase, expert |-> d.cur, kb |-> d.kb, at |-> NBlock(d)]
  BY DEF Copied
<1> QED BY <1>1, <1>4, <1>6, <1>7, <1>8, <1>9 DEF Loaders

\* The two loaders and the math warps of a program walk one list of tiles: what a
\* warp group finds in a committed slot is the slice of its own tile and block.
THEOREM RolesWalkTogether == Spec => []SlotsMatchTiles
<1>1. Init => PipeInv BY PipeInit
<1>2. PipeInv /\ [Next]_vars => PipeInv' BY PipeStep
<1>3. PipeInv => SlotsMatchTiles BY PipeMatches
<1> QED BY <1>1, <1>2, <1>3, PTL DEF Spec

-----------------------------------------------------------------------------
(* Blocks, column tiles and shares.                                          *)
LEMMA MinPair == ASSUME NEW a \in Int, NEW b \in Int PROVE Min({a, b}) = IF a <= b THEN a ELSE b
<1>1. PICK c \in {a, b} : c = (IF a <= b THEN a ELSE b) /\ \A y \in {a, b} : c <= y OBVIOUS
<1>2. \A d \in {a, b} : (\A y \in {a, b} : d <= y) => d = c
  <2>1. ASSUME NEW d \in {a, b}, \A y \in {a, b} : d <= y PROVE d = c
    <3>1. d <= c /\ c <= d BY <1>1, <2>1
    <3> QED BY <3>1
  <2> QED BY <2>1
<1>3. (CHOOSE d \in {a, b} : \A y \in {a, b} : d <= y) = c BY <1>1, <1>2
<1> QED BY <1>1, <1>3 DEF Min

\* A number has one quotient and one rest.
LEMMA DivisionUnique ==
  ASSUME NEW m \in Nat \ {0}, NEW q \in Nat, NEW r \in 0 .. m - 1
  PROVE  (q * m + r) \div m = q /\ (q * m + r) % m = r /\ q * m + r \in Nat
<1>1. PICK a \in Nat : a = q * m BY Products
<1>2. a + r \in Nat BY <1>1
<1>3. PICK d \in Nat, p \in 0 .. m - 1 :
        d = (a + r) \div m /\ p = (a + r) % m /\ a + r = m * d + p
  BY <1>2, Division
<1>4. PICK b \in Nat : b = m * d /\ a + r = b + p BY <1>3, Products
<1>5. \A x, y \in Nat : x < y => x * m + m <= y * m
  <2>1. ASSUME NEW x \in Nat, NEW y \in Nat, x < y PROVE x * m + m <= y * m
    <3>1. (x + 1) * m <= y * m
      <4>1. x + 1 \in Nat /\ x + 1 <= y BY <2>1
      <4> QED BY <4>1, Order
    <3>2. (x + 1) * m = x * m + m OBVIOUS
    <3> QED BY <3>1, <3>2
  <2> QED BY <2>1
<1>6. d = q
  <2>1. b = d * m BY <1>4, Products
  <2>2. CASE d < q
    <3>1. b + m <= a BY <1>1, <1>5, <2>1, <2>2
    <3> QED BY <1>3, <1>4, <3>1
  <2>3. CASE q < d
    <3>1. a + m <= b BY <1>1, <1>5, <2>1, <2>3
    <3> QED BY <1>3, <1>4, <3>1
  <2> QED BY <2>2, <2>3
<1>7. b = a BY <1>1, <1>4, <1>6, Products
<1> QED BY <1>1, <1>2, <1>3, <1>4, <1>6, <1>7

\* Quotients of numbers below a product.
LEMMA QuotientBound ==
  ASSUME NEW m \in Nat \ {0}, NEW q \in Nat, NEW k \in Nat, k < q * m
  PROVE  k \div m \in 0 .. q - 1
<1>1. PICK d \in Nat, r \in 0 .. m - 1 : d = k \div m /\ k = m * d + r BY Division
<1>2. PICK a \in Nat : a = d * m /\ k = a + r BY <1>1, Products
<1>3. CASE q <= d
  <2>1. q * m <= a BY <1>2, <1>3, Order
  <2>2. q * m \in Nat BY Products
  <2> QED BY <1>2, <2>1, <2>2
<1> QED BY <1>1, <1>3

\* Every block of the pool is of one expert.
LEMMA ExpertExists ==
  ASSUME NEW n \in [Padded -> Nat], NEW b \in Nat, b < Sum(n, EPR)
  PROVE  \E e \in Local : Sum(n, e) <= b /\ b < Sum(n, e + 1)
<1> DEFINE above == {f \in 0 .. EPR : b < Sum(n, f)}
<1>1. above \subseteq Nat /\ EPR \in above BY Sizes
<1>2. PICK f \in above : \A g \in above : f <= g BY <1>1, NatMinimum
<1>3. f # 0 BY <1>2, SumFacts
<1>4. f \in 0 .. EPR /\ b < Sum(n, f) BY <1>2
<1>5. PICK e \in Local : f = e + 1 BY <1>3, <1>4, Sizes DEF Local
<1>6. e \notin above /\ e \in 0 .. EPR BY <1>2, <1>5, Sizes DEF Local
<1>7. Sum(n, e) \in Nat
  <2>1. e \in 0 .. Top BY <1>6, TopFacts, Sizes
  <2> QED BY <2>1, SumFacts
<1>8. Sum(n, e) <= b BY <1>6, <1>7
<1> QED BY <1>4, <1>5, <1>8

\* The blocks of two experts are different.
LEMMA ExpertUnique ==
  ASSUME NEW n \in [Padded -> Nat], NEW e \in Local, NEW f \in Local, NEW b \in Nat,
         Sum(n, e) <= b, b < Sum(n, e + 1), Sum(n, f) <= b, b < Sum(n, f + 1)
  PROVE  e = f
<1>1. PICK T \in Nat : T = Top /\ EPR <= T BY TopFacts
<1>2. e \in Nat /\ f \in Nat /\ e \in 0 .. T /\ f \in 0 .. T /\ e + 1 \in 0 .. T /\ f + 1 \in 0 .. T
  BY <1>1, Sizes DEF Local
<1>3. Sum(n, e) \in Nat /\ Sum(n, f) \in Nat /\ Sum(n, e + 1) \in Nat /\ Sum(n, f + 1) \in Nat
  BY <1>1, <1>2, SumFacts
<1>4. e < f => Sum(n, e + 1) <= Sum(n, f)
  <2>1. \A x, y \in 0 .. T : x <= y => Sum(n, x) <= Sum(n, y) BY <1>1, SumFacts
  <2> QED BY <1>2, <2>1
<1>5. f < e => Sum(n, f + 1) <= Sum(n, e)
  <2>1. \A x, y \in 0 .. T : x <= y => Sum(n, x) <= Sum(n, y) BY <1>1, SumFacts
  <2> QED BY <1>2, <2>1
<1> QED BY <1>2, <1>3, <1>4, <1>5

\* Shares of the programs: every number is in the share of one.
LEMMA ShareTotal == ASSUME NEW x \in Nat PROVE \E t \in SMs : x \in Share(t)
<1>1. PICK N \in Nat \ {0} : N = NUM_SMS BY Sizes
<1>2. PICK d \in Nat, r \in 0 .. N - 1 : x = N * d + r BY Division
<1>3. x = r + d * N BY <1>2, Products
<1> QED BY <1>1, <1>2, <1>3 DEF Share, SMs

\* No number is in the share of two programs.
LEMMA ShareApart ==
  ASSUME NEW s \in SMs, NEW t \in SMs, NEW x \in Share(s), x \in Share(t)
  PROVE  s = t /\ x \in Nat /\ s <= x
<1>1. PICK N \in Nat \ {0} : N = NUM_SMS BY Sizes
<1>2. PICK i \in Nat : x = s + i * N BY <1>1 DEF Share
<1>3. PICK j \in Nat : x = t + j * N BY <1>1 DEF Share
<1>4. s \in 0 .. N - 1 /\ t \in 0 .. N - 1 BY <1>1 DEF SMs
<1>5. PICK a \in Nat, b \in Nat : a = i * N /\ b = j * N /\ x = s + a /\ x = t + b
  BY <1>2, <1>3, Products
<1>6. (a + s) % N = s BY <1>4, <1>5, DivisionUnique
<1>7. (b + t) % N = t BY <1>4, <1>5, DivisionUnique
<1>8. a + s = b + t BY <1>4, <1>5
<1> QED BY <1>4, <1>5, <1>6, <1>7, <1>8

\* Numbers of one share are NUM_SMS apart.
LEMMA ShareSteps ==
  ASSUME NEW s \in SMs, NEW x \in Share(s), NEW y \in Share(s)
  PROVE  x \in Nat /\ y \in Nat /\ (x < y + NUM_SMS <=> x < y \/ x = y)
<1>1. PICK N \in Nat \ {0} : N = NUM_SMS BY Sizes
<1>2. PICK i \in Nat : x = s + i * N BY <1>1 DEF Share
<1>3. PICK j \in Nat : y = s + j * N BY <1>1 DEF Share
<1>4. s \in Nat BY <1>1 DEF SMs
<1>5. PICK a \in Nat, b \in Nat : a = i * N /\ b = j * N /\ x = s + a /\ y = s + b
  BY <1>2, <1>3, Products
<1>6. i > j => a >= b + N
  <2>1. ASSUME i > j PROVE a >= b + N
    <3>1. (j + 1) * N <= i * N
      <4>1. j + 1 \in Nat /\ j + 1 <= i BY <2>1
      <4> QED BY <4>1, Order
    <3>2. (j + 1) * N = b + N BY <1>5
    <3> QED BY <1>5, <3>1, <3>2
  <2> QED BY <2>1
<1>7. i <= j => a <= b BY <1>5, Order
<1> QED BY <1>1, <1>4, <1>5, <1>6, <1>7

-----------------------------------------------------------------------------
(***************************************************************************)
(* TilesDisjoint and AllRowsScattered.  The L2 tiles of expert e have the   *)
(* numbers from First(NumM, e, 2) on; tile k of them is of this block and   *)
(* this column tile.                                                        *)
(***************************************************************************)
BlockAt(e, k)  == Sum(NumM, e) + k \div NL2N
TileRows(w, e, k) == RowsOf(w, BlockAt(e, k), k % NL2N)
Tiles2(e) == {k \in Nat : k < NumM[e] * NL2N}
Number2(e, k) == First(NumM, e, 2) + k

\* Indices of experts are in the range of the sums.
LEMMA Experts ==
  ASSUME NEW e \in Local
  PROVE  /\ e \in Nat /\ e < EPR /\ e \in Padded /\ e \in 0 .. Top /\ e + 1 \in 0 .. Top
         /\ e \in 0 .. Top - 1
  BY TopFacts, Sizes DEF Local

\* A tile's block is one of its expert's.
LEMMA TileFacts ==
  ASSUME NumM \in [Padded -> Nat], NEW e \in Local, NEW p \in {1, 2}, NEW k \in Nat,
         k < NumM[e] * Width(p)
  PROVE  /\ k \div Width(p) \in Nat /\ k % Width(p) \in 0 .. Width(p) - 1
         /\ k = (k \div Width(p)) * Width(p) + (k % Width(p))
         /\ Sum(NumM, e) \in Nat
         /\ Sum(NumM, e) <= Sum(NumM, e) + k \div Width(p)
         /\ Sum(NumM, e) + k \div Width(p) < Sum(NumM, e + 1)
         /\ Sum(NumM, e) + k \div Width(p) \in Pool
<1>1. Width(p) \in Nat \ {0} BY Sizes DEF Width
<1>2. NumM[e] \in Nat /\ Sum(NumM, e) \in Nat /\ Sum(NumM, e + 1) = Sum(NumM, e) + NumM[e]
  BY Experts, SumFacts
<1>3. k \div Width(p) \in 0 .. NumM[e] - 1 BY <1>1, <1>2, QuotientBound
<1>4. /\ k % Width(p) \in 0 .. Width(p) - 1
      /\ k = (k \div Width(p)) * Width(p) + (k % Width(p))
  <2>1. /\ k % Width(p) \in 0 .. Width(p) - 1 /\ k \div Width(p) \in Nat
        /\ k = Width(p) * (k \div Width(p)) + (k % Width(p))
    BY <1>1, Division
  <2>2. Width(p) * (k \div Width(p)) = (k \div Width(p)) * Width(p) BY <1>1, <2>1, Products
  <2> QED BY <2>1, <2>2
<1>5. Sum(NumM, e + 1) <= Sum(NumM, EPR) /\ Sum(NumM, EPR) \in Nat
  <2>1. EPR \in 0 .. Top /\ e + 1 <= EPR BY TopFacts, Sizes, Experts
  <2> QED BY <2>1, Experts, SumFacts
<1>6. Pool = 0 .. Sum(NumM, EPR) - 1 BY DEF Pool, Offset, Sum
<1> QED BY <1>2, <1>3, <1>4, <1>5, <1>6

\* A block and a column tile determine the expert and the tile.
LEMMA TileByBlock ==
  ASSUME NumM \in [Padded -> Nat], NEW e \in Local, NEW f \in Local, NEW p \in {1, 2},
         NEW k \in Nat, NEW l \in Nat, k < NumM[e] * Width(p), l < NumM[f] * Width(p),
         Sum(NumM, e) + k \div Width(p) = Sum(NumM, f) + l \div Width(p),
         k % Width(p) = l % Width(p)
  PROVE  e = f /\ k = l
<1>1. PICK b : b = Sum(NumM, e) + k \div Width(p) OBVIOUS
<1>2. b \in Nat /\ Sum(NumM, e) <= b /\ b < Sum(NumM, e + 1)
  BY <1>1, TileFacts DEF Pool
<1>3. Sum(NumM, f) <= b /\ b < Sum(NumM, f + 1) BY <1>1, TileFacts
<1>4. e = f BY <1>2, <1>3, ExpertUnique
<1>5. k \div Width(p) = l \div Width(p)
  <2>1. Sum(NumM, e) \in Nat /\ k \div Width(p) \in Nat /\ l \div Width(p) \in Nat BY TileFacts
  <2> QED BY <1>4, <2>1
<1>6. /\ k = (k \div Width(p)) * Width(p) + (k % Width(p))
      /\ l = (l \div Width(p)) * Width(p) + (l % Width(p))
  BY TileFacts
<1> QED BY <1>4, <1>5, <1>6

\* A block of the pool is one of its expert's.
LEMMA BlockOfExpert ==
  ASSUME NumM \in [Padded -> Nat], NEW b \in Pool
  PROVE  \E e \in Local, q \in Nat : b = Sum(NumM, e) + q /\ q < NumM[e]
<1>1. b \in Nat /\ b < Sum(NumM, EPR)
  <2>1. EPR \in 0 .. Top BY TopFacts, Sizes
  <2>2. Sum(NumM, EPR) \in Nat BY <2>1, SumFacts
  <2> QED BY <2>2 DEF Pool, Offset, Sum
<1>2. PICK e \in Local : Sum(NumM, e) <= b /\ b < Sum(NumM, e + 1) BY <1>1, ExpertExists
<1>3. NumM[e] \in Nat /\ Sum(NumM, e) \in Nat /\ Sum(NumM, e + 1) = Sum(NumM, e) + NumM[e]
  BY Experts, SumFacts
<1>4. PICK x \in Nat, y \in Nat : x = Sum(NumM, e) /\ y = NumM[e] BY <1>3
<1>5. x <= b /\ b < x + y BY <1>2, <1>3, <1>4
<1>6. b - x \in Nat /\ b = x + (b - x) /\ b - x < y BY <1>1, <1>4, <1>5
<1> QED BY <1>4, <1>6

\* The tile of a row of tiles in a column.
LEMMA ColumnTile ==
  ASSUME NEW w \in Nat \ {0}, NEW q \in Nat, NEW m \in Nat, q < m, NEW n \in 0 .. w - 1
  PROVE  \E k \in Nat : k = q * w + n /\ k \div w = q /\ k % w = n /\ k < m * w
<1>1. (q * w + n) \div w = q /\ (q * w + n) % w = n /\ q * w + n \in Nat
  BY DivisionUnique
<1>2. q * w + n < m * w
  <2>1. (q + 1) * w <= m * w
    <3>1. q + 1 \in Nat /\ q + 1 <= m OBVIOUS
    <3> QED BY <3>1, Order
  <2>2. (q + 1) * w = q * w + w OBVIOUS
  <2>3. q * w \in Nat /\ m * w \in Nat BY Products
  <2> QED BY <2>1, <2>2, <2>3
<1> QED BY <1>1, <1>2

\* A block of the pool has an expert, whose L2 tiles are the tiles of the block.
LEMMA TileOfBlock ==
  ASSUME NumM \in [Padded -> Nat], NEW b \in Pool, NEW c \in 0 .. NL2N - 1
  PROVE  \E e \in Local : \E k \in Tiles2(e) : BlockAt(e, k) = b /\ k % NL2N = c
<1>1. PICK e \in Local, q \in Nat : b = Sum(NumM, e) + q /\ q < NumM[e]
  BY BlockOfExpert
<1>2. NL2N \in Nat \ {0} /\ NumM[e] \in Nat BY Experts, Sizes
<1>3. PICK k \in Nat : k = q * NL2N + c /\ k \div NL2N = q /\ k % NL2N = c /\ k < NumM[e] * NL2N
  BY <1>1, <1>2, ColumnTile
<1>4. k \in Tiles2(e) /\ BlockAt(e, k) = b BY <1>1, <1>3 DEF Tiles2, BlockAt
<1> QED BY <1>3, <1>4

-----------------------------------------------------------------------------
(* Rows of a block.                                                          *)
LEMMA ValidRows ==
  ASSUME tokens \in [Local -> Nat], NumM \in [Padded -> Nat], NEW b \in Pool
  PROVE  ValidM(b) \in Int /\ ValidM(b) <= BLOCK_M
<1>1. b \in Nat /\ b < Sum(NumM, EPR)
  <2>1. EPR \in 0 .. Top BY TopFacts, Sizes
  <2>2. Sum(NumM, EPR) \in Nat BY <2>1, SumFacts
  <2> QED BY <2>2 DEF Pool, Offset, Sum
<1>2. \E e \in Local : b \in Offset(e) .. Offset(e + 1) - 1
  <2>1. PICK e \in Local : Sum(NumM, e) <= b /\ b < Sum(NumM, e + 1) BY <1>1, ExpertExists
  <2>2. Sum(NumM, e) \in Nat /\ Sum(NumM, e + 1) \in Nat BY Experts, SumFacts
  <2>3. b \in Offset(e) .. Offset(e + 1) - 1 BY <1>1, <2>1, <2>2 DEF Offset, Sum
  <2> QED BY <2>3
<1>3. ExpertOf(b) \in Local BY <1>2 DEF ExpertOf
<1>4. Offset(ExpertOf(b)) \in Nat BY <1>3, Experts, SumFacts DEF Offset, Sum
<1>5. PICK a \in Int : a = tokens[ExpertOf(b)] - (b - Offset(ExpertOf(b))) * BLOCK_M
  BY <1>1, <1>3, <1>4, Sizes
<1>6. BLOCK_M \in Int BY Sizes
<1>7. ValidM(b) = IF a <= BLOCK_M THEN a ELSE BLOCK_M BY <1>5, <1>6, MinPair DEF ValidM
<1> QED BY <1>5, <1>6, <1>7

\* The two halves of the rows of a block.
LEMMA RowsFacts ==
  ASSUME tokens \in [Local -> Nat], NumM \in [Padded -> Nat], NEW b \in Pool, NEW c, NEW w \in WGs
  PROVE  /\ \A y \in RowsOf(w, b, c) :
              \E m \in 0 .. BLOCK_M - 1 : y = <<b, m, c>> /\ m < ValidM(b)
         /\ ~HasRows(w, b) => RowsOf(w, b, c) = {}
         /\ \A m \in 0 .. BLOCK_M - 1 :
              m < ValidM(b) /\ (m < BLOCK_M \div 2 <=> w = 0) => <<b, m, c>> \in RowsOf(w, b, c)
<1>1. PICK h \in Nat : h = BLOCK_M \div 2 /\ BLOCK_M = 2 * h
  BY Sizes
<1>2. PICK v \in Int : v = ValidM(b) BY ValidRows
<1>3. (w + 1) * h \in Int /\ w \in {0, 1} BY DEF WGs
<1>4. Min({v, (w + 1) * h}) = IF v <= (w + 1) * h THEN v ELSE (w + 1) * h BY <1>3, MinPair
<1>5. w * h = (IF w = 0 THEN 0 ELSE h) /\ (w + 1) * h = (IF w = 0 THEN h ELSE 2 * h) BY <1>3
<1>6. PICK lo \in Int, hi \in Int :
        /\ lo = w * h /\ hi = Min({v, (w + 1) * h}) - 1
        /\ lo = (IF w = 0 THEN 0 ELSE h)
        /\ hi = (IF v <= (IF w = 0 THEN h ELSE 2 * h)
                   THEN v ELSE (IF w = 0 THEN h ELSE 2 * h)) - 1
  BY <1>4, <1>5
<1>7. RowsOf(w, b, c) = {<<b, m, c>> : m \in lo .. hi} BY <1>1, <1>2, <1>6 DEF RowsOf
<1>8. \A y \in RowsOf(w, b, c) : \E m \in 0 .. BLOCK_M - 1 : y = <<b, m, c>> /\ m < ValidM(b)
  <2>1. ASSUME NEW y \in RowsOf(w, b, c)
        PROVE  \E m \in 0 .. BLOCK_M - 1 : y = <<b, m, c>> /\ m < ValidM(b)
    <3>1. PICK m \in lo .. hi : y = <<b, m, c>> BY <1>7
    <3>2. m \in Int /\ lo <= m /\ m <= hi BY <1>6
    <3>3. m \in Int /\ 0 <= m /\ m < v /\ m < 2 * h
      <4>1. CASE w = 0 BY <1>6, <3>2, <4>1
      <4>2. CASE w # 0 BY <1>6, <3>2, <4>2
      <4> QED BY <4>1, <4>2
    <3>4. m \in 0 .. BLOCK_M - 1 BY <1>1, <3>3
    <3> QED BY <1>2, <3>1, <3>3, <3>4
  <2> QED BY <2>1
<1>9. ~HasRows(w, b) => RowsOf(w, b, c) = {}
  <2>1. ASSUME ~HasRows(w, b), NEW y \in RowsOf(w, b, c) PROVE FALSE
    <3>1. PICK m \in lo .. hi : y = <<b, m, c>> BY <1>7, <2>1
    <3>2. w # 0 /\ v <= h BY <1>1, <1>2, <2>1 DEF HasRows
    <3> QED BY <1>6, <3>1, <3>2
  <2> QED BY <2>1
<1>10. ASSUME NEW m \in 0 .. BLOCK_M - 1, m < ValidM(b), m < BLOCK_M \div 2 <=> w = 0
       PROVE  <<b, m, c>> \in RowsOf(w, b, c)
  <2>1. m \in Int /\ m < v /\ 0 <= m /\ m < 2 * h /\ (m < h <=> w = 0) BY <1>1, <1>2, <1>10
  <2>2. m \in lo .. hi BY <1>6, <2>1
  <2> QED BY <1>7, <2>2
<1> QED BY <1>8, <1>9, <1>10

-----------------------------------------------------------------------------
(***************************************************************************)
(* What a warp group has scattered are the L2 tiles of its program's share  *)
(* in front of its cursor: all of them, and of no other.                    *)
(***************************************************************************)
Behind(w, x) == \E t \in SMs : ready[t] /\ x \in Share(t) /\ x < Number(NumM, math[t][w])

ScatteredAre(w) ==
  \A y : y \in scattered[w] <=>
    \E e \in Local : \E k \in Tiles2(e) : Behind(w, Number2(e, k)) /\ y \in TileRows(w, e, k)

TilesInv == PipeInv /\ \A w \in WGs : ScatteredAre(w)

\* A warp group's cursor.
OnPath(s, c) ==
  /\ c \in Cursors
  /\ OnTile(NumM, c) \/ Over(c)
  /\ Number(NumM, c) \in Share(s)
  /\ ~c.stop => c.kb < NK(c.phase)

\* The math warps' cursor has the number of the loaders'.
LEMMA FineOnPath ==
  ASSUME NEW s \in SMs, NEW p, Fine(NumM, s, p)
  PROVE  OnPath(s, Unpooled(p)) /\ Number(NumM, Unpooled(p)) = Number(NumM, p)
<1>1. PICK u : u = Unpooled(p) OBVIOUS
<1>2. /\ u \in Cursors /\ u.cur = p.cur /\ u.phase = p.phase /\ u.block = p.block
      /\ u.stop = p.stop /\ u.kb = p.kb
  BY <1>1, UnpooledFacts DEF Fine
<1>3. Number(NumM, u) = Number(NumM, p) BY <1>2 DEF Number
<1>4. OnTile(NumM, u) \/ Over(u) BY <1>2 DEF Fine, OnTile, Over
<1> QED BY <1>1, <1>2, <1>3, <1>4 DEF OnPath, Fine

\* A warp group that has started is on the path.
LEMMA MathOnPath ==
  ASSUME PipeInv, NEW s \in SMs, NEW w \in WGs, ready[s]
  PROVE  OnPath(s, math[s][w])
<1>1. counted BY DEF PipeInv, Shaped
<1>2. PICK N \in Nat : \E P \in [0 .. N -> Cursors] : Walk(s, N, P)
  BY <1>1 DEF PipeInv, WalkInv
<1>3. PICK P \in [0 .. N -> Cursors] : Walk(s, N, P) BY <1>2
<1>4. PICK k \in 0 .. N : k = math[s][w].ck /\ math[s][w] = Unpooled(P[k])
  BY <1>3 DEF Walk, Standing
<1>5. Fine(NumM, s, P[k]) BY <1>3 DEF Walk, Path
<1> QED BY <1>4, <1>5, FineOnPath

\* A tile's last slice takes the warp group NUM_SMS tiles on.
LEMMA MathGoesOn ==
  ASSUME PipeInv, NEW s \in SMs, NEW w \in WGs, Multiply(s, w)
  PROVE  /\ ready[s] /\ ~math[s][w].stop
         /\ \A v \in WGs : v # w => math'[s][v] = math[s][v]
         /\ \A t \in SMs : t # s => math'[t] = math[t]
         /\ Number(NumM, math'[s][w]) =
              Number(NumM, math[s][w])
                + (IF math[s][w].kb + 1 = NK(math[s][w].phase) THEN NUM_SMS ELSE 0)
         /\ math'[s][w].kb =
              IF math[s][w].kb + 1 = NK(math[s][w].phase) THEN 0 ELSE math[s][w].kb + 1
<1>0. Shaped /\ NumM \in Loads BY LoadsFact DEF PipeInv, Shaped
<1>1. PICK c : c = math[s][w] OBVIOUS
<1>2. /\ ready[s] /\ ~c.stop /\ Committed(s, c.ck)
      /\ math' = [math EXCEPT ![s][w] = Unpooled(Advance(c))]
  BY <1>1 DEF Multiply
<1>3. PICK N \in Nat : \E P \in [0 .. N -> Cursors] :
           /\ Walk(s, N, P) /\ c.ck \in 0 .. N - 1 /\ c = Unpooled(P[c.ck])
           /\ ~P[c.ck].stop /\ P[c.ck + 1] = Advance(P[c.ck])
  BY <1>1, <1>2, MathPlace
<1>4. PICK P \in [0 .. N -> Cursors] :
           /\ Walk(s, N, P) /\ c.ck \in 0 .. N - 1 /\ c = Unpooled(P[c.ck])
           /\ ~P[c.ck].stop /\ P[c.ck + 1] = Advance(P[c.ck])
  BY <1>3
<1>5. PICK k \in 0 .. N : k = c.ck BY <1>4
<1>6. PICK p : p = P[k] /\ Fine(NumM, s, p) /\ ~p.stop /\ c = Unpooled(p)
  BY <1>4, <1>5 DEF Walk, Path
<1>7. c.kb = p.kb /\ c.phase = p.phase /\ p \in Cursors BY <1>6, UnpooledFacts DEF Fine
<1>8. PICK q : q = Advance(p) OBVIOUS
<1>9. /\ Fine(NumM, s, q)
      /\ c.kb + 1 < NK(c.phase) => Number(NumM, q) = Number(NumM, p) /\ q.kb = c.kb + 1
      /\ ~(c.kb + 1 < NK(c.phase)) =>
           /\ c.kb + 1 = NK(c.phase) /\ Number(NumM, q) = Number(NumM, p) + NUM_SMS
           /\ q.kb = 0
  BY <1>0, <1>6, <1>7, <1>8, AdvanceFacts
<1>10. Unpooled(Advance(c)) = Unpooled(q) BY <1>0, <1>6, <1>8, UnpooledAdvance
<1>11. /\ math'[s][w] = Unpooled(q)
       /\ \A v \in WGs : v # w => math'[s][v] = math[s][v]
       /\ \A t \in SMs : t # s => math'[t] = math[t]
  <2>1. PICK u : u = Unpooled(q) /\ math' = [math EXCEPT ![s][w] = u] BY <1>2, <1>10
  <2> QED BY <1>0, <2>1 DEF Shaped
<1>12. Number(NumM, c) = Number(NumM, p) /\ Number(NumM, Unpooled(q)) = Number(NumM, q)
  BY <1>6, <1>9, FineOnPath
<1>13. Number(NumM, p) \in Nat /\ c.kb \in Nat /\ NK(c.phase) \in Nat
  <2>1. NumM \in [Padded -> Nat] BY <1>0 DEF Loads
  <2>2. Number(NumM, p) \in Nat BY <1>6, <2>1, OnTileFacts, OverFacts DEF Fine
  <2>3. NK(c.phase) \in Nat BY Sizes DEF NK
  <2> QED BY <1>7, <2>2, <2>3 DEF Cursors
<1>14. Number(NumM, math'[s][w]) =
         Number(NumM, c) + (IF c.kb + 1 = NK(c.phase) THEN NUM_SMS ELSE 0)
  BY <1>9, <1>11, <1>12, <1>13
<1>15. math'[s][w].kb = IF c.kb + 1 = NK(c.phase) THEN 0 ELSE c.kb + 1
  <2>1. Unpooled(q).kb = q.kb BY <1>9, UnpooledFacts DEF Fine
  <2> QED BY <1>9, <1>11, <1>13, <2>1
<1> QED BY <1>1, <1>2, <1>11, <1>14, <1>15

\* The L2 tile that has a cursor's number is the one that the cursor is on.
LEMMA CursorTile ==
  ASSUME NumM \in [Padded -> Nat], NEW c \in Cursors, OnTile(NumM, c)
  PROVE  /\ c.phase = 2 => /\ c.cur \in Local /\ c.block \in Tiles2(c.cur)
                           /\ Number2(c.cur, c.block) = Number(NumM, c)
                           /\ MathBlock(c) = BlockAt(c.cur, c.block)
                           /\ NBlock(c) = c.block % NL2N /\ MathBlock(c) \in Pool
         /\ \A e \in Local : \A k \in Tiles2(e) :
              Number2(e, k) = Number(NumM, c) => c.phase = 2 /\ e = c.cur /\ k = c.block
<1>1. /\ Number(NumM, c) = TileOf(NumM, c.cur, c.phase, c.block)
      /\ c.cur \in Nat /\ c.cur < EPR /\ c.phase \in {1, 2} /\ c.block \in Nat
      /\ c.block < NumM[c.cur] * Width(c.phase)
  BY OnTileFacts
<1>2. Width(2) = NL2N BY DEF Width
<1>3. c.cur \in Local BY <1>1, Sizes DEF Local
<1>4. ASSUME c.phase = 2
      PROVE  /\ c.block \in Tiles2(c.cur) /\ Number2(c.cur, c.block) = Number(NumM, c)
             /\ MathBlock(c) = BlockAt(c.cur, c.block)
             /\ NBlock(c) = c.block % NL2N /\ MathBlock(c) \in Pool
  <2>1. c.block \in Tiles2(c.cur) /\ Number2(c.cur, c.block) = Number(NumM, c)
    BY <1>1, <1>2, <1>4 DEF Tiles2, Number2, TileOf
  <2>2. MathBlock(c) = BlockAt(c.cur, c.block) /\ NBlock(c) = c.block % NL2N
    BY <1>2, <1>4 DEF MathBlock, BlockAt, NBlock, MBlock, Offset, Sum
  <2>3. BlockAt(c.cur, c.block) \in Pool BY <1>1, <1>2, <1>3, <1>4, TileFacts DEF BlockAt
  <2> QED BY <2>1, <2>2, <2>3
<1>5. ASSUME NEW e \in Local, NEW k \in Tiles2(e), Number2(e, k) = Number(NumM, c)
      PROVE  c.phase = 2 /\ e = c.cur /\ k = c.block
  <2>1. k \in Nat /\ k < NumM[e] * Width(2) BY <1>2 DEF Tiles2
  <2>2. TileOf(NumM, e, 2, k) = TileOf(NumM, c.cur, c.phase, c.block)
    BY <1>1, <1>5 DEF Number2, TileOf
  <2>3. e \in Nat /\ e < EPR BY Experts
  <2> QED BY <1>1, <2>1, <2>2, <2>3, TileUnique
<1> QED BY <1>3, <1>4, <1>5

\* All L2 tiles have numbers before the end.
LEMMA Number2Facts ==
  ASSUME NumM \in [Padded -> Nat], NEW e \in Local, NEW k \in Tiles2(e)
  PROVE  Number2(e, k) \in Nat /\ Number2(e, k) < First(NumM, Top, 1)
<1>1. First(NumM, e, 2) \in Nat /\ First(NumM, Top, 1) \in Nat
  BY Experts, FirstNat, TopFacts
<1>2. First(NumM, e, 2) + NumM[e] * NL2N <= First(NumM, Top, 1) BY Experts, TilesOfExpert
<1>3. NumM[e] * NL2N \in Nat
  <2>1. NumM[e] \in Nat BY Experts
  <2> QED BY <2>1, Products, Sizes
<1> QED BY <1>1, <1>2, <1>3 DEF Number2, Tiles2

-----------------------------------------------------------------------------
\* Tiles and their rows depend on the counts of tokens only.
LEMMA TilesSame ==
  ASSUME tokens' = tokens
  PROVE  /\ NumM' = NumM
         /\ \A e : Tiles2(e)' = Tiles2(e)
         /\ \A e, k : Number2(e, k)' = Number2(e, k)
         /\ \A w, e, k : TileRows(w, e, k)' = TileRows(w, e, k)
<1>1. NumM' = NumM BY DEF NumM
<1>2. \A e : Tiles2(e)' = Tiles2(e) BY <1>1 DEF Tiles2
<1>3. \A e, k : Number2(e, k)' = Number2(e, k) BY <1>1 DEF Number2, First, Sum
<1>4. \A b : ExpertOf(b)' = ExpertOf(b) BY <1>1 DEF ExpertOf, Offset
<1>5. \A b : ValidM(b)' = ValidM(b) BY <1>1, <1>4 DEF ValidM, Offset
<1>6. \A w, e, k : TileRows(w, e, k)' = TileRows(w, e, k)
  BY <1>1, <1>5 DEF TileRows, RowsOf, BlockAt, Sum
<1> QED BY <1>1, <1>2, <1>3, <1>6

\* The set of tiles behind the cursors makes scattered.
LEMMA ScatteredSame ==
  ASSUME NEW w \in WGs, ScatteredAre(w), tokens' = tokens, scattered'[w] = scattered[w],
         \A e \in Local : \A k \in Tiles2(e) :
           Behind(w, Number2(e, k))' <=> Behind(w, Number2(e, k))
  PROVE  ScatteredAre(w)'
<1>1. /\ \A e : Tiles2(e)' = Tiles2(e)
      /\ \A v, e, k : TileRows(v, e, k)' = TileRows(v, e, k)
  BY TilesSame
<1>2. \A y : y \in scattered'[w] <=>
        \E e \in Local : \E k \in Tiles2(e) :
           Behind(w, Number2(e, k))' /\ y \in TileRows(w, e, k)
  BY DEF ScatteredAre
<1> QED BY <1>1, <1>2 DEF ScatteredAre

\* Nothing is scattered at first.
LEMMA TilesInit == Init => TilesInv
<1> SUFFICES ASSUME Init PROVE TilesInv
  OBVIOUS
<1>1. PipeInv BY PipeInit
<1>2. ASSUME NEW w \in WGs PROVE ScatteredAre(w)
  <2>1. scattered[w] = {} /\ \A t \in SMs : ~ready[t] BY DEF Init
  <2> QED BY <2>1 DEF ScatteredAre, Behind
<1> QED BY <1>1, <1>2 DEF TilesInv

\* Steps that leave the warp groups where they are.
LEMMA TilesQuiet ==
  ASSUME TilesInv, tokens' = tokens, scattered' = scattered, ready' = ready, math' = math
  PROVE  \A w \in WGs : ScatteredAre(w)'
<1>1. NumM' = NumM BY TilesSame
<1>2. \A e, k : Number2(e, k)' = Number2(e, k) BY TilesSame
<1>3. ASSUME NEW w \in WGs PROVE ScatteredAre(w)'
  <2>1. \A e \in Local : \A k \in Tiles2(e) :
          Behind(w, Number2(e, k))' <=> Behind(w, Number2(e, k))
    BY <1>1, <1>2 DEF Behind, Number, First, Sum
  <2> QED BY <2>1, ScatteredSame DEF TilesInv
<1> QED BY <1>3

\* A program that starts has no tile behind it.
LEMMA BehindReady ==
  ASSUME PipeInv, NEW s \in SMs, MetadataReady(s)
  PROVE  \A w \in WGs : \A x : Behind(w, x)' <=> Behind(w, x)
<1>0. Shaped /\ NumM \in Loads BY LoadsFact DEF PipeInv, Shaped
<1>1. /\ ~ready[s] /\ ready' = [ready EXCEPT ![s] = TRUE]
      /\ math' = [math EXCEPT ![s] = [w \in WGs |-> Unpooled(Seek(NumM, Cursor(s)))]]
      /\ tokens' = tokens
  BY DEF MetadataReady
<1>2. NumM' = NumM BY <1>1, TilesSame
<1>3. PICK p : p = Seek(NumM, Cursor(s)) OBVIOUS
<1>4. Fine(NumM, s, p) /\ Number(NumM, p) = s
  <2>1. Fine(NumM, s, p) BY <1>0, <1>3, FirstFine
  <2>2. Sought(NumM, Cursor(s), p) BY <1>0, <1>3, CursorFacts, SeekFacts
  <2> QED BY <1>0, <2>1, <2>2, CursorFacts DEF Sought
<1>5. Number(NumM, Unpooled(p)) = s BY <1>4, FineOnPath
<1>6. PICK u : u = Unpooled(p) /\ Number(NumM, u) = s BY <1>5
<1>7. /\ \A w \in WGs : math'[s][w] = u
      /\ \A t \in SMs : t # s => math'[t] = math[t] /\ ready'[t] = ready[t]
      /\ ready'[s]
  BY <1>0, <1>1, <1>3, <1>6 DEF Shaped
<1>8. ASSUME NEW w \in WGs, NEW x PROVE Behind(w, x)' <=> Behind(w, x)
  <2>1. Behind(w, x)' <=> \E t \in SMs : ready'[t] /\ x \in Share(t) /\ x < Number(NumM, math'[t][w])
    BY <1>2 DEF Behind, Number, First, Sum, Share
  <2>2. ~(x \in Share(s) /\ x < Number(NumM, math'[s][w]))
    <3>1. Number(NumM, math'[s][w]) = s BY <1>6, <1>7
    <3>2. x \in Share(s) => x \in Nat /\ s <= x BY ShareApart
    <3>3. s \in Nat BY DEF SMs
    <3> QED BY <3>1, <3>2, <3>3
  <2> QED BY <1>1, <1>7, <2>1, <2>2 DEF Behind
<1> QED BY <1>8

\* A warp group that starts has scattered nothing.
LEMMA TilesReady ==
  ASSUME TilesInv, NEW s \in SMs, MetadataReady(s)
  PROVE  \A w \in WGs : ScatteredAre(w)'
<1>1. tokens' = tokens /\ scattered' = scattered BY DEF MetadataReady
<1>2. \A w \in WGs : \A x : Behind(w, x)' <=> Behind(w, x) BY BehindReady DEF TilesInv
<1>3. \A w \in WGs : \A e, k : Behind(w, Number2(e, k))' <=> Behind(w, Number2(e, k))
  <2>1. ASSUME NEW w \in WGs, NEW e, NEW k
        PROVE  Behind(w, Number2(e, k))' <=> Behind(w, Number2(e, k))
    <3>1. PICK x : x = Number2(e, k) /\ x = Number2(e, k)' BY <1>1, TilesSame
    <3>2. Behind(w, Number2(e, k))' <=> Behind(w, x)' BY <3>1 DEF Behind
    <3> QED BY <1>2, <3>1, <3>2
  <2> QED BY <2>1
<1> QED BY <1>1, <1>3, ScatteredSame DEF TilesInv

-----------------------------------------------------------------------------
\* A warp group that multiplies passes the tile it is on with the last slice.
LEMMA BehindMultiply ==
  ASSUME PipeInv, NEW s \in SMs, NEW w \in WGs, Multiply(s, w),
         NEW c, c = math[s][w], NEW last, last = (c.kb + 1 = NK(c.phase))
  PROVE  /\ \A v \in WGs : v # w => \A x : Behind(v, x)' <=> Behind(v, x)
         /\ \A x : Behind(w, x)' <=> Behind(w, x) \/ (last /\ x = Number(NumM, c))
         /\ c \in Cursors /\ OnTile(NumM, c) /\ Number(NumM, c) \in Share(s)
<1>0. Shaped /\ NumM \in Loads BY LoadsFact DEF PipeInv, Shaped
<1>1. NumM \in [Padded -> Nat] /\ last \in BOOLEAN BY <1>0 DEF Loads
<1>5. /\ ready[s] /\ ~c.stop
      /\ \A v \in WGs : v # w => math'[s][v] = math[s][v]
      /\ \A t \in SMs : t # s => math'[t] = math[t]
      /\ Number(NumM, math'[s][w]) = Number(NumM, c) + (IF last THEN NUM_SMS ELSE 0)
  <2>1. /\ ready[s] /\ ~math[s][w].stop
        /\ \A v \in WGs : v # w => math'[s][v] = math[s][v]
        /\ \A t \in SMs : t # s => math'[t] = math[t]
        /\ Number(NumM, math'[s][w]) =
             Number(NumM, math[s][w])
               + (IF math[s][w].kb + 1 = NK(math[s][w].phase) THEN NUM_SMS ELSE 0)
    BY MathGoesOn
  <2> QED BY <1>1, <2>1
<1>6. tokens' = tokens /\ ready' = ready BY DEF Multiply
<1>7. NumM' = NumM BY <1>6, TilesSame
<1>8. c \in Cursors /\ OnTile(NumM, c) /\ Number(NumM, c) \in Share(s)
  <2>1. OnPath(s, c) BY <1>5, MathOnPath
  <2> QED BY <1>5, <2>1 DEF OnPath, Over
<1>9. PICK g \in Nat : g = Number(NumM, c) /\ g \in Share(s)
  BY <1>1, <1>8, OnTileFacts
<1>10. \A v \in WGs : \A x :
         Behind(v, x)' <=> \E t \in SMs : ready[t] /\ x \in Share(t) /\ x < Number(NumM, math'[t][v])
  BY <1>6, <1>7 DEF Behind, Number, First, Sum, Share
<1>11. ASSUME NEW v \in WGs, v # w PROVE \A x : Behind(v, x)' <=> Behind(v, x)
  <2>1. \A t \in SMs : math'[t][v] = math[t][v] BY <1>5, <1>11
  <2> QED BY <1>10, <2>1 DEF Behind
<1>12. ASSUME NEW x PROVE Behind(w, x)' <=> Behind(w, x) \/ (last /\ x = g)
  <2>1. \A t \in SMs : t # s => math'[t][w] = math[t][w] BY <1>5
  <2>2. x \in Share(s) => (x < Number(NumM, math'[s][w]) <=> x < g \/ (last /\ x = g))
    <3>1. ASSUME x \in Share(s)
          PROVE  x \in Nat /\ (x < g + NUM_SMS <=> x < g \/ x = g)
      BY <1>9, <3>1, ShareSteps
    <3> QED BY <1>1, <1>5, <1>9, <3>1
  <2> QED BY <1>5, <1>9, <1>10, <2>1, <2>2 DEF Behind
<1> QED BY <1>8, <1>9, <1>11, <1>12

\* The tile that a warp group completes is the one that its cursor passes.
LEMMA TilesMultiply ==
  ASSUME TilesInv, NEW s \in SMs, NEW w \in WGs, Multiply(s, w)
  PROVE  \A v \in WGs : ScatteredAre(v)'
<1>0. Shaped /\ NumM \in Loads /\ PipeInv BY LoadsFact DEF TilesInv, PipeInv, Shaped
<1>1. NumM \in [Padded -> Nat] /\ tokens \in [Local -> Nat] BY <1>0 DEF Loads, Shaped
<1>2. PICK c : c = math[s][w] OBVIOUS
<1>3. PICK last \in BOOLEAN : last = (c.kb + 1 = NK(c.phase)) OBVIOUS
<1>4. PICK rows : rows = RowsOf(w, MathBlock(c), NBlock(c)) OBVIOUS
<1>6. /\ tokens' = tokens /\ ready' = ready
      /\ scattered' = IF last /\ c.phase = 2 /\ HasRows(w, MathBlock(c))
                      THEN [scattered EXCEPT ![w] = @ \cup rows] ELSE scattered
  BY <1>2, <1>3, <1>4 DEF Multiply
<1>7. /\ NumM' = NumM
      /\ \A e : Tiles2(e)' = Tiles2(e)
      /\ \A e, k : Number2(e, k)' = Number2(e, k)
      /\ \A v, e, k : TileRows(v, e, k)' = TileRows(v, e, k)
  BY <1>6, TilesSame
<1>8. /\ \A v \in WGs : v # w => \A x : Behind(v, x)' <=> Behind(v, x)
      /\ \A x : Behind(w, x)' <=> Behind(w, x) \/ (last /\ x = Number(NumM, c))
      /\ c \in Cursors /\ OnTile(NumM, c) /\ Number(NumM, c) \in Share(s)
  BY <1>0, <1>2, <1>3, BehindMultiply
<1>9. PICK g \in Nat : g = Number(NumM, c) /\ g \in Share(s)
  BY <1>1, <1>8, OnTileFacts
<1>11. ASSUME NEW v \in WGs, v # w PROVE ScatteredAre(v)'
  <2>2. scattered'[v] = scattered[v] BY <1>0, <1>6, <1>11 DEF Shaped
  <2>3. \A x : Behind(v, x)' <=> Behind(v, x) BY <1>8, <1>11
  <2>4. \A e \in Local : \A k \in Tiles2(e) :
          Behind(v, Number2(e, k))' <=> Behind(v, Number2(e, k))
    <3>1. ASSUME NEW e, NEW k PROVE Behind(v, Number2(e, k))' <=> Behind(v, Number2(e, k))
      <4>1. PICK x : x = Number2(e, k) /\ x = Number2(e, k)' BY <1>7
      <4>2. Behind(v, Number2(e, k))' <=> Behind(v, x)' BY <4>1 DEF Behind
      <4> QED BY <2>3, <4>1, <4>2
    <3> QED BY <3>1
  <2> QED BY <1>6, <2>2, <2>4, ScatteredSame DEF TilesInv
<1>12. \A x : Behind(w, x)' <=> Behind(w, x) \/ (last /\ x = g) BY <1>8, <1>9
<1>13. \A y : y \in scattered'[w] <=> y \in scattered[w] \/ (last /\ c.phase = 2 /\ y \in rows)
  <2>1. c.phase = 2 /\ ~HasRows(w, MathBlock(c)) => rows = {}
    BY <1>1, <1>4, <1>8, CursorTile, RowsFacts
  <2> QED BY <1>0, <1>6, <2>1 DEF Shaped
<1>14. /\ c.phase = 2 => /\ c.cur \in Local /\ c.block \in Tiles2(c.cur)
                         /\ Number2(c.cur, c.block) = g /\ TileRows(w, c.cur, c.block) = rows
       /\ \A e \in Local : \A k \in Tiles2(e) :
            Number2(e, k) = g => c.phase = 2 /\ e = c.cur /\ k = c.block
  BY <1>1, <1>4, <1>8, <1>9, CursorTile DEF TileRows
<1>15. ScatteredAre(w)
  BY DEF TilesInv
<1>16. ScatteredAre(w)'
  <2>1. \A e \in Local : \A k \in Tiles2(e) : Behind(w, Number2(e, k))' <=>
          Behind(w, Number2(e, k)) \/ (last /\ Number2(e, k) = g)
    <3>1. ASSUME NEW e, NEW k
          PROVE  Behind(w, Number2(e, k))' <=>
                   Behind(w, Number2(e, k)) \/ (last /\ Number2(e, k) = g)
      <4>1. PICK x : x = Number2(e, k) /\ x = Number2(e, k)' BY <1>7
      <4>2. Behind(w, Number2(e, k))' <=> Behind(w, x)' BY <4>1 DEF Behind
      <4> QED BY <1>12, <4>1, <4>2
    <3> QED BY <3>1
  <2>2. ASSUME NEW y
        PROVE  y \in scattered'[w] <=>
                 \E e \in Local : \E k \in Tiles2(e) :
                   /\ Behind(w, Number2(e, k)) \/ (last /\ Number2(e, k) = g)
                   /\ y \in TileRows(w, e, k)
    <3>1. y \in scattered[w] <=>
            \E e \in Local : \E k \in Tiles2(e) :
              Behind(w, Number2(e, k)) /\ y \in TileRows(w, e, k)
      BY <1>15 DEF ScatteredAre
    <3>2. last /\ c.phase = 2 /\ y \in rows <=>
            \E e \in Local : \E k \in Tiles2(e) :
              last /\ Number2(e, k) = g /\ y \in TileRows(w, e, k)
      BY <1>14
    <3> QED BY <1>13, <3>1, <3>2
  <2>3. \A y : y \in scattered'[w] <=>
          \E e \in Local : \E k \in Tiles2(e) :
             Behind(w, Number2(e, k))' /\ y \in TileRows(w, e, k)
    BY <2>1, <2>2
  <2> QED BY <1>7, <2>3 DEF ScatteredAre
<1> QED BY <1>11, <1>16

\* Every step keeps the scattered rows those of the tiles passed.
LEMMA TilesStep == TilesInv /\ [Next]_vars => TilesInv'
<1> SUFFICES ASSUME TilesInv, [Next]_vars PROVE TilesInv'
  OBVIOUS
<1>1. PipeInv' BY PipeStep DEF TilesInv
<1>2. \A w \in WGs : ScatteredAre(w)'
  <2>1. CASE SumsComplete \/ (\E b \in Pool : BlockArrives(b)) \/ Terminated \/ UNCHANGED vars
    <3>1. tokens' = tokens /\ scattered' = scattered /\ ready' = ready /\ math' = math
      BY <2>1 DEF SumsComplete, BlockArrives, Terminated, vars
    <3> QED BY <3>1, TilesQuiet
  <2>2. CASE \E s \in SMs : MetadataReady(s) BY <2>2, TilesReady
  <2>3. CASE \E s \in SMs : \E x \in Loaders : Load(s, x)
    <3>1. tokens' = tokens /\ scattered' = scattered /\ ready' = ready /\ math' = math
      BY <2>3 DEF Load
    <3> QED BY <3>1, TilesQuiet
  <2>4. CASE \E s \in SMs : \E w \in WGs : Multiply(s, w) BY <2>4, TilesMultiply
  <2> QED BY <2>1, <2>2, <2>3, <2>4 DEF Next
<1> QED BY <1>1, <1>2 DEF TilesInv

-----------------------------------------------------------------------------
\* Cursors of two programs are on different tiles, and on none that is done.
LEMMA TilesApart == TilesInv => TilesDisjoint
<1> SUFFICES ASSUME TilesInv PROVE TilesDisjoint
  OBVIOUS
<1>0. Shaped /\ NumM \in Loads /\ PipeInv BY LoadsFact DEF TilesInv, PipeInv, Shaped
<1>1. NumM \in [Padded -> Nat] /\ tokens \in [Local -> Nat] BY <1>0 DEF Loads, Shaped
<1>2. ASSUME NEW s \in SMs, NEW w \in WGs, ready[s], ~math[s][w].stop
      PROVE  /\ math[s][w] \in Cursors /\ OnTile(NumM, math[s][w])
             /\ Number(NumM, math[s][w]) \in Share(s)
  BY <1>0, <1>2, MathOnPath DEF OnPath, Over
<1>3. ASSUME NEW s \in SMs, NEW t \in SMs, NEW w \in WGs, ready[s], ~math[s][w].stop,
             s # t, ready[t], ~math[t][w].stop,
             math[s][w].phase = math[t][w].phase,
             MathBlock(math[s][w]) = MathBlock(math[t][w]),
             NBlock(math[s][w]) = NBlock(math[t][w])
      PROVE  FALSE
  <2>1. PICK c \in Cursors : c = math[s][w] /\ OnTile(NumM, c) /\ Number(NumM, c) \in Share(s)
    BY <1>2, <1>3
  <2>2. PICK d \in Cursors : d = math[t][w] /\ OnTile(NumM, d) /\ Number(NumM, d) \in Share(t)
    BY <1>2, <1>3
  <2>3. /\ c.cur \in Local /\ c.phase \in {1, 2} /\ c.block \in Nat
        /\ c.block < NumM[c.cur] * Width(c.phase)
    BY <1>1, <2>1, OnTileFacts, Sizes DEF Local
  <2>4. /\ d.cur \in Local /\ d.block \in Nat
        /\ d.block < NumM[d.cur] * Width(d.phase)
    BY <1>1, <2>2, OnTileFacts, Sizes DEF Local
  <2>5. PICK p \in {1, 2} : p = c.phase /\ p = d.phase BY <1>3, <2>1, <2>2, <2>3
  <2>6. /\ Sum(NumM, c.cur) + c.block \div Width(p) = Sum(NumM, d.cur) + d.block \div Width(p)
        /\ c.block % Width(p) = d.block % Width(p)
    BY <1>3, <2>1, <2>2, <2>5 DEF MathBlock, NBlock, MBlock, Offset, Sum
  <2>7. c.cur = d.cur /\ c.block = d.block BY <1>1, <2>3, <2>4, <2>5, <2>6, TileByBlock
  <2>8. Number(NumM, c) = Number(NumM, d) BY <2>5, <2>7 DEF Number
  <2>9. s = t BY <2>1, <2>2, <2>8, ShareApart
  <2> QED BY <1>3, <2>9
<1>4. ASSUME NEW s \in SMs, NEW w \in WGs, ready[s], ~math[s][w].stop, math[s][w].phase = 2
      PROVE  RowsOf(w, MathBlock(math[s][w]), NBlock(math[s][w])) \cap scattered[w] = {}
  <2> SUFFICES ASSUME NEW y \in RowsOf(w, MathBlock(math[s][w]), NBlock(math[s][w])),
                      y \in scattered[w]
               PROVE  FALSE
    OBVIOUS
  <2>1. PICK c \in Cursors : c = math[s][w] /\ OnTile(NumM, c) /\ Number(NumM, c) \in Share(s)
    BY <1>2, <1>4
  <2>2. /\ c.cur \in Local /\ c.block \in Tiles2(c.cur)
        /\ Number2(c.cur, c.block) = Number(NumM, c)
        /\ MathBlock(c) = BlockAt(c.cur, c.block) /\ NBlock(c) = c.block % NL2N
        /\ MathBlock(c) \in Pool
    BY <1>1, <1>4, <2>1, CursorTile
  <2>20. PICK e \in Local : \E k \in Tiles2(e) :
            Behind(w, Number2(e, k)) /\ y \in TileRows(w, e, k)
    <3>1. ScatteredAre(w) BY DEF TilesInv
    <3> QED BY <3>1 DEF ScatteredAre
  <2>3. PICK k \in Tiles2(e) : Behind(w, Number2(e, k)) /\ y \in TileRows(w, e, k) BY <2>20
  <2>4. Width(2) = NL2N BY DEF Width
  <2>5. k \in Nat /\ k < NumM[e] * Width(2) BY <2>4 DEF Tiles2
  <2>6. BlockAt(e, k) \in Pool BY <1>1, <2>4, <2>5, TileFacts DEF BlockAt
  <2>7. \E m : y = <<MathBlock(c), m, NBlock(c)>> BY <1>1, <2>1, <2>2, RowsFacts
  <2>8. \E m : y = <<BlockAt(e, k), m, k % NL2N>> BY <1>1, <2>3, <2>6, RowsFacts DEF TileRows
  <2>9. BlockAt(e, k) = BlockAt(c.cur, c.block) /\ k % NL2N = c.block % NL2N
    BY <2>2, <2>7, <2>8
  <2>10. e = c.cur /\ k = c.block
    <3>1. c.block \in Nat /\ c.block < NumM[c.cur] * Width(2) BY <2>2, <2>4 DEF Tiles2
    <3> QED BY <1>1, <2>2, <2>4, <2>5, <2>9, <3>1, TileByBlock DEF BlockAt
  <2>11. PICK x \in Nat : x = Number(NumM, c) /\ x = Number2(e, k) /\ x \in Share(s)
    BY <1>1, <2>1, <2>2, <2>10, OnTileFacts
  <2>12. PICK t \in SMs : x \in Share(t) /\ x < Number(NumM, math[t][w])
    BY <2>3, <2>11 DEF Behind
  <2>13. t = s BY <2>11, <2>12, ShareApart
  <2>14. Number(NumM, math[t][w]) = x BY <2>1, <2>11, <2>13
  <2>15. x < x BY <2>12, <2>14
  <2> QED BY <2>11, <2>15
<1> QED BY <1>3, <1>4 DEF TilesDisjoint

\* When all cursors are past the last tile, every tile is behind one of them.
LEMMA AllBehind == TilesInv => AllRowsScattered
<1> SUFFICES ASSUME TilesInv, Finished PROVE AllRowsScattered
  BY DEF AllRowsScattered
<1>0. Shaped /\ NumM \in Loads /\ PipeInv BY LoadsFact DEF TilesInv, PipeInv, Shaped
<1>1. NumM \in [Padded -> Nat] /\ tokens \in [Local -> Nat] BY <1>0 DEF Loads, Shaped
<1>2. \A s \in SMs : ready[s]
  <2>1. ASSUME NEW s \in SMs, ~ready[s] PROVE FALSE
    <3>1. math[s][0] = Cursor(s) BY <1>0, <2>1 DEF Shaped, WGs
    <3>2. math[s][0].stop BY DEF Finished, WGs
    <3>3. ~Cursor(s).stop BY <1>0, CursorFacts
    <3> QED BY <3>1, <3>2, <3>3
  <2> QED BY <2>1
<1>3. ASSUME NEW w \in WGs, NEW e \in Local, NEW k \in Tiles2(e) PROVE Behind(w, Number2(e, k))
  <2>1. PICK x \in Nat : x = Number2(e, k) /\ x < First(NumM, Top, 1) BY <1>1, Number2Facts
  <2>2. PICK t \in SMs : x \in Share(t) BY ShareTotal
  <2>3. math[t][w].stop /\ OnPath(t, math[t][w]) BY <1>0, <1>2, MathOnPath DEF Finished
  <2>4. PICK c \in Cursors : c = math[t][w] /\ Over(c) BY <2>3 DEF OnPath, OnTile
  <2>5. /\ Number(NumM, c) \in Nat /\ Number(NumM, c) >= First(NumM, Top, 1)
        /\ First(NumM, Top, 1) \in Nat
    BY <1>1, <2>4, OverFacts
  <2>6. x < Number(NumM, math[t][w]) BY <2>1, <2>4, <2>5
  <2> QED BY <1>2, <2>1, <2>2, <2>6 DEF Behind
<1>4. \A w \in WGs : \A y : y \in scattered[w] <=>
        \E e \in Local : \E k \in Tiles2(e) : y \in TileRows(w, e, k)
  BY <1>3 DEF TilesInv, ScatteredAre
<1> DEFINE all == {x \in Pool \X (0 .. BLOCK_M - 1) \X (0 .. NL2N - 1) : x[2] < ValidM(x[1])}
<1>5. ASSUME NEW w \in WGs, NEW y \in scattered[w] PROVE y \in all
  <2>0. PICK e \in Local : \E k \in Tiles2(e) : y \in TileRows(w, e, k) BY <1>4, <1>5
  <2>1. PICK k \in Tiles2(e) : y \in TileRows(w, e, k) BY <2>0
  <2>2. Width(2) = NL2N BY DEF Width
  <2>3. k \in Nat /\ k < NumM[e] * Width(2) BY <2>2 DEF Tiles2
  <2>4. BlockAt(e, k) \in Pool /\ k % NL2N \in 0 .. NL2N - 1
    BY <1>1, <2>2, <2>3, TileFacts DEF BlockAt
  <2>5. PICK m \in 0 .. BLOCK_M - 1 : y = <<BlockAt(e, k), m, k % NL2N>> /\ m < ValidM(BlockAt(e, k))
    BY <1>1, <2>1, <2>4, RowsFacts DEF TileRows
  <2> QED BY <2>4, <2>5
<1>6. ASSUME NEW b \in Pool, NEW m \in 0 .. BLOCK_M - 1, NEW c \in 0 .. NL2N - 1, m < ValidM(b)
      PROVE  <<b, m, c>> \in scattered[0] \cup scattered[1]
  <2>0. PICK e \in Local : \E k \in Tiles2(e) : BlockAt(e, k) = b /\ k % NL2N = c
    BY <1>1, TileOfBlock
  <2>1. PICK k \in Tiles2(e) : BlockAt(e, k) = b /\ k % NL2N = c BY <2>0
  <2>2. PICK w \in WGs : m < BLOCK_M \div 2 <=> w = 0 BY DEF WGs
  <2>3. <<b, m, c>> \in TileRows(w, e, k) BY <1>1, <1>6, <2>1, <2>2, RowsFacts DEF TileRows
  <2>4. <<b, m, c>> \in scattered[w] BY <1>4, <2>3
  <2> QED BY <2>4 DEF WGs
<1>7. \A x \in all : \E b \in Pool, m \in 0 .. BLOCK_M - 1, c \in 0 .. NL2N - 1 :
        x = <<b, m, c>> /\ m < ValidM(b)
  OBVIOUS
<1>8. scattered[0] \cup scattered[1] = all
  <2>1. 0 \in WGs /\ 1 \in WGs BY DEF WGs
  <2> HIDE DEF all
  <2> QED BY <1>5, <1>6, <1>7, <2>1
<1> QED BY <1>8 DEF AllRowsScattered

\* No two programs work on one tile and no tile is scattered twice: a program has
\* every NUM_SMS-th tile, and a cursor that passes one does not come back to it.
THEOREM TilesStayApart == Spec => []TilesDisjoint
<1>1. Init => TilesInv BY TilesInit
<1>2. TilesInv /\ [Next]_vars => TilesInv' BY TilesStep
<1>3. TilesInv => TilesDisjoint BY TilesApart
<1> QED BY <1>1, <1>2, <1>3, PTL DEF Spec

\* When all programs have stopped every valid row has been scattered in full: no
\* tile is skipped between the waves, whatever the loads of the experts.
THEOREM EveryRowIsScattered == Spec => []AllRowsScattered
<1>1. Init => TilesInv BY TilesInit
<1>2. TilesInv /\ [Next]_vars => TilesInv' BY TilesStep
<1>3. TilesInv => AllRowsScattered BY AllBehind
<1> QED BY <1>1, <1>2, <1>3, PTL DEF Spec

-----------------------------------------------------------------------------
(***************************************************************************)
(* l2_arrival_mask.  A bit of a block says that a warp group has done a     *)
(* column tile of the block's L1 product: it is set exactly when the tile   *)
(* is behind the cursor of the warp group whose program has it.             *)
(***************************************************************************)
Block1(e, k)  == Sum(NumM, e) + k \div NL1N
Tiles1(e) == {k \in Nat : k < NumM[e] * NL1N}
Number1(e, k) == First(NumM, e, 1) + k

MaskAre(w) ==
  \A e \in Local : \A k \in Tiles1(e) :
    <<k % NL1N, w>> \in mask[Block1(e, k)] <=> Behind(w, Number1(e, k))

Masks ==
  /\ \A b \in Pool : b \in 0 .. PoolBlocks - 1
  /\ mask \in [0 .. PoolBlocks - 1 -> SUBSET FullMask]

MaskInv == TilesInv /\ Masks /\ \A w \in WGs : MaskAre(w)

\* L1 tiles depend on the counts of tokens only.
LEMMA Tiles1Same ==
  ASSUME tokens' = tokens
  PROVE  /\ Pool' = Pool
         /\ \A e : Tiles1(e)' = Tiles1(e)
         /\ \A e, k : Block1(e, k)' = Block1(e, k)
         /\ \A e, k : Number1(e, k)' = Number1(e, k)
<1>1. NumM' = NumM BY DEF NumM
<1>2. Pool' = Pool BY <1>1 DEF Pool, Offset
<1>3. \A e : Tiles1(e)' = Tiles1(e) BY <1>1 DEF Tiles1
<1>4. \A e, k : Block1(e, k)' = Block1(e, k) BY <1>1 DEF Block1, Sum
<1>5. \A e, k : Number1(e, k)' = Number1(e, k) BY <1>1 DEF Number1, First, Sum
<1> QED BY <1>2, <1>3, <1>4, <1>5

\* A tile is of a block of the pool and has one of the columns.
LEMMA Tile1Facts ==
  ASSUME NumM \in [Padded -> Nat], NEW e \in Local, NEW k \in Tiles1(e)
  PROVE  /\ k \in Nat /\ k < NumM[e] * Width(1)
         /\ Block1(e, k) = Sum(NumM, e) + k \div Width(1)
         /\ Block1(e, k) \in Pool /\ k % NL1N = k % Width(1) /\ k % NL1N \in 0 .. NL1N - 1
<1>1. Width(1) = NL1N BY DEF Width
<1>2. k \in Nat /\ k < NumM[e] * Width(1) BY <1>1 DEF Tiles1
<1>3. Block1(e, k) = Sum(NumM, e) + k \div Width(1) BY <1>1 DEF Block1
<1> QED BY <1>1, <1>2, <1>3, TileFacts

\* The L1 tile that has a cursor's number is the one that the cursor is on.
LEMMA CursorTile1 ==
  ASSUME NumM \in [Padded -> Nat], NEW c \in Cursors, OnTile(NumM, c)
  PROVE  /\ c.phase = 1 => /\ c.cur \in Local /\ c.block \in Tiles1(c.cur)
                           /\ Number1(c.cur, c.block) = Number(NumM, c)
                           /\ MathBlock(c) = Block1(c.cur, c.block)
                           /\ NBlock(c) = c.block % NL1N
         /\ \A e \in Local : \A k \in Tiles1(e) :
              Number1(e, k) = Number(NumM, c) => c.phase = 1 /\ e = c.cur /\ k = c.block
<1>1. /\ Number(NumM, c) = TileOf(NumM, c.cur, c.phase, c.block)
      /\ c.cur \in Nat /\ c.cur < EPR /\ c.phase \in {1, 2} /\ c.block \in Nat
      /\ c.block < NumM[c.cur] * Width(c.phase)
  BY OnTileFacts
<1>2. Width(1) = NL1N BY DEF Width
<1>3. c.cur \in Local BY <1>1, Sizes DEF Local
<1>4. ASSUME c.phase = 1
      PROVE  /\ c.block \in Tiles1(c.cur) /\ Number1(c.cur, c.block) = Number(NumM, c)
             /\ MathBlock(c) = Block1(c.cur, c.block) /\ NBlock(c) = c.block % NL1N
  <2>1. c.block \in Tiles1(c.cur) /\ Number1(c.cur, c.block) = Number(NumM, c)
    BY <1>1, <1>2, <1>4 DEF Tiles1, Number1, TileOf
  <2>2. MathBlock(c) = Block1(c.cur, c.block) /\ NBlock(c) = c.block % NL1N
    BY <1>2, <1>4 DEF MathBlock, Block1, NBlock, MBlock, Offset, Sum
  <2> QED BY <2>1, <2>2
<1>5. ASSUME NEW e \in Local, NEW k \in Tiles1(e), Number1(e, k) = Number(NumM, c)
      PROVE  c.phase = 1 /\ e = c.cur /\ k = c.block
  <2>1. k \in Nat /\ k < NumM[e] * Width(1) BY <1>2 DEF Tiles1
  <2>2. TileOf(NumM, e, 1, k) = TileOf(NumM, c.cur, c.phase, c.block)
    BY <1>1, <1>5 DEF Number1, TileOf
  <2>3. e \in Nat /\ e < EPR BY Experts
  <2> QED BY <1>1, <2>1, <2>2, <2>3, TileUnique
<1> QED BY <1>3, <1>4, <1>5

\* The bits that a step leaves alone, for tiles that no cursor passes.
LEMMA MaskSame ==
  ASSUME NEW w \in WGs, MaskAre(w), tokens' = tokens,
         \A e \in Local : \A k \in Tiles1(e) :
           <<k % NL1N, w>> \in mask'[Block1(e, k)] <=> <<k % NL1N, w>> \in mask[Block1(e, k)],
         \A x : Behind(w, x)' <=> Behind(w, x)
  PROVE  MaskAre(w)'
<1>1. ASSUME NEW e \in Local, NEW k \in Tiles1(e)
      PROVE  <<k % NL1N, w>> \in mask'[Block1(e, k)'] <=> Behind(w, Number1(e, k))'
  <2>1. PICK x : x = Number1(e, k) /\ x = Number1(e, k)' BY Tiles1Same
  <2>2. Behind(w, Number1(e, k))' <=> Behind(w, x)' BY <2>1 DEF Behind
  <2>3. Block1(e, k)' = Block1(e, k) BY Tiles1Same
  <2>4. <<k % NL1N, w>> \in mask[Block1(e, k)] <=> Behind(w, x) BY <2>1 DEF MaskAre
  <2> QED BY <2>2, <2>3, <2>4
<1>2. \A e : Tiles1(e)' = Tiles1(e) BY Tiles1Same
<1> QED BY <1>1, <1>2 DEF MaskAre

\* No bit is set at first.
LEMMA MaskInit == Init => MaskInv
<1> SUFFICES ASSUME Init PROVE MaskInv
  OBVIOUS
<1>1. TilesInv BY TilesInit
<1>2. NumM \in [Padded -> Nat]
  BY <1>1, LoadsFact DEF TilesInv, PipeInv, Shaped, Loads
<1>3. \A b \in Pool : b \in 0 .. PoolBlocks - 1
  <2>1. Offset(EPR) \in Nat
    <3>1. EPR \in 0 .. Top BY TopFacts, Sizes
    <3> QED BY <1>2, <3>1, SumFacts DEF Offset, Sum
  <2>2. Offset(EPR) <= PoolBlocks /\ PoolBlocks \in Nat BY WavesAssumption DEF Init
  <2> QED BY <2>1, <2>2 DEF Pool
<1>4. mask = [b \in 0 .. PoolBlocks - 1 |-> {}] BY DEF Init
<1>5. Masks BY <1>3, <1>4 DEF Masks
<1>6. ASSUME NEW w \in WGs PROVE MaskAre(w)
  <2>1. ASSUME NEW e \in Local, NEW k \in Tiles1(e) PROVE mask[Block1(e, k)] = {}
    BY <1>2, <1>3, <1>4, Tile1Facts
  <2>2. \A x : ~Behind(w, x) BY DEF Init, Behind
  <2> QED BY <2>1, <2>2 DEF MaskAre
<1> QED BY <1>1, <1>5, <1>6 DEF MaskInv

\* Steps that set no bit.
LEMMA MaskQuiet ==
  ASSUME MaskInv, tokens' = tokens, mask' = mask,
         \A w \in WGs : \A x : Behind(w, x)' <=> Behind(w, x)
  PROVE  Masks' /\ \A w \in WGs : MaskAre(w)'
<1>1. Pool' = Pool BY Tiles1Same
<1> QED BY <1>1, MaskSame DEF MaskInv, Masks

\* The bit that a warp group sets is the one of the tile that it passes.
LEMMA MaskMultiply ==
  ASSUME MaskInv, NEW s \in SMs, NEW w \in WGs, Multiply(s, w)
  PROVE  Masks' /\ \A v \in WGs : MaskAre(v)'
<1>0. Shaped /\ NumM \in Loads /\ PipeInv BY LoadsFact DEF MaskInv, TilesInv, PipeInv, Shaped
<1>1. NumM \in [Padded -> Nat] BY <1>0 DEF Loads
<1>2. PICK c : c = math[s][w] OBVIOUS
<1>3. PICK last \in BOOLEAN : last = (c.kb + 1 = NK(c.phase)) OBVIOUS
<1>4. PICK b, n : b = MathBlock(c) /\ n = NBlock(c) OBVIOUS
<1>5. /\ tokens' = tokens
      /\ mask' = IF last /\ c.phase = 1 THEN [mask EXCEPT ![b] = @ \cup {<<n, w>>}] ELSE mask
  BY <1>2, <1>3, <1>4 DEF Multiply, Published
<1>6. /\ \A v \in WGs : v # w => \A x : Behind(v, x)' <=> Behind(v, x)
      /\ \A x : Behind(w, x)' <=> Behind(w, x) \/ (last /\ x = Number(NumM, c))
      /\ c \in Cursors /\ OnTile(NumM, c)
  BY <1>0, <1>2, <1>3, BehindMultiply
<1>7. /\ c.phase = 1 => /\ c.cur \in Local /\ c.block \in Tiles1(c.cur)
                        /\ Number1(c.cur, c.block) = Number(NumM, c)
                        /\ b = Block1(c.cur, c.block) /\ n = c.block % NL1N
      /\ \A e \in Local : \A k \in Tiles1(e) :
           Number1(e, k) = Number(NumM, c) => c.phase = 1 /\ e = c.cur /\ k = c.block
  BY <1>1, <1>4, <1>6, CursorTile1
<1>8. Masks BY DEF MaskInv
<1>9. c.phase = 1 => b \in 0 .. PoolBlocks - 1 /\ <<n, w>> \in FullMask
  BY <1>1, <1>7, <1>8, Tile1Facts DEF Masks, FullMask
<1>10. Masks'
  <2>1. Pool' = Pool BY <1>5, Tiles1Same
  <2>2. mask' \in [0 .. PoolBlocks - 1 -> SUBSET FullMask] BY <1>5, <1>8, <1>9 DEF Masks
  <2> QED BY <1>8, <2>1, <2>2 DEF Masks
<1>11. ASSUME NEW a \in Pool, NEW m, NEW v
       PROVE  <<m, v>> \in mask'[a] <=>
                <<m, v>> \in mask[a] \/ (last /\ c.phase = 1 /\ a = b /\ m = n /\ v = w)
  <2>1. a \in 0 .. PoolBlocks - 1 BY <1>8 DEF Masks
  <2>2. mask = [i \in 0 .. PoolBlocks - 1 |-> mask[i]] BY <1>8 DEF Masks
  <2>3. mask'[a] = IF last /\ c.phase = 1 /\ a = b THEN mask[a] \cup {<<n, w>>} ELSE mask[a]
    BY <1>5, <2>1, <2>2
  <2>4. <<m, v>> = <<n, w>> <=> m = n /\ v = w OBVIOUS
  <2> QED BY <2>3, <2>4
<1>12. \A e \in Local : \A k \in Tiles1(e) : Block1(e, k) \in Pool BY <1>1, Tile1Facts
<1>13. ASSUME NEW v \in WGs, v # w PROVE MaskAre(v)'
  <2>1. MaskAre(v) BY DEF MaskInv
  <2>2. \A e \in Local : \A k \in Tiles1(e) :
          <<k % NL1N, v>> \in mask'[Block1(e, k)] <=> <<k % NL1N, v>> \in mask[Block1(e, k)]
    BY <1>11, <1>12, <1>13
  <2> QED BY <1>5, <1>6, <1>13, <2>1, <2>2, MaskSame
<1>14. MaskAre(w)'
  <2>1. ASSUME NEW e \in Local, NEW k \in Tiles1(e)
        PROVE  <<k % NL1N, w>> \in mask'[Block1(e, k)'] <=> Behind(w, Number1(e, k))'
    <3>1. PICK x : x = Number1(e, k) /\ x = Number1(e, k)' BY <1>5, Tiles1Same
    <3>2. Behind(w, Number1(e, k))' <=> Behind(w, x)' BY <3>1 DEF Behind
    <3>3. Block1(e, k)' = Block1(e, k) BY <1>5, Tiles1Same
    <3>4. <<k % NL1N, w>> \in mask[Block1(e, k)] <=> Behind(w, x)
      BY <3>1 DEF MaskInv, MaskAre
    <3>5. c.phase = 1 /\ Block1(e, k) = b /\ k % NL1N = n <=> x = Number(NumM, c)
      <4>1. ASSUME c.phase = 1, Block1(e, k) = b, k % NL1N = n PROVE x = Number(NumM, c)
        <5>1. c.cur \in Local /\ c.block \in Tiles1(c.cur) BY <1>7, <4>1
        <5>2. /\ Block1(c.cur, c.block) = Sum(NumM, c.cur) + c.block \div Width(1)
              /\ c.block \in Nat /\ c.block < NumM[c.cur] * Width(1)
              /\ c.block % NL1N = c.block % Width(1)
          BY <1>1, <5>1, Tile1Facts
        <5>3. /\ Block1(e, k) = Sum(NumM, e) + k \div Width(1)
              /\ k \in Nat /\ k < NumM[e] * Width(1) /\ k % NL1N = k % Width(1)
          BY <1>1, Tile1Facts
        <5>4. /\ Sum(NumM, e) + k \div Width(1) = Sum(NumM, c.cur) + c.block \div Width(1)
              /\ k % Width(1) = c.block % Width(1)
          BY <1>7, <4>1, <5>2, <5>3
        <5>5. e = c.cur /\ k = c.block
          BY <1>1, <5>1, <5>2, <5>3, <5>4, TileByBlock
        <5> QED BY <1>7, <3>1, <4>1, <5>5
      <4>2. ASSUME x = Number(NumM, c) PROVE c.phase = 1 /\ Block1(e, k) = b /\ k % NL1N = n
        BY <1>7, <3>1, <4>2
      <4> QED BY <4>1, <4>2
    <3>6. <<k % NL1N, w>> \in mask'[Block1(e, k)] <=>
            <<k % NL1N, w>> \in mask[Block1(e, k)]
              \/ (last /\ c.phase = 1 /\ Block1(e, k) = b /\ k % NL1N = n)
      BY <1>11, <1>12
    <3>7. Behind(w, x)' <=> Behind(w, x) \/ (last /\ x = Number(NumM, c)) BY <1>6
    <3> QED BY <3>2, <3>3, <3>4, <3>5, <3>6, <3>7
  <2>2. \A e : Tiles1(e)' = Tiles1(e) BY <1>5, Tiles1Same
  <2> QED BY <2>1, <2>2 DEF MaskAre
<1> QED BY <1>10, <1>13, <1>14

\* Every step keeps the bits those of the tiles passed.
LEMMA MaskStep == MaskInv /\ [Next]_vars => MaskInv'
<1> SUFFICES ASSUME MaskInv, [Next]_vars PROVE MaskInv'
  OBVIOUS
<1>1. TilesInv' BY TilesStep DEF MaskInv
<1>2. Masks' /\ \A w \in WGs : MaskAre(w)'
  <2>1. ASSUME tokens' = tokens, mask' = mask, ready' = ready, math' = math
        PROVE  Masks' /\ \A w \in WGs : MaskAre(w)'
    <3>1. NumM' = NumM BY <2>1, TilesSame
    <3>2. \A w \in WGs : \A x : Behind(w, x)' <=> Behind(w, x)
      BY <2>1, <3>1 DEF Behind, Number, First, Sum
    <3> QED BY <2>1, <3>2, MaskQuiet
  <2>2. CASE SumsComplete \/ (\E b \in Pool : BlockArrives(b)) \/ Terminated \/ UNCHANGED vars
    BY <2>1, <2>2 DEF SumsComplete, BlockArrives, Terminated, vars
  <2>3. CASE \E s \in SMs : MetadataReady(s)
    <3>1. tokens' = tokens /\ mask' = mask BY <2>3 DEF MetadataReady
    <3>2. \A w \in WGs : \A x : Behind(w, x)' <=> Behind(w, x)
      BY <2>3, BehindReady DEF MaskInv, TilesInv
    <3> QED BY <3>1, <3>2, MaskQuiet
  <2>4. CASE \E s \in SMs : \E x \in Loaders : Load(s, x) BY <2>1, <2>4 DEF Load
  <2>5. CASE \E s \in SMs : \E w \in WGs : Multiply(s, w) BY <2>5, MaskMultiply
  <2> QED BY <2>2, <2>3, <2>4, <2>5 DEF Next
<1> QED BY <1>1, <1>2 DEF MaskInv

\* Every block of the pool has an L1 tile of every column.
LEMMA Tile1OfBlock ==
  ASSUME NumM \in [Padded -> Nat], NEW b \in Pool, NEW n \in 0 .. NL1N - 1
  PROVE  \E e \in Local : \E k \in Tiles1(e) : Block1(e, k) = b /\ k % NL1N = n
<1>1. PICK e \in Local, q \in Nat : b = Sum(NumM, e) + q /\ q < NumM[e]
  BY BlockOfExpert
<1>2. NL1N \in Nat \ {0} /\ NumM[e] \in Nat BY Experts, Sizes
<1>3. PICK k \in Nat : k = q * NL1N + n /\ k \div NL1N = q /\ k % NL1N = n /\ k < NumM[e] * NL1N
  BY <1>1, <1>2, ColumnTile
<1>4. k \in Tiles1(e) /\ Block1(e, k) = b BY <1>1, <1>3 DEF Tiles1, Block1
<1> QED BY <1>3, <1>4

\* A block has all its bits when every warp group has passed all its L1 tiles.
LEMMA FullMeansPassed ==
  ASSUME MaskInv, NEW b \in Pool
  PROVE  mask[b] = FullMask <=>
           \A e \in Local : \A k \in Tiles1(e) :
             Block1(e, k) = b => \A w \in WGs : Behind(w, Number1(e, k))
<1>1. NumM \in [Padded -> Nat]
  BY LoadsFact DEF MaskInv, TilesInv, PipeInv, Shaped, Loads
<1>2. mask[b] \in SUBSET FullMask BY DEF MaskInv, Masks
<1>3. ASSUME mask[b] = FullMask, NEW e \in Local, NEW k \in Tiles1(e), Block1(e, k) = b, NEW w \in WGs
      PROVE  Behind(w, Number1(e, k))
  <2>1. <<k % NL1N, w>> \in mask[Block1(e, k)] BY <1>1, <1>3, Tile1Facts DEF FullMask
  <2> QED BY <2>1 DEF MaskInv, MaskAre
<1>4. ASSUME \A e \in Local : \A k \in Tiles1(e) :
               Block1(e, k) = b => \A w \in WGs : Behind(w, Number1(e, k)),
             NEW n \in 0 .. NL1N - 1, NEW w \in WGs
      PROVE  <<n, w>> \in mask[b]
  <2>1. PICK e \in Local : \E k \in Tiles1(e) : Block1(e, k) = b /\ k % NL1N = n
    BY <1>1, Tile1OfBlock
  <2>2. PICK k \in Tiles1(e) : Block1(e, k) = b /\ k % NL1N = n BY <2>1
  <2>3. Behind(w, Number1(e, k)) BY <1>4, <2>2
  <2> QED BY <2>2, <2>3 DEF MaskInv, MaskAre
<1> QED BY <1>2, <1>3, <1>4 DEF FullMask

-----------------------------------------------------------------------------
(***************************************************************************)
(* What the activation loader has copied for an L2 tile is of a block whose *)
(* bits are all set, and stays so: no bit is ever reset.                    *)
(***************************************************************************)
Fed(s) ==
  /\ \A i \in 0 .. STAGES - 1 :
       LET row == slots[s]["A"][i] IN row.phase = 2 => row.at \in Pool /\ mask[row.at] = FullMask
  /\ LET c == load[s]["A"]
     IN  ~c.stop /\ c.phase = 2 /\ c.kb > 0 => mask[LoaderBlock(c)] = FullMask

FedInv == MaskInv /\ \A s \in SMs : Fed(s)

\* While a warp group multiplies a slice of an L2 tile, every L1 tile of the block
\* has been published by both warp groups, and none of any program is still at one.
L2AfterL1 ==
  \A s \in SMs, w \in WGs :
    LET c == math[s][w] IN
    ready[s] /\ ~c.stop /\ Committed(s, c.ck) /\ c.phase = 2 =>
      /\ mask[MathBlock(c)] = FullMask
      /\ \A t \in SMs, v \in WGs :
           LET d == math[t][v]
           IN  ready[t] /\ ~d.stop /\ d.phase = 1 => MathBlock(d) # MathBlock(c)

\* A loader that has started is on the path.
LEMMA LoaderOnPath ==
  ASSUME PipeInv, NEW s \in SMs, NEW x \in Loaders, counted
  PROVE  Fine(NumM, s, load[s][x])
<1>1. PICK N \in Nat : \E P \in [0 .. N -> Cursors] : Walk(s, N, P) BY DEF PipeInv, WalkInv
<1>2. PICK P \in [0 .. N -> Cursors] : Walk(s, N, P) BY <1>1
<1>3. PICK k \in 0 .. N : k = load[s][x].ck /\ load[s][x] = P[k] BY <1>2 DEF Walk, Standing
<1> QED BY <1>2, <1>3 DEF Walk, Path

\* The block that a loader's cursor on an L2 tile is at.
LEMMA LoaderTile ==
  ASSUME NumM \in [Padded -> Nat], NEW s \in SMs, NEW c, Fine(NumM, s, c), ~c.stop
  PROVE  /\ LoaderBlock(c) = MathBlock(c)
         /\ c.phase = 2 => LoaderBlock(c) \in Pool
         /\ c.phase = 1 => LoaderBlock(c) \in Pool
         /\ c \in Cursors /\ OnTile(NumM, c)
<1>1. c \in Cursors /\ OnTile(NumM, c) /\ Carried(NumM, c) BY DEF Fine, Over
<1>2. LoaderBlock(c) = MathBlock(c)
  BY <1>1 DEF LoaderBlock, MathBlock, Carried, Offset, Sum
<1>3. c.phase = 2 => MathBlock(c) \in Pool BY <1>1, CursorTile
<1>4. c.phase = 1 => MathBlock(c) \in Pool BY <1>1, CursorTile1, Tile1Facts
<1> QED BY <1>1, <1>2, <1>3, <1>4

\* Full masks stay full.
LEMMA FullStays ==
  ASSUME MaskInv, [Next]_vars
  PROVE  Pool' = Pool /\ \A b \in Pool : mask[b] = FullMask => mask'[b] = FullMask
<1>1. Pool' = Pool
  <2>1. tokens' = tokens
    BY DEF Next, SumsComplete, MetadataReady, BlockArrives, Load, Multiply, Terminated, vars
  <2> QED BY <2>1, Tiles1Same
<1>2. ASSUME NEW b \in Pool, mask[b] = FullMask PROVE mask'[b] = FullMask
  <2>1. b \in 0 .. PoolBlocks - 1 /\ mask \in [0 .. PoolBlocks - 1 -> SUBSET FullMask]
    BY DEF MaskInv, Masks
  <2>2. mask'[b] \subseteq FullMask
    <3>1. Masks' BY MaskStep DEF MaskInv
    <3>2. mask' \in [(0 .. PoolBlocks - 1)' -> SUBSET (FullMask')] BY <3>1 DEF Masks
    <3>3. FullMask' = FullMask BY DEF FullMask
    <3> QED BY <2>1, <3>2, <3>3
  <2>3. mask[b] \subseteq mask'[b]
    <3>1. CASE mask' = mask BY <3>1
    <3>2. CASE \E s \in SMs : \E w \in WGs : Multiply(s, w)
      <4>1. PICK s \in SMs, w \in WGs : Multiply(s, w) BY <3>2
      <4>2. mask' = mask \/ \E a, S : mask' = [mask EXCEPT ![a] = @ \cup S]
        BY <4>1 DEF Multiply
      <4>3. CASE \E a, S : mask' = [mask EXCEPT ![a] = @ \cup S]
        <5>1. PICK a, S : mask' = [mask EXCEPT ![a] = @ \cup S] BY <4>3
        <5> QED BY <2>1, <5>1
      <4> QED BY <4>2, <4>3
    <3> QED BY <3>1, <3>2
      DEF Next, SumsComplete, MetadataReady, BlockArrives, Load, Terminated, vars
  <2> QED BY <1>2, <2>2, <2>3
<1> QED BY <1>1, <1>2

\* The slots hold no L2 tile at first.
LEMMA FedInit == Init => FedInv
<1> SUFFICES ASSUME Init PROVE FedInv
  OBVIOUS
<1>1. MaskInv BY MaskInit
<1>2. ASSUME NEW s \in SMs PROVE Fed(s)
  <2>1. ASSUME NEW i \in 0 .. STAGES - 1 PROVE slots[s]["A"][i].phase = 0
    BY DEF Init, NoSlot, Loaders
  <2>2. load[s]["A"] = Cursor(s) BY DEF Init, Loaders
  <2>3. Cursor(s).kb = 0 BY DEF Cursor
  <2> QED BY <2>1, <2>2, <2>3 DEF Fed
<1> QED BY <1>1, <1>2 DEF FedInv

\* Steps that leave a program's loader alone.
LEMMA FedSame ==
  ASSUME FedInv, [Next]_vars, NEW s \in SMs, slots'[s]["A"] = slots[s]["A"], load'[s]["A"] = load[s]["A"]
  PROVE  Fed(s)'
<1>1. Pool' = Pool /\ FullMask' = FullMask /\ \A b \in Pool : mask[b] = FullMask => mask'[b] = FullMask
  BY FullStays DEF FedInv, FullMask
<1>2. Fed(s) BY DEF FedInv
<1>3. ASSUME NEW i \in 0 .. STAGES - 1, slots'[s]["A"][i].phase = 2
      PROVE  slots'[s]["A"][i].at \in Pool /\ mask'[slots'[s]["A"][i].at] = FullMask
  BY <1>1, <1>2, <1>3 DEF Fed
<1>4. ASSUME ~load'[s]["A"].stop, load'[s]["A"].phase = 2, load'[s]["A"].kb > 0
      PROVE  mask'[LoaderBlock(load'[s]["A"])] = FullMask
  <2>1. PICK c : c = load[s]["A"] /\ ~c.stop /\ c.phase = 2 /\ c.kb > 0 BY <1>4
  <2>2. mask[LoaderBlock(c)] = FullMask BY <1>2, <2>1 DEF Fed
  <2>3. LoaderBlock(c) \in Pool
    <3>0. Shaped /\ PipeInv BY DEF FedInv, MaskInv, TilesInv, PipeInv
    <3>1. counted
      <4>1. "A" \in Loaders BY DEF Loaders
      <4>2. ~counted => c = Cursor(s) BY <2>1, <3>0, <4>1 DEF Shaped
      <4>3. Cursor(s).kb = 0 BY DEF Cursor
      <4>4. counted \in BOOLEAN BY <3>0 DEF Shaped
      <4> QED BY <2>1, <4>2, <4>3, <4>4
    <3>2. Fine(NumM, s, c) BY <2>1, <3>0, <3>1, LoaderOnPath DEF Loaders
    <3>3. NumM \in [Padded -> Nat] BY <3>0, LoadsFact DEF Shaped, Loads
    <3> QED BY <2>1, <3>2, <3>3, LoaderTile
  <2>4. LoaderBlock(load'[s]["A"]) = LoaderBlock(c) BY <2>1 DEF LoaderBlock, MBlock, Width
  <2> QED BY <1>1, <2>2, <2>3, <2>4
<1> QED BY <1>1, <1>3, <1>4 DEF Fed, LoaderBlock, MBlock, Width, NL1N, NL2N

\* The activation loader takes the first slice of an L2 tile when the mask is full.
LEMMA FedLoad ==
  ASSUME FedInv, NEW s \in SMs, NEW x \in Loaders, Load(s, x)
  PROVE  \A t \in SMs : Fed(t)'
<1>0. Shaped /\ NumM \in Loads /\ PipeInv
  BY LoadsFact DEF FedInv, MaskInv, TilesInv, PipeInv, Shaped
<1>1. NumM \in [Padded -> Nat] BY <1>0 DEF Loads
<1>2. PICK c : c = load[s][x] OBVIOUS
<1>3. /\ counted /\ ~c.stop
      /\ x = "A" /\ c.kb = 0 => RowsReady(c)
      /\ load' = [load EXCEPT ![s][x] = Advance(c)]
      /\ tokens' = tokens /\ mask' = mask
  BY <1>2 DEF Load
<1>4. Fine(NumM, s, c) BY <1>0, <1>2, <1>3, LoaderOnPath
<1>5. LoaderBlock(c) = MathBlock(c) /\ (c.phase = 2 => LoaderBlock(c) \in Pool)
  BY <1>1, <1>3, <1>4, LoaderTile
<1>6. c \in Cursors /\ c.ck \in Nat /\ c.kb \in Nat BY <1>4 DEF Fine, Cursors
<1>7. PICK d : /\ d = Advance(c) /\ Fine(NumM, s, d)
               /\ c.kb + 1 < NK(c.phase) =>
                    d.cur = c.cur /\ d.phase = c.phase /\ d.block = c.block
               /\ ~(c.kb + 1 < NK(c.phase)) => d.kb = 0
  BY <1>0, <1>3, <1>4, AdvanceFacts
<1>8. /\ load'[s][x] = d
      /\ \A y \in Loaders : y # x => load'[s][y] = load[s][y]
      /\ \A t \in SMs : t # s => load'[t] = load[t]
  BY <1>0, <1>3, <1>7 DEF Shaped
<1>9. PICK j \in 0 .. STAGES - 1 : j = c.ck % STAGES
  <2>1. STAGES \in Nat \ {0} BY Sizes
  <2> QED BY <1>6, <2>1, Division
<1>10. /\ slots'[s][x][j] = Copied(x, c)
       /\ \A i \in 0 .. STAGES - 1 : i # j => slots'[s][x][i] = slots[s][x][i]
       /\ \A y \in Loaders : y # x => slots'[s][y] = slots[s][y]
       /\ \A t \in SMs : t # s => slots'[t] = slots[t]
  BY <1>0, <1>2, <1>9, SlotsAfter
<1>11. Next BY DEF Next
<1>12. Pool' = Pool BY <1>3, Tiles1Same
<1>13. CASE x # "A"
  <2>1. ASSUME NEW t \in SMs PROVE slots'[t]["A"] = slots[t]["A"] /\ load'[t]["A"] = load[t]["A"]
    BY <1>8, <1>10, <1>13 DEF Loaders
  <2> QED BY <1>11, <2>1, FedSame
<1>14. CASE x = "A"
  <2>1. \A t \in SMs : t # s => Fed(t)' BY <1>8, <1>10, <1>11, FedSame
  <2>2. c.phase = 2 => LoaderBlock(c) \in Pool /\ mask[LoaderBlock(c)] = FullMask
    <3>1. ASSUME c.phase = 2, c.kb = 0 PROVE mask[LoaderBlock(c)] = FullMask
      BY <1>3, <1>14, <3>1 DEF RowsReady
    <3>2. ASSUME c.phase = 2, c.kb > 0 PROVE mask[LoaderBlock(c)] = FullMask
      BY <1>2, <1>3, <1>14, <3>2 DEF FedInv, Fed
    <3> QED BY <1>5, <1>6, <3>1, <3>2
  <2>3. Copied("A", c).phase = c.phase /\ Copied("A", c).at = LoaderBlock(c) BY DEF Copied
  <2>4. ASSUME NEW i \in 0 .. STAGES - 1, slots'[s]["A"][i].phase = 2
        PROVE  slots'[s]["A"][i].at \in Pool /\ mask[slots'[s]["A"][i].at] = FullMask
    <3>1. CASE i = j BY <1>10, <1>14, <2>2, <2>3, <2>4, <3>1
    <3>2. CASE i # j
      <4>1. slots'[s]["A"][i] = slots[s]["A"][i] BY <1>10, <1>14, <3>2
      <4> QED BY <2>4, <4>1 DEF FedInv, Fed
    <3> QED BY <3>1, <3>2
  <2>5. ASSUME ~d.stop, d.phase = 2, d.kb > 0 PROVE mask[LoaderBlock(d)] = FullMask
    <3>1. d.cur = c.cur /\ d.phase = c.phase /\ d.block = c.block BY <1>7, <2>5
    <3>2. LoaderBlock(d) = MathBlock(d) BY <1>1, <1>7, <2>5, LoaderTile
    <3>3. MathBlock(d) = MathBlock(c) BY <3>1 DEF MathBlock, MBlock
    <3> QED BY <1>5, <2>2, <2>5, <3>1, <3>2, <3>3
  <2>6. Fed(s)'
    BY <1>3, <1>8, <1>12, <1>14, <2>4, <2>5
    DEF Fed, FullMask, LoaderBlock, MBlock, Width, NL1N, NL2N
  <2> QED BY <2>1, <2>6
<1> QED BY <1>13, <1>14

\* Every step leaves the loaded L2 tiles on full masks.
LEMMA FedStep == FedInv /\ [Next]_vars => FedInv'
<1> SUFFICES ASSUME FedInv, [Next]_vars PROVE FedInv'
  OBVIOUS
<1>1. MaskInv' BY MaskStep DEF FedInv
<1>2. ASSUME NEW s \in SMs PROVE Fed(s)'
  <2>1. CASE slots' = slots /\ load' = load BY <2>1, FedSame
  <2>2. CASE SumsComplete
    <3>0. Shaped /\ NumM \in Loads
      BY LoadsFact DEF FedInv, MaskInv, TilesInv, PipeInv, Shaped
    <3>1. slots' = slots /\ load'[s]["A"] = Seek(NumM, Cursor(s))
      BY <2>2 DEF SumsComplete, Loaders
    <3>2. Seek(NumM, Cursor(s)).kb = 0
      BY <3>0, CursorFacts, SeekFacts DEF Sought
    <3>3. Pool' = Pool /\ mask' = mask
      BY <2>2, Tiles1Same DEF SumsComplete
    <3>4. ASSUME NEW i \in 0 .. STAGES - 1, slots'[s]["A"][i].phase = 2
          PROVE  slots'[s]["A"][i].at \in Pool /\ mask'[slots'[s]["A"][i].at] = FullMask
      BY <3>1, <3>3, <3>4 DEF FedInv, Fed
    <3>5. ~(load'[s]["A"].kb > 0) BY <3>1, <3>2
    <3> QED BY <3>3, <3>4, <3>5 DEF Fed, FullMask
  <2>3. CASE \E t \in SMs : \E x \in Loaders : Load(t, x) BY <2>3, FedLoad
  <2> QED BY <2>1, <2>2, <2>3
    DEF Next, MetadataReady, BlockArrives, Multiply, Terminated, vars
<1> QED BY <1>1, <1>2 DEF FedInv

\* What a warp group finds in the slot of an L2 tile is of a block with all bits.
LEMMA FedAfter == FedInv => L2AfterL1
<1> SUFFICES ASSUME FedInv, NEW s \in SMs, NEW w \in WGs,
                    ready[s], ~math[s][w].stop, Committed(s, math[s][w].ck), math[s][w].phase = 2
             PROVE  /\ mask[MathBlock(math[s][w])] = FullMask
                    /\ \A t \in SMs, v \in WGs :
                         ready[t] /\ ~math[t][v].stop /\ math[t][v].phase = 1
                           => MathBlock(math[t][v]) # MathBlock(math[s][w])
  BY DEF L2AfterL1
<1>0. Shaped /\ NumM \in Loads /\ PipeInv
  BY LoadsFact DEF FedInv, MaskInv, TilesInv, PipeInv, Shaped
<1>1. NumM \in [Padded -> Nat] BY <1>0 DEF Loads
<1>2. PICK c : c = math[s][w] OBVIOUS
<1>3. PICK i \in 0 .. STAGES - 1 : i = c.ck % STAGES
  <2>1. c.ck \in Nat BY <1>0, <1>2 DEF Shaped, Cursors
  <2> QED BY <2>1, Sizes, Division
<1>4. slots[s]["A"][i] = [phase |-> c.phase, expert |-> c.cur, at |-> MathBlock(c), kb |-> c.kb]
  BY <1>0, <1>2, <1>3, PipeMatches DEF SlotsMatchTiles
<1>5. slots[s]["A"][i].phase = 2 /\ slots[s]["A"][i].at = MathBlock(c)
  BY <1>2, <1>4
<1>6. MathBlock(c) \in Pool /\ mask[MathBlock(c)] = FullMask
  BY <1>5 DEF FedInv, Fed
<1>7. ASSUME NEW t \in SMs, NEW v \in WGs, ready[t], ~math[t][v].stop, math[t][v].phase = 1,
             MathBlock(math[t][v]) = MathBlock(c)
      PROVE  FALSE
  <2>1. PICK d : d = math[t][v] OBVIOUS
  <2>2. d \in Cursors /\ OnTile(NumM, d) /\ Number(NumM, d) \in Share(t)
    <3>1. OnPath(t, d) BY <1>0, <1>7, <2>1, MathOnPath
    <3> QED BY <1>7, <2>1, <3>1 DEF OnPath, Over
  <2>3. /\ d.cur \in Local /\ d.block \in Tiles1(d.cur)
        /\ Number1(d.cur, d.block) = Number(NumM, d) /\ MathBlock(d) = Block1(d.cur, d.block)
    BY <1>1, <1>7, <2>1, <2>2, CursorTile1
  <2>4. PICK x \in Nat : x = Number(NumM, d) BY <1>1, <2>2, OnTileFacts
  <2>5. Behind(v, x)
    BY <1>6, <1>7, <2>1, <2>3, <2>4, FullMeansPassed DEF FedInv
  <2>6. PICK r \in SMs : x \in Share(r) /\ x < Number(NumM, math[r][v]) BY <2>5 DEF Behind
  <2>7. r = t BY <2>2, <2>4, <2>6, ShareApart
  <2>8. x < x BY <2>1, <2>4, <2>6, <2>7
  <2> QED BY <2>4, <2>8
<1> QED BY <1>2, <1>6, <1>7

\* No warp group multiplies an L2 tile before both warp groups of every program
\* have published the L1 tiles of its block: l2_arrival_mask orders the products.
THEOREM ProductsInOrder == Spec => []L2AfterL1
<1>1. Init => FedInv BY FedInit
<1>2. FedInv /\ [Next]_vars => FedInv' BY FedStep
<1>3. FedInv => L2AfterL1 BY FedAfter
<1> QED BY <1>1, <1>2, <1>3, PTL DEF Spec

-----------------------------------------------------------------------------
(***************************************************************************)
(* Nobody waits in a circle.  A role that is not at its end waits for       *)
(* another: the math warps for slots, the loaders for free ones, and the    *)
(* activation loader for an L1 tile, whose number is smaller than its own.  *)
(***************************************************************************)
\* Some step of a role, of the dispatch role or of the pull streams can be taken:
\* the conditions of the actions, one by one.
StepPossible ==
  \/ ~counted
  \/ \E s \in SMs : counted /\ ~ready[s]
  \/ \E b \in Pool : b \notin arrived /\ \E s \in SMs : ready[s]
  \/ \E s \in SMs, x \in Loaders :
       LET c == load[s][x]
       IN  counted /\ ~c.stop /\ (x = "A" /\ c.kb = 0 => RowsReady(c)) /\ Acquired(s, c.ck)
  \/ \E s \in SMs, w \in WGs :
       LET c == math[s][w] IN ready[s] /\ ~c.stop /\ Committed(s, c.ck)

NoDeadlock == ~Finished => StepPossible

\* Where all wait: only the rows of an L2 tile can hold a program back.
Stuck == MaskInv /\ ~StepPossible

\* Numbers do not fall along a path.
LEMMA PathRises ==
  ASSUME NumM \in Loads, NEW s \in SMs, NEW N \in Nat, NEW P \in [0 .. N -> Cursors], Path(s, N, P)
  PROVE  \A i, j \in 0 .. N : i <= j => Number(NumM, P[i]) <= Number(NumM, P[j])
<1> DEFINE falls == {j \in 0 .. N : \E i \in 0 .. j : ~(Number(NumM, P[i]) <= Number(NumM, P[j]))}
<1>1. NumM \in [Padded -> Nat] BY DEF Loads
<1>2. ASSUME NEW i \in 0 .. N PROVE Number(NumM, P[i]) \in Nat
  <2>1. Fine(NumM, s, P[i]) BY DEF Path
  <2> QED BY <1>1, <2>1, OnTileFacts, OverFacts DEF Fine
<1>3. falls = {}
  <2> SUFFICES ASSUME falls # {} PROVE FALSE
    OBVIOUS
  <2>1. falls \subseteq Nat OBVIOUS
  <2>2. PICK j \in falls : \A k \in falls : j <= k BY <2>1, NatMinimum
  <2>3. PICK i \in 0 .. j : ~(Number(NumM, P[i]) <= Number(NumM, P[j])) BY <2>2
  <2>4. i # j
    <3>1. Number(NumM, P[j]) \in Nat BY <1>2, <2>2
    <3> QED BY <2>3, <3>1
  <2>5. PICK k \in 0 .. N - 1 : j = k + 1 /\ i \in 0 .. k
    <3>1. j \in 0 .. N /\ i \in 0 .. j BY <2>2, <2>3
    <3>2. j - 1 \in 0 .. N - 1 /\ j = (j - 1) + 1 /\ i \in 0 .. j - 1 BY <2>4, <3>1
    <3> QED BY <3>2
  <2>6. k \in 0 .. N /\ k \notin falls
    <3>1. k \in 0 .. N /\ ~(j <= k) BY <2>5
    <3> QED BY <2>2, <3>1
  <2>7. Number(NumM, P[i]) <= Number(NumM, P[k]) BY <2>5, <2>6
  <2>8. Fine(NumM, s, P[k]) /\ ~P[k].stop /\ P[j] = Advance(P[k]) BY <2>5, <2>6 DEF Path
  <2>9. Number(NumM, P[j]) = Number(NumM, P[k]) \/ Number(NumM, P[j]) = Number(NumM, P[k]) + NUM_SMS
    BY <2>8, AdvanceFacts
  <2>10. i \in 0 .. N /\ j \in 0 .. N BY <2>2, <2>5
  <2>11. /\ Number(NumM, P[i]) \in Nat /\ Number(NumM, P[k]) \in Nat
         /\ Number(NumM, P[j]) \in Nat /\ NUM_SMS \in Nat
    BY <1>2, <2>6, <2>10, Sizes
  <2> QED BY <2>3, <2>7, <2>9, <2>11
<1>4. ASSUME NEW i \in 0 .. N, NEW j \in 0 .. N, i <= j
      PROVE  Number(NumM, P[i]) <= Number(NumM, P[j])
  <2>1. i \in 0 .. j BY <1>4
  <2> QED BY <1>3, <2>1
<1> QED BY <1>4

\* The pipe of a program cannot hold all its roles: a and b are how far the loaders
\* are, m and n the warp groups, N the end of the path; done says that it is the last.
LEMMA PipeGoesOn ==
  ASSUME NEW N \in Nat, NEW a \in 0 .. N, NEW b \in 0 .. N, NEW m \in 0 .. N, NEW n \in 0 .. N,
         NEW S \in Nat \ {0}, NEW done \in BOOLEAN, NEW waits \in BOOLEAN,
         (done /\ a = N) \/ a >= m + S \/ a >= n + S \/ waits,
         (done /\ b = N) \/ b >= m + S \/ b >= n + S,
         (done /\ m = N) \/ a <= m \/ b <= m,
         (done /\ n = N) \/ a <= n \/ b <= n,
         ~(done /\ a = N /\ b = N /\ m = N /\ n = N)
  PROVE  /\ ~(done /\ a = N) /\ waits
         /\ ~(done /\ m = N) => a <= m
         /\ ~(done /\ n = N) => a <= n
OBVIOUS

\* The roles of a program that cannot go on: the activation loader waits for the
\* rows of an L2 tile, and is no further than the warp groups.
LEMMA StuckProgram ==
  ASSUME Stuck, NEW s \in SMs,
         ~(/\ \A x \in Loaders : load[s][x].stop
           /\ \A w \in WGs : math[s][w].stop)
  PROVE  LET c == load[s]["A"] IN
         /\ ~c.stop /\ c.phase = 2 /\ mask[LoaderBlock(c)] # FullMask
         /\ \A w \in WGs : ~math[s][w].stop => Number(NumM, c) <= Number(NumM, math[s][w])
<1>0. Shaped /\ NumM \in Loads /\ PipeInv
  BY LoadsFact DEF Stuck, MaskInv, TilesInv, PipeInv, Shaped
<1>1. NumM \in [Padded -> Nat] BY <1>0 DEF Loads
<1>2. counted /\ \A t \in SMs : ready[t] BY DEF Stuck, StepPossible
<1>3. Pool \subseteq arrived BY <1>2 DEF Stuck, StepPossible
<1>4. PICK N \in Nat : \E P \in [0 .. N -> Cursors] : Walk(s, N, P)
  BY <1>0, <1>2 DEF PipeInv, WalkInv
<1>5. PICK P \in [0 .. N -> Cursors] : Walk(s, N, P) BY <1>4
<1>6. PICK a \in 0 .. N, b \in 0 .. N :
        /\ a = load[s]["A"].ck /\ load[s]["A"] = P[a]
        /\ b = load[s]["B"].ck /\ load[s]["B"] = P[b]
  BY <1>5 DEF Walk, Standing, Loaders
<1>7. PICK m \in 0 .. N, n \in 0 .. N :
        /\ m = math[s][0].ck /\ math[s][0] = Unpooled(P[m])
        /\ n = math[s][1].ck /\ math[s][1] = Unpooled(P[n])
  BY <1>2, <1>5 DEF Walk, Standing, WGs
<1>8. PICK done \in BOOLEAN : done = P[N].stop BY DEF Cursors
<1>9. \A i \in 0 .. N : P[i].stop <=> done /\ i = N
  <2>1. ASSUME NEW i \in 0 .. N PROVE P[i].stop <=> done /\ i = N
    <3>1. CASE i = N BY <1>8, <3>1
    <3>2. CASE i # N
      <4>1. i \in 0 .. N - 1 BY <3>2
      <4> QED BY <1>5, <3>2, <4>1 DEF Walk, Path
    <3> QED BY <3>1, <3>2
  <2> QED BY <2>1
<1>10. /\ load[s]["A"].stop <=> done /\ a = N
       /\ load[s]["B"].stop <=> done /\ b = N
       /\ math[s][0].stop <=> done /\ m = N
       /\ math[s][1].stop <=> done /\ n = N
  <2>1. Unpooled(P[m]).stop = P[m].stop /\ Unpooled(P[n]).stop = P[n].stop BY UnpooledFacts
  <2> QED BY <1>6, <1>7, <1>9, <2>1
<1>11. PICK waits \in BOOLEAN :
         waits = (load[s]["A"].kb = 0 /\ ~RowsReady(load[s]["A"]))
  OBVIOUS
<1>12. ASSUME NEW k \in 0 .. N PROVE ~Acquired(s, k) => k >= m + STAGES \/ k >= n + STAGES
  <2>1. STAGES \in Nat BY Sizes
  <2>2. /\ math[s][0].ck = m /\ math[s][1].ck = n
        /\ WGs = {0, 1} /\ k \in Nat /\ m \in Nat /\ n \in Nat
    BY <1>7 DEF WGs
  <2>3. ~(k < m + STAGES) => k >= m + STAGES BY <2>1, <2>2
  <2>4. ~(k < n + STAGES) => k >= n + STAGES BY <2>1, <2>2
  <2>5. k < m + STAGES /\ k < n + STAGES => Acquired(s, k) BY <2>2 DEF Acquired
  <2> QED BY <2>3, <2>4, <2>5
<1>13. ASSUME NEW k \in 0 .. N PROVE ~Committed(s, k) => a <= k \/ b <= k
  <2>1. load[s]["A"].ck = a /\ load[s]["B"].ck = b /\ k \in Nat /\ a \in Nat /\ b \in Nat
    BY <1>6
  <2>2. k < a /\ k < b => Committed(s, k) BY <2>1 DEF Committed, Loaders
  <2> QED BY <2>1, <2>2
<1>14. (done /\ a = N) \/ a >= m + STAGES \/ a >= n + STAGES \/ waits
  <2>1. load[s]["A"].stop \/ waits \/ ~Acquired(s, a)
    BY <1>2, <1>6, <1>11 DEF Stuck, StepPossible, Loaders
  <2> QED BY <1>10, <1>12, <2>1
<1>15. (done /\ b = N) \/ b >= m + STAGES \/ b >= n + STAGES
  <2>1. load[s]["B"].stop \/ ~Acquired(s, b)
    BY <1>2, <1>6 DEF Stuck, StepPossible, Loaders
  <2> QED BY <1>10, <1>12, <2>1
<1>16. (done /\ m = N) \/ a <= m \/ b <= m
  <2>1. math[s][0].stop \/ ~Committed(s, m)
    BY <1>2, <1>7 DEF Stuck, StepPossible, WGs
  <2> QED BY <1>10, <1>13, <2>1
<1>17. (done /\ n = N) \/ a <= n \/ b <= n
  <2>1. math[s][1].stop \/ ~Committed(s, n)
    BY <1>2, <1>7 DEF Stuck, StepPossible, WGs
  <2> QED BY <1>10, <1>13, <2>1
<1>18. ~(done /\ a = N /\ b = N /\ m = N /\ n = N) BY <1>10 DEF Loaders, WGs
<1>19. /\ ~(done /\ a = N) /\ waits
       /\ ~(done /\ m = N) => a <= m
       /\ ~(done /\ n = N) => a <= n
  <2>1. STAGES \in Nat \ {0} BY Sizes
  <2> QED BY <1>14, <1>15, <1>16, <1>17, <1>18, <2>1, PipeGoesOn
<1>20. PICK c : c = load[s]["A"] /\ c = P[a] BY <1>6
<1>21. ~c.stop /\ Fine(NumM, s, c) /\ ~RowsReady(c)
  BY <1>5, <1>10, <1>11, <1>19, <1>20 DEF Walk, Path
<1>22. c.phase = 2 /\ mask[LoaderBlock(c)] # FullMask
  <2>1. c.phase \in {1, 2} BY <1>21 DEF Fine, Cursors
  <2>2. c.phase = 1 => LoaderBlock(c) \in Pool BY <1>1, <1>21, LoaderTile
  <2> QED BY <1>3, <1>21, <2>1, <2>2 DEF RowsReady
<1>23. ASSUME NEW w \in WGs, ~math[s][w].stop
       PROVE  Number(NumM, c) <= Number(NumM, math[s][w])
  <2>1. PICK k \in 0 .. N : math[s][w] = Unpooled(P[k]) /\ a <= k
    BY <1>7, <1>10, <1>19, <1>23 DEF WGs
  <2>2. Number(NumM, P[a]) <= Number(NumM, P[k]) BY <1>0, <1>5, <2>1, PathRises DEF Walk
  <2>3. Number(NumM, Unpooled(P[k])) = Number(NumM, P[k])
    BY <1>5, FineOnPath DEF Walk, Path
  <2> QED BY <1>20, <2>1, <2>2, <2>3
<1> QED BY <1>20, <1>21, <1>22, <1>23

\* An L2 tile whose block has a bit missing waits for a tile with a smaller number,
\* which a warp group of some program has still to pass.
LEMMA TileInFront ==
  ASSUME MaskInv, NEW s \in SMs, NEW c, Fine(NumM, s, c), ~c.stop, c.phase = 2,
         mask[LoaderBlock(c)] # FullMask, \A t \in SMs : ready[t]
  PROVE  \E t \in SMs : \E w \in WGs :
           ~math[t][w].stop /\ Number(NumM, math[t][w]) < Number(NumM, c)
<1>0. Shaped /\ NumM \in Loads /\ PipeInv
  BY LoadsFact DEF MaskInv, TilesInv, PipeInv, Shaped
<1>1. NumM \in [Padded -> Nat] BY <1>0 DEF Loads
<1>2. /\ LoaderBlock(c) = MathBlock(c) /\ LoaderBlock(c) \in Pool
      /\ c \in Cursors /\ OnTile(NumM, c)
  BY <1>1, LoaderTile
<1>3. /\ c.cur \in Local /\ c.block \in Tiles2(c.cur) /\ Number2(c.cur, c.block) = Number(NumM, c)
      /\ MathBlock(c) = BlockAt(c.cur, c.block)
  BY <1>1, <1>2, CursorTile
<1>4. PICK e \in Local : \E k \in Tiles1(e) :
         Block1(e, k) = LoaderBlock(c) /\ \E w \in WGs : ~Behind(w, Number1(e, k))
  BY <1>2, FullMeansPassed
<1>5. PICK k \in Tiles1(e) :
         Block1(e, k) = LoaderBlock(c) /\ \E w \in WGs : ~Behind(w, Number1(e, k))
  BY <1>4
<1>6. PICK w \in WGs : ~Behind(w, Number1(e, k)) BY <1>5
<1>7. e = c.cur
  <2>1. PICK b \in Nat : b = LoaderBlock(c) BY <1>2 DEF Pool
  <2>2. /\ k \in Nat /\ k < NumM[e] * Width(1) /\ Block1(e, k) = Sum(NumM, e) + k \div Width(1)
    BY <1>1, Tile1Facts
  <2>3. Sum(NumM, e) <= b /\ b < Sum(NumM, e + 1) BY <1>1, <1>5, <2>1, <2>2, TileFacts
  <2>4. Width(2) = NL2N BY DEF Width
  <2>5. /\ c.block \in Nat /\ c.block < NumM[c.cur] * Width(2)
        /\ BlockAt(c.cur, c.block) = Sum(NumM, c.cur) + c.block \div Width(2)
    BY <1>3, <2>4 DEF Tiles2, BlockAt
  <2>6. Sum(NumM, c.cur) <= b /\ b < Sum(NumM, c.cur + 1)
    BY <1>1, <1>2, <1>3, <2>1, <2>5, TileFacts
  <2> QED BY <1>1, <1>3, <2>1, <2>3, <2>6, ExpertUnique
<1>8. Number1(e, k) \in Nat /\ Number1(e, k) < Number(NumM, c)
  <2>1. First(NumM, e, 1) + NumM[e] * NL1N <= First(NumM, e, 2) BY <1>1, Experts, TilesOfExpert
  <2>2. First(NumM, e, 1) \in Nat /\ First(NumM, e, 2) \in Nat BY <1>1, Experts, FirstNat
  <2>3. NumM[e] * NL1N \in Nat
    <3>1. NumM[e] \in Nat BY <1>1, Experts
    <3> QED BY <3>1, Products, Sizes
  <2>4. k \in Nat /\ k < NumM[e] * NL1N /\ c.block \in Nat BY <1>3 DEF Tiles1, Tiles2
  <2>5. Number(NumM, c) = First(NumM, e, 2) + c.block BY <1>3, <1>7 DEF Number2
  <2> QED BY <2>1, <2>2, <2>3, <2>4, <2>5 DEF Number1
<1>9. PICK t \in SMs : Number1(e, k) \in Share(t) BY <1>8, ShareTotal
<1>10. PICK d : d = math[t][w] OBVIOUS
<1>11. ~(Number1(e, k) < Number(NumM, d)) BY <1>6, <1>9, <1>10 DEF Behind
<1>12. OnPath(t, d) BY <1>0, <1>10, MathOnPath
<1>13. Number(NumM, d) \in Nat BY <1>1, <1>12, OnTileFacts, OverFacts DEF OnPath
<1>14. Number(NumM, c) \in Nat /\ Number(NumM, c) < First(NumM, Top, 1)
  BY <1>1, <1>2, OnTileFacts
<1>15. Number(NumM, d) < Number(NumM, c) BY <1>8, <1>11, <1>13, <1>14
<1>16. ~d.stop
  <2>1. ASSUME d.stop PROVE FALSE
    <3>1. d \in Cursors /\ Over(d) BY <1>12, <2>1 DEF OnPath, OnTile
    <3>2. Number(NumM, d) >= First(NumM, Top, 1) /\ First(NumM, Top, 1) \in Nat
      BY <1>1, <3>1, OverFacts
    <3> QED BY <1>13, <1>14, <1>15, <3>2
  <2> QED BY <2>1
<1> QED BY <1>10, <1>15, <1>16

\* The program with the smallest number at its loader cannot wait for another.
LEMMA SomeoneGoesOn == MaskInv => NoDeadlock
<1> SUFFICES ASSUME Stuck, ~Finished PROVE FALSE
  BY DEF NoDeadlock, Stuck
<1>0. Shaped /\ NumM \in Loads /\ PipeInv /\ MaskInv
  BY LoadsFact DEF Stuck, MaskInv, TilesInv, PipeInv, Shaped
<1>1. NumM \in [Padded -> Nat] BY <1>0 DEF Loads
<1>2. counted /\ \A t \in SMs : ready[t] BY DEF Stuck, StepPossible
<1> DEFINE waiting == {t \in SMs : ~load[t]["A"].stop}
           numbers == {Number(NumM, load[t]["A"]) : t \in waiting}
<1>3. ASSUME NEW t \in waiting PROVE Fine(NumM, t, load[t]["A"]) /\ Number(NumM, load[t]["A"]) \in Nat
  <2>1. Fine(NumM, t, load[t]["A"]) BY <1>0, <1>2, LoaderOnPath DEF Loaders
  <2> QED BY <1>1, <2>1, OnTileFacts, OverFacts DEF Fine
<1>4. waiting # {}
  <2>1. PICK s \in SMs : ~(/\ \A x \in Loaders : load[s][x].stop
                           /\ \A w \in WGs : math[s][w].stop)
    BY DEF Finished
  <2> QED BY <2>1, StuckProgram
<1>5. PICK s \in waiting : \A t \in waiting :
         Number(NumM, load[s]["A"]) <= Number(NumM, load[t]["A"])
  <2>1. numbers \subseteq Nat /\ numbers # {} BY <1>3, <1>4
  <2>2. PICK x \in numbers : \A y \in numbers : x <= y BY <2>1, NatMinimum
  <2> QED BY <2>2
<1>6. PICK c : c = load[s]["A"] OBVIOUS
<1>7. ~c.stop /\ c.phase = 2 /\ mask[LoaderBlock(c)] # FullMask
  <2>1. ~(\A x \in Loaders : load[s][x].stop) BY DEF Loaders
  <2> QED BY <1>6, <2>1, StuckProgram
<1>8. PICK t \in SMs, w \in WGs : ~math[t][w].stop /\ Number(NumM, math[t][w]) < Number(NumM, c)
  BY <1>0, <1>2, <1>3, <1>6, <1>7, TileInFront
<1>9. t \in waiting /\ Number(NumM, load[t]["A"]) <= Number(NumM, math[t][w])
  BY <1>8, StuckProgram
<1>10. Number(NumM, math[t][w]) \in Nat
  <2>1. OnPath(t, math[t][w]) BY <1>0, <1>2, MathOnPath
  <2> QED BY <1>1, <2>1, OnTileFacts, OverFacts DEF OnPath
<1> QED BY <1>3, <1>5, <1>6, <1>8, <1>9, <1>10

\* Until every role of every program has stopped some step can be taken: neither the
\* pipes nor the L2 tiles' wait for L1 tiles of other programs close a circle.
THEOREM RolesNeverDeadlock == Spec => []NoDeadlock
<1>1. Init => MaskInv BY MaskInit
<1>2. MaskInv /\ [Next]_vars => MaskInv' BY MaskStep
<1>3. MaskInv => NoDeadlock BY SomeoneGoesOn
<1> QED BY <1>1, <1>2, <1>3, PTL DEF Spec

-----------------------------------------------------------------------------
(***************************************************************************)
(* Every step is progress.  What a role has in front of it is a natural    *)
(* number, which its own steps make smaller and no step makes larger.      *)
(***************************************************************************)
Ahead(c) == (First(NumM, Top, 1) + NUM_SMS - Number(NumM, c)) * (NK1 + NK2) - c.kb

Finite ==
  /\ arrived \subseteq Pool
  /\ \A s \in SMs : /\ \A x \in Loaders : Ahead(load[s][x]) \in Nat
                    /\ \A w \in WGs : Ahead(math[s][w]) \in Nat

Forward ==
  /\ tokens' = tokens /\ (counted => counted') /\ arrived \subseteq arrived'
  /\ \A s \in SMs : /\ ready[s] => ready'[s]
                    /\ \A x \in Loaders : Ahead(load'[s][x]) <= Ahead(load[s][x])
                    /\ \A w \in WGs : Ahead(math'[s][w]) <= Ahead(math[s][w])
  /\ \/ ~counted /\ counted'
     \/ arrived' # arrived
     \/ \E s \in SMs : \/ ready'[s] # ready[s]
                       \/ \E x \in Loaders : Ahead(load'[s][x]) < Ahead(load[s][x])
                       \/ \E w \in WGs : Ahead(math'[s][w]) < Ahead(math[s][w])

\* A cursor is less than one stride beyond the last tile.
Near(c) ==
  /\ Number(NumM, c) \in Nat /\ Number(NumM, c) < First(NumM, Top, 1) + NUM_SMS
  /\ c.kb \in Nat /\ c.kb < NK1 + NK2

NearInv ==
  /\ PipeInv /\ arrived \subseteq Pool
  /\ \A s \in SMs : /\ \A x \in Loaders : Near(load[s][x])
                    /\ \A w \in WGs : Near(math[s][w])

\* What is left is a natural number.
LEMMA NearAhead ==
  ASSUME NumM \in [Padded -> Nat], NEW c, Near(c)
  PROVE  Ahead(c) \in Nat
<1>1. PICK f \in Nat, m \in Nat, n \in Nat, k \in Nat, j \in Nat :
        /\ f = First(NumM, Top, 1) /\ m = NUM_SMS /\ n = Number(NumM, c) /\ k = NK1 + NK2 /\ j = c.kb
  <2>1. First(NumM, Top, 1) \in Nat
    <3>1. Top \in 0 .. Top BY TopFacts
    <3> QED BY <3>1, FirstNat
  <2>2. PICK f \in Nat, m \in Nat, k \in Nat :
          f = First(NumM, Top, 1) /\ m = NUM_SMS /\ k = NK1 + NK2
    BY <2>1, Sizes
  <2>3. PICK n \in Nat, j \in Nat : n = Number(NumM, c) /\ j = c.kb BY DEF Near
  <2> QED BY <2>2, <2>3
<1>2. n < f + m /\ j < k BY <1>1 DEF Near
<1>3. PICK u \in Nat : u = f + m - n /\ 1 <= u BY <1>2
<1>4. k * 1 <= k * u BY <1>3, Order
<1>5. u * k \in Nat /\ u * k = k * u BY Products
<1>6. u * k - j \in Nat BY <1>2, <1>4, <1>5
<1>7. Ahead(c) = u * k - j BY <1>1, <1>3 DEF Ahead
<1> QED BY <1>6, <1>7

\* The next slice and the next tile leave less.
LEMMA NextAhead ==
  ASSUME NumM \in [Padded -> Nat], NEW c, Near(c), NEW d, NEW last \in BOOLEAN,
         last => Number(NumM, c) < First(NumM, Top, 1),
         Number(NumM, d) = Number(NumM, c) + (IF last THEN NUM_SMS ELSE 0),
         d.kb = IF last THEN 0 ELSE c.kb + 1, ~last => c.kb + 1 < NK1 + NK2
  PROVE  Near(d) /\ Ahead(d) < Ahead(c)
<1>1. PICK r \in Nat, n \in Nat, k \in Nat, j \in Nat, m \in Nat \ {0}, f \in Nat :
        /\ r = f + m /\ f = First(NumM, Top, 1) /\ n = Number(NumM, c) /\ k = NK1 + NK2 /\ j = c.kb
        /\ m = NUM_SMS
  <2>1. First(NumM, Top, 1) \in Nat
    <3>1. Top \in 0 .. Top BY TopFacts
    <3> QED BY <3>1, FirstNat
  <2>2. PICK f \in Nat, m \in Nat \ {0}, k \in Nat :
          f = First(NumM, Top, 1) /\ m = NUM_SMS /\ k = NK1 + NK2
    BY <2>1, Sizes
  <2>3. PICK n \in Nat, j \in Nat : n = Number(NumM, c) /\ j = c.kb BY DEF Near
  <2>4. f + m \in Nat OBVIOUS
  <2> QED BY <2>2, <2>3, <2>4
<1>2. n < r /\ j < k /\ k > 0 BY <1>1 DEF Near
<1>3. PICK u \in Nat : u = r - n /\ 1 <= u BY <1>2
<1>4. Ahead(c) = u * k - j BY <1>1, <1>3 DEF Ahead
<1>5. CASE last
  <2>1. Number(NumM, d) = n + m /\ d.kb = 0 /\ n < f BY <1>1, <1>5
  <2>2. Near(d) BY <1>1, <1>2, <2>1 DEF Near
  <2>3. PICK v \in Nat : v = r - (n + m) /\ v + m = u BY <1>1, <1>3, <2>1
  <2>4. Ahead(d) = v * k - 0 BY <1>1, <2>1, <2>3 DEF Ahead
  <2>5. v * k + k <= u * k
    <3>1. v + 1 \in Nat /\ v + 1 <= u BY <2>3
    <3>2. (v + 1) * k <= u * k BY <3>1, Order
    <3>3. (v + 1) * k = v * k + k OBVIOUS
    <3> QED BY <3>2, <3>3
  <2>6. v * k \in Nat /\ u * k \in Nat BY Products
  <2> QED BY <1>2, <1>4, <2>2, <2>4, <2>5, <2>6
<1>6. CASE ~last
  <2>1. Number(NumM, d) = n /\ d.kb = j + 1 /\ j + 1 < k BY <1>1, <1>6
  <2>2. Near(d) BY <1>1, <1>2, <2>1 DEF Near
  <2>3. Ahead(d) = u * k - (j + 1) BY <1>1, <1>3, <2>1 DEF Ahead
  <2>4. u * k \in Nat BY Products
  <2> QED BY <1>4, <2>2, <2>3, <2>4
<1> QED BY <1>5, <1>6

\* Cursors of the same number and slice have the same in front of them.
LEMMA SameAhead ==
  ASSUME NEW c, NEW d, Near(c), Number(NumM, d) = Number(NumM, c), d.kb = c.kb
  PROVE  Near(d) /\ Ahead(d) = Ahead(c)
BY DEF Near, Ahead

\* The measures depend on the counts of tokens only.
LEMMA AheadSame ==
  ASSUME tokens' = tokens
  PROVE  /\ \A c : Near(c)' <=> Near(c)
         /\ Pool' = Pool
<1>1. NumM' = NumM BY DEF NumM
<1>2. \A c : Near(c)' <=> Near(c) BY <1>1 DEF Near, Number, First, Sum
<1> QED BY <1>2, Tiles1Same

\* The cursors after a step, which leaves the counts of tokens alone.
LEMMA NearAgain ==
  ASSUME tokens' = tokens, PipeInv', arrived' \subseteq Pool,
         \A t \in SMs, x \in Loaders : Near(load'[t][x]),
         \A t \in SMs, w \in WGs : Near(math'[t][w])
  PROVE  NearInv'
<1>1. \A a : Near(a)' <=> Near(a) BY AheadSame
<1>2. Pool' = Pool BY AheadSame
<1>3. ASSUME NEW t \in SMs, NEW x \in Loaders PROVE Near(load[t][x])'
  <2>1. PICK a : a = load'[t][x] /\ Near(a) OBVIOUS
  <2>2. Near(a)' BY <1>1, <2>1
  <2> QED BY <2>1, <2>2 DEF Near
<1>4. ASSUME NEW t \in SMs, NEW w \in WGs PROVE Near(math[t][w])'
  <2>1. PICK a : a = math'[t][w] /\ Near(a) OBVIOUS
  <2>2. Near(a)' BY <1>1, <2>1
  <2> QED BY <2>1, <2>2 DEF Near
<1> QED BY <1>2, <1>3, <1>4 DEF NearInv

\* The first cursors.
LEMMA NearFirst ==
  ASSUME NumM \in Loads, NEW s \in SMs
  PROVE  /\ Near(Cursor(s)) /\ Near(Seek(NumM, Cursor(s))) /\ Near(Unpooled(Seek(NumM, Cursor(s))))
         /\ Ahead(Seek(NumM, Cursor(s))) = Ahead(Cursor(s))
         /\ Ahead(Unpooled(Seek(NumM, Cursor(s)))) = Ahead(Cursor(s))
<1>1. NumM \in [Padded -> Nat] BY DEF Loads
<1>2. /\ Cursor(s) \in Cursors /\ Entry(Cursor(s)) /\ Cursor(s).kb = 0 /\ Number(NumM, Cursor(s)) = s
  BY CursorFacts
<1>3. Near(Cursor(s))
  <2>1. First(NumM, Top, 1) \in Nat
    <3>1. Top \in 0 .. Top BY TopFacts
    <3> QED BY <1>1, <3>1, FirstNat
  <2>2. s \in Nat /\ s < NUM_SMS BY Sizes DEF SMs
  <2> QED BY <1>2, <2>1, <2>2, Sizes DEF Near
<1>4. PICK p : p = Seek(NumM, Cursor(s)) /\ Fine(NumM, s, p) /\ Sought(NumM, Cursor(s), p)
  BY <1>2, FirstFine, SeekFacts
<1>5. Number(NumM, p) = Number(NumM, Cursor(s)) /\ p.kb = Cursor(s).kb BY <1>4 DEF Sought
<1>6. PICK u : u = Unpooled(p) /\ Number(NumM, u) = Number(NumM, p) /\ u.kb = p.kb
  BY <1>4, FineOnPath, UnpooledFacts DEF Fine
<1>7. Near(p) /\ Ahead(p) = Ahead(Cursor(s)) BY <1>3, <1>5, SameAhead
<1>8. Near(u) /\ Ahead(u) = Ahead(p) BY <1>6, <1>7, SameAhead
<1> QED BY <1>3, <1>4, <1>6, <1>7, <1>8

\* At first.
LEMMA NearInit == Init => NearInv
<1> SUFFICES ASSUME Init PROVE NearInv
  OBVIOUS
<1>1. PipeInv BY PipeInit
<1>2. NumM \in Loads BY <1>1, LoadsFact DEF PipeInv, Shaped
<1>3. ASSUME NEW s \in SMs
      PROVE  /\ \A x \in Loaders : load[s][x] = Cursor(s)
             /\ \A w \in WGs : math[s][w] = Cursor(s)
  BY DEF Init
<1>4. arrived = {} BY DEF Init
<1> QED BY <1>1, <1>2, <1>3, <1>4, NearFirst DEF NearInv

\* A step of a loader.
LEMMA NearLoad ==
  ASSUME NearInv, NEW s \in SMs, NEW x \in Loaders, Load(s, x)
  PROVE  Forward /\ NearInv'
<1>0. Shaped /\ NumM \in Loads /\ PipeInv BY LoadsFact DEF NearInv, PipeInv, Shaped
<1>1. NumM \in [Padded -> Nat] BY <1>0 DEF Loads
<1>2. PICK c : c = load[s][x] OBVIOUS
<1>3. /\ counted /\ ~c.stop /\ load' = [load EXCEPT ![s][x] = Advance(c)]
      /\ tokens' = tokens /\ counted' = counted /\ ready' = ready /\ arrived' = arrived /\ math' = math
  BY <1>2 DEF Load
<1>4. Fine(NumM, s, c) /\ Near(c) BY <1>0, <1>2, <1>3, LoaderOnPath DEF NearInv
<1>5. PICK last \in BOOLEAN : last = ~(c.kb + 1 < NK(c.phase)) OBVIOUS
<1>6. PICK d : /\ d = Advance(c)
               /\ Number(NumM, d) = Number(NumM, c) + (IF last THEN NUM_SMS ELSE 0)
               /\ d.kb = IF last THEN 0 ELSE c.kb + 1
  <2>1. Number(NumM, c) \in Nat BY <1>4 DEF Near
  <2>2. PICK d : d = Advance(c) OBVIOUS
  <2>3. /\ c.kb + 1 < NK(c.phase) => Number(NumM, d) = Number(NumM, c) /\ d.kb = c.kb + 1
        /\ ~(c.kb + 1 < NK(c.phase)) => Number(NumM, d) = Number(NumM, c) + NUM_SMS /\ d.kb = 0
    BY <1>0, <1>3, <1>4, <2>2, AdvanceFacts
  <2>4. Number(NumM, c) = Number(NumM, c) + 0 BY <2>1
  <2>5. CASE last BY <1>5, <2>2, <2>3, <2>5
  <2>6. CASE ~last BY <1>5, <2>2, <2>3, <2>4, <2>6
  <2> QED BY <2>5, <2>6
<1>7. Near(d) /\ Ahead(d) < Ahead(c)
  <2>1. Number(NumM, c) < First(NumM, Top, 1)
    <3>1. c \in Cursors /\ OnTile(NumM, c) BY <1>3, <1>4 DEF Fine, Over
    <3> QED BY <1>1, <3>1, OnTileFacts
  <2>2. ~last => c.kb + 1 < NK1 + NK2
    <3>1. NK1 \in Nat /\ NK2 \in Nat BY Sizes
    <3>2. c.kb \in Nat BY <1>4 DEF Near
    <3>3. c.kb + 1 < NK1 \/ c.kb + 1 < NK2 => c.kb + 1 < NK1 + NK2 BY <3>1, <3>2
    <3>4. ~last => c.kb + 1 < NK1 \/ c.kb + 1 < NK2 BY <1>5 DEF NK
    <3> QED BY <3>3, <3>4
  <2>3. last => Number(NumM, c) < First(NumM, Top, 1) BY <2>1
  <2>4. d.kb = (IF last THEN 0 ELSE c.kb + 1) BY <1>6
  <2>5. Number(NumM, d) = Number(NumM, c) + (IF last THEN NUM_SMS ELSE 0) BY <1>6
  <2> QED BY <1>1, <1>4, <2>2, <2>3, <2>4, <2>5, NextAhead
<1>8. /\ load'[s][x] = d
      /\ \A y \in Loaders : y # x => load'[s][y] = load[s][y]
      /\ \A t \in SMs : t # s => load'[t] = load[t]
  BY <1>0, <1>3, <1>6 DEF Shaped
<1>9. \A t \in SMs, y \in Loaders : load'[t][y] = load[t][y] \/ (t = s /\ y = x /\ load'[t][y] = d)
  BY <1>8
<1>10. \A t \in SMs : /\ \A y \in Loaders : Ahead(load[t][y]) \in Nat
                      /\ \A w \in WGs : Ahead(math[t][w]) \in Nat
  BY <1>1, NearAhead DEF NearInv
<1>11. Ahead(d) \in Nat BY <1>1, <1>7, NearAhead
<1>12. \A t \in SMs, y \in Loaders : Ahead(load'[t][y]) <= Ahead(load[t][y]) /\ Near(load'[t][y])
  <2>1. ASSUME NEW t \in SMs, NEW y \in Loaders
        PROVE  Ahead(load'[t][y]) <= Ahead(load[t][y]) /\ Near(load'[t][y])
    <3>1. CASE load'[t][y] = load[t][y] BY <1>10, <3>1 DEF NearInv
    <3>2. CASE t = s /\ y = x /\ load'[t][y] = d
      BY <1>2, <1>7, <1>10, <1>11, <3>2
    <3> QED BY <1>9, <3>1, <3>2
  <2> QED BY <2>1
<1>13. Forward
  <2>1. Ahead(load'[s][x]) < Ahead(load[s][x]) BY <1>2, <1>7, <1>8
  <2>2. \A t \in SMs, w \in WGs : Ahead(math'[t][w]) <= Ahead(math[t][w]) BY <1>3, <1>10
  <2> QED BY <1>3, <1>12, <2>1, <2>2 DEF Forward
<1>14. \A t \in SMs, w \in WGs : Near(math'[t][w]) BY <1>3 DEF NearInv
<1>15. PipeInv' BY <1>0, LoadStep
<1> QED BY <1>3, <1>12, <1>13, <1>14, <1>15, NearAgain DEF NearInv

\* A step of a math warp group.
LEMMA NearMultiply ==
  ASSUME NearInv, NEW s \in SMs, NEW w \in WGs, Multiply(s, w)
  PROVE  Forward /\ NearInv'
<1>0. Shaped /\ NumM \in Loads /\ PipeInv BY LoadsFact DEF NearInv, PipeInv, Shaped
<1>1. NumM \in [Padded -> Nat] BY <1>0 DEF Loads
<1>2. PICK c : c = math[s][w] OBVIOUS
<1>3. /\ ready[s] /\ ~c.stop
      /\ tokens' = tokens /\ counted' = counted /\ ready' = ready /\ arrived' = arrived /\ load' = load
  BY <1>2 DEF Multiply
<1>4. OnPath(s, c) /\ Near(c) BY <1>0, <1>2, <1>3, MathOnPath DEF NearInv
<1>5. PICK last \in BOOLEAN : last = (c.kb + 1 = NK(c.phase)) OBVIOUS
<1>6. PICK d : /\ d = math'[s][w]
               /\ Number(NumM, d) = Number(NumM, c) + (IF last THEN NUM_SMS ELSE 0)
               /\ d.kb = IF last THEN 0 ELSE c.kb + 1
  <2>1. /\ Number(NumM, math'[s][w]) =
             Number(NumM, c) + (IF c.kb + 1 = NK(c.phase) THEN NUM_SMS ELSE 0)
        /\ math'[s][w].kb = IF c.kb + 1 = NK(c.phase) THEN 0 ELSE c.kb + 1
    BY <1>0, <1>2, MathGoesOn
  <2> QED BY <1>5, <2>1
<1>7. Near(d) /\ Ahead(d) < Ahead(c)
  <2>0. c \in Cursors /\ OnTile(NumM, c) BY <1>3, <1>4 DEF OnPath, Over
  <2>1. Number(NumM, c) < First(NumM, Top, 1) BY <1>1, <2>0, OnTileFacts
  <2>2. ~last => c.kb + 1 < NK1 + NK2
    <3>1. NK1 \in Nat /\ NK2 \in Nat /\ NK1 > 0 /\ NK2 > 0 BY Sizes
    <3>2. c.kb \in Nat /\ c.kb < NK(c.phase) BY <1>3, <1>4, <2>0 DEF OnPath, Cursors
    <3>3. ~last => c.kb + 1 # NK(c.phase) BY <1>5
    <3>4. NK(c.phase) = NK1 \/ NK(c.phase) = NK2 BY DEF NK
    <3> QED BY <3>1, <3>2, <3>3, <3>4
  <2>3. last => Number(NumM, c) < First(NumM, Top, 1) BY <2>1
  <2>4. d.kb = (IF last THEN 0 ELSE c.kb + 1) BY <1>6
  <2>5. Number(NumM, d) = Number(NumM, c) + (IF last THEN NUM_SMS ELSE 0) BY <1>6
  <2> QED BY <1>1, <1>4, <2>2, <2>3, <2>4, <2>5, NextAhead
<1>8. /\ \A v \in WGs : v # w => math'[s][v] = math[s][v]
      /\ \A t \in SMs : t # s => math'[t] = math[t]
  BY <1>0, MathGoesOn
<1>9. \A t \in SMs, v \in WGs : math'[t][v] = math[t][v] \/ (t = s /\ v = w /\ math'[t][v] = d)
  BY <1>6, <1>8
<1>10. \A t \in SMs : /\ \A x \in Loaders : Ahead(load[t][x]) \in Nat
                      /\ \A v \in WGs : Ahead(math[t][v]) \in Nat
  BY <1>1, NearAhead DEF NearInv
<1>11. Ahead(d) \in Nat BY <1>1, <1>7, NearAhead
<1>12. \A t \in SMs, v \in WGs : Ahead(math'[t][v]) <= Ahead(math[t][v]) /\ Near(math'[t][v])
  <2>1. ASSUME NEW t \in SMs, NEW v \in WGs
        PROVE  Ahead(math'[t][v]) <= Ahead(math[t][v]) /\ Near(math'[t][v])
    <3>1. CASE math'[t][v] = math[t][v] BY <1>10, <3>1 DEF NearInv
    <3>2. CASE t = s /\ v = w /\ math'[t][v] = d BY <1>2, <1>7, <1>10, <1>11, <3>2
    <3> QED BY <1>9, <3>1, <3>2
  <2> QED BY <2>1
<1>13. Forward
  <2>1. Ahead(math'[s][w]) < Ahead(math[s][w]) BY <1>2, <1>6, <1>7
  <2>2. \A t \in SMs, x \in Loaders : Ahead(load'[t][x]) <= Ahead(load[t][x]) BY <1>3, <1>10
  <2> QED BY <1>3, <1>12, <2>1, <2>2 DEF Forward
<1>14. \A t \in SMs, x \in Loaders : Near(load'[t][x]) BY <1>3 DEF NearInv
<1>15. PipeInv' BY <1>0, MultiplyStep
<1> QED BY <1>3, <1>12, <1>13, <1>14, <1>15, NearAgain DEF NearInv

\* The counts are complete: the loaders' cursors keep their numbers.
LEMMA NearSums ==
  ASSUME NearInv, SumsComplete
  PROVE  Forward /\ NearInv'
<1>0. Shaped /\ NumM \in Loads /\ PipeInv BY LoadsFact DEF NearInv, PipeInv, Shaped
<1>1. NumM \in [Padded -> Nat] BY <1>0 DEF Loads
<1>2. /\ ~counted /\ counted' = TRUE
      /\ load' = [s \in SMs |-> [x \in Loaders |-> Seek(NumM, Cursor(s))]]
      /\ tokens' = tokens /\ ready' = ready /\ arrived' = arrived /\ math' = math
  BY DEF SumsComplete
<1>3. \A s \in SMs, x \in Loaders : load[s][x] = Cursor(s) BY <1>0, <1>2 DEF Shaped
<1>4. \A s \in SMs, x \in Loaders :
        Near(load'[s][x]) /\ Ahead(load'[s][x]) = Ahead(load[s][x])
  BY <1>0, <1>2, <1>3, NearFirst
<1>5. \A s \in SMs : /\ \A x \in Loaders : Ahead(load[s][x]) \in Nat
                     /\ \A w \in WGs : Ahead(math[s][w]) \in Nat
  BY <1>1, NearAhead DEF NearInv
<1>6. Forward
  <2>1. \A s \in SMs, x \in Loaders : Ahead(load'[s][x]) <= Ahead(load[s][x]) BY <1>4, <1>5
  <2>2. \A s \in SMs, w \in WGs : Ahead(math'[s][w]) <= Ahead(math[s][w]) BY <1>2, <1>5
  <2> QED BY <1>2, <2>1, <2>2 DEF Forward
<1>7. \A s \in SMs, w \in WGs : Near(math'[s][w]) BY <1>2 DEF NearInv
<1>8. PipeInv' BY <1>0, CountedStep
<1> QED BY <1>2, <1>4, <1>6, <1>7, <1>8, NearAgain DEF NearInv

\* The math warps of a program seek their first tile.
LEMMA NearReady ==
  ASSUME NearInv, NEW s \in SMs, MetadataReady(s)
  PROVE  Forward /\ NearInv'
<1>0. Shaped /\ NumM \in Loads /\ PipeInv BY LoadsFact DEF NearInv, PipeInv, Shaped
<1>1. NumM \in [Padded -> Nat] BY <1>0 DEF Loads
<1>2. /\ ~ready[s] /\ ready' = [ready EXCEPT ![s] = TRUE]
      /\ math' = [math EXCEPT ![s] = [w \in WGs |-> Unpooled(Seek(NumM, Cursor(s)))]]
      /\ tokens' = tokens /\ counted' = counted /\ arrived' = arrived /\ load' = load
  BY DEF MetadataReady
<1>3. /\ ready'[s] /\ \A t \in SMs : t # s => ready'[t] = ready[t] /\ math'[t] = math[t]
      /\ \A w \in WGs : math'[s][w] = Unpooled(Seek(NumM, Cursor(s)))
  BY <1>0, <1>2 DEF Shaped
<1>4. \A w \in WGs : math[s][w] = Cursor(s) BY <1>0, <1>2 DEF Shaped
<1>5. \A t \in SMs : /\ \A x \in Loaders : Ahead(load[t][x]) \in Nat
                     /\ \A w \in WGs : Ahead(math[t][w]) \in Nat
  BY <1>1, NearAhead DEF NearInv
<1>6. \A t \in SMs, w \in WGs : Near(math'[t][w]) /\ Ahead(math'[t][w]) = Ahead(math[t][w])
  <2>1. ASSUME NEW t \in SMs, NEW w \in WGs
        PROVE  Near(math'[t][w]) /\ Ahead(math'[t][w]) = Ahead(math[t][w])
    <3>1. CASE t = s BY <1>0, <1>3, <1>4, <3>1, NearFirst
    <3>2. CASE t # s BY <1>3, <3>2 DEF NearInv
    <3> QED BY <3>1, <3>2
  <2> QED BY <2>1
<1>7. Forward
  <2>1. \A t \in SMs, x \in Loaders : Ahead(load'[t][x]) <= Ahead(load[t][x]) BY <1>2, <1>5
  <2>2. \A t \in SMs, w \in WGs : Ahead(math'[t][w]) <= Ahead(math[t][w]) BY <1>5, <1>6
  <2>3. \A t \in SMs : ready[t] => ready'[t] BY <1>3
  <2>4. ready'[s] # ready[s] BY <1>2, <1>3
  <2> QED BY <1>2, <2>1, <2>2, <2>3, <2>4 DEF Forward
<1>8. \A t \in SMs, x \in Loaders : Near(load'[t][x]) BY <1>2 DEF NearInv
<1>9. PipeInv' BY <1>0, ReadyStep
<1> QED BY <1>2, <1>6, <1>7, <1>8, <1>9, NearAgain DEF NearInv

\* Another block of the pool is complete.
LEMMA NearArrives ==
  ASSUME NearInv, NEW b \in Pool, BlockArrives(b)
  PROVE  Forward /\ NearInv'
<1>0. Shaped /\ NumM \in Loads /\ PipeInv BY LoadsFact DEF NearInv, PipeInv, Shaped
<1>1. NumM \in [Padded -> Nat] BY <1>0 DEF Loads
<1>2. /\ b \notin arrived /\ arrived' = arrived \cup {b}
      /\ tokens' = tokens /\ counted' = counted /\ ready' = ready /\ load' = load /\ math' = math
  BY DEF BlockArrives
<1>3. \A t \in SMs : /\ \A x \in Loaders : Ahead(load[t][x]) \in Nat
                     /\ \A w \in WGs : Ahead(math[t][w]) \in Nat
  BY <1>1, NearAhead DEF NearInv
<1>4. Forward
  <2>1. \A t \in SMs : /\ \A x \in Loaders : Ahead(load'[t][x]) <= Ahead(load[t][x])
                       /\ \A w \in WGs : Ahead(math'[t][w]) <= Ahead(math[t][w])
    BY <1>2, <1>3
  <2>2. arrived' # arrived /\ arrived \subseteq arrived' BY <1>2
  <2> QED BY <1>2, <2>1, <2>2 DEF Forward
<1>5. /\ \A t \in SMs, x \in Loaders : Near(load'[t][x])
      /\ \A t \in SMs, w \in WGs : Near(math'[t][w])
      /\ arrived' \subseteq Pool
  BY <1>2 DEF NearInv
<1>6. PipeInv' BY <1>0, PipeStep DEF Next
<1> QED BY <1>2, <1>4, <1>5, <1>6, NearAgain

\* Every step, that is not a stuttering one.
LEMMA NearStep ==
  ASSUME NearInv, [Next]_vars
  PROVE  NearInv' /\ (Forward \/ UNCHANGED vars)
<1>1. CASE SumsComplete BY <1>1, NearSums
<1>2. ASSUME NEW s \in SMs, MetadataReady(s) PROVE NearInv' /\ Forward BY <1>2, NearReady
<1>3. ASSUME NEW b \in Pool, BlockArrives(b) PROVE NearInv' /\ Forward BY <1>3, NearArrives
<1>4. ASSUME NEW s \in SMs, NEW x \in Loaders, Load(s, x) PROVE NearInv' /\ Forward
  BY <1>4, NearLoad
<1>5. ASSUME NEW s \in SMs, NEW w \in WGs, Multiply(s, w) PROVE NearInv' /\ Forward
  BY <1>5, NearMultiply
<1>6. CASE UNCHANGED vars
  <2>1. /\ tokens' = tokens /\ arrived' = arrived /\ load' = load /\ math' = math
    BY <1>6 DEF vars
  <2>2. /\ \A t \in SMs, x \in Loaders : Near(load'[t][x])
        /\ \A t \in SMs, w \in WGs : Near(math'[t][w])
        /\ arrived' \subseteq Pool
    BY <2>1 DEF NearInv
  <2>3. PipeInv' BY <1>6, PipeStep DEF NearInv
  <2> QED BY <1>6, <2>1, <2>2, <2>3, NearAgain
<1> QED BY <1>1, <1>2, <1>3, <1>4, <1>5, <1>6 DEF Next, Terminated

\* Every step takes something that is left: each role has a natural number of slots
\* in front of it, which grows by no step; with RolesNeverDeadlock this leaves
\* nothing that the programs could do instead of stopping.
THEOREM EveryStepIsProgress == Spec => []Finite /\ [][Forward]_vars
<1>1. Init => NearInv BY NearInit
<1>2. NearInv /\ [Next]_vars => NearInv' /\ [Forward]_vars
  BY NearStep DEF vars
<1>3. NearInv => Finite
  <2>1. SUFFICES ASSUME NearInv PROVE Finite
    OBVIOUS
  <2>2. NumM \in [Padded -> Nat] BY <2>1, LoadsFact DEF NearInv, PipeInv, Shaped, Loads
  <2> QED BY <2>1, <2>2, NearAhead DEF NearInv, Finite
<1> QED BY <1>1, <1>2, <1>3, PTL DEF Spec
=============================================================================
