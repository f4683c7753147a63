--------------------------- MODULE RibbonRedProofs ---------------------------
(***************************************************************************)
(* Proofs about create_ribbon_red, for every length of its four windows    *)
(* and every width of uint64_t: when the volume sums fit and ma3 is        *)
(* assigned, the ribbon red it returns is at most the largest ribbon_blue  *)
(* of those blocks, whatever blocks hold no volume and whatever product    *)
(* sums wrap.                                                              *)
(*                                                                         *)
(* The sums are recursive functions over 0 .. n.  Their induction is done  *)
(* by hand: a least counterexample, which exists because < is well-founded *)
(* on Nat (WFMin, NatLessThanWellFounded), is shown impossible.            *)
(***************************************************************************)
EXTENDS RibbonRed, WellFoundedInduction, TLAPS

USE RibbonRedAssumption

\* Every nonempty set of naturals has a least element.
LEMMA LeastNat ==
    ASSUME NEW T \in SUBSET Nat, T # {}
    PROVE  \E m \in T : \A j \in T : ~(j < m)
<1>1. \E m \in T : \A j \in T : ~(<<j, m>> \in OpToRel(<, Nat))
  BY WFMin, NatLessThanWellFounded
<1>2. \A m, j \in T : (<<j, m>> \in OpToRel(<, Nat)) <=> j < m
  BY DEF OpToRel
<1>. QED
  BY <1>1, <1>2

\* The body of the loop "sum += x[k]" in uint64_t, as the step of the
\* recursive function that WrapSum defines.
SumStep(n, x, s) == [k \in 0 .. n |-> IF k = 0 THEN 0 ELSE (s[k - 1] + (x[k] % U64)) % U64]

\* For every n there is a function over 0 .. n that satisfies the recursion
\* of WrapSum: one over 0 .. m - 1 is extended by the value at m.
LEMMA SumExists ==
    ASSUME NEW n \in Nat, NEW x, \A i \in 1 .. n : x[i] \in Nat
    PROVE  \E s \in [0 .. n -> Int] : s = SumStep(n, x, s)
<1> DEFINE Rec(g, k) == g[k] = IF k = 0 THEN 0 ELSE (g[k - 1] + (x[k] % U64)) % U64
           Good(m) == \E g \in [0 .. m -> Int] : \A k \in 0 .. m : Rec(g, k)
<1> HIDE DEF Rec, Good
<1>1. SUFFICES Good(n)
  <2>1. ASSUME NEW g \in [0 .. n -> Int], \A k \in 0 .. n : Rec(g, k)
        PROVE  g = SumStep(n, x, g)
    BY <2>1 DEF SumStep, Rec
  <2>. QED
    BY <1>1, <2>1 DEF Good
<1>2. Good(0)
  <2> DEFINE z == [k \in 0 .. 0 |-> 0]
  <2>1. z \in [0 .. 0 -> Int] /\ \A k \in 0 .. 0 : Rec(z, k)
    BY DEF Rec
  <2>. QED
    BY <2>1 DEF Good
<1>3. ASSUME NEW m \in 1 .. n, Good(m - 1)
      PROVE  Good(m)
  <2>1. PICK g \in [0 .. m - 1 -> Int] : \A k \in 0 .. m - 1 : Rec(g, k)
    BY <1>3 DEF Good
  <2> DEFINE h == [k \in 0 .. m |-> IF k < m THEN g[k] ELSE (g[m - 1] + (x[m] % U64)) % U64]
  <2>3. h \in [0 .. m -> Int]
    <3>0. g[m - 1] \in Int /\ x[m] \in Nat /\ U64 \in Nat \ {0}
      BY <1>3, <2>1
    <3>1. (g[m - 1] + (x[m] % U64)) % U64 \in Int
      BY <3>0
    <3>. QED
      BY <1>3, <3>1 DEF h
  <2>4. ASSUME NEW k \in 0 .. m - 1 PROVE Rec(h, k)
    BY <1>3, <2>1 DEF Rec, h
  <2>5. Rec(h, m)
    BY <1>3 DEF Rec, h
  <2>6. \A k \in 0 .. m : Rec(h, k)
    <3>1. \A k \in 0 .. m : k \in 0 .. m - 1 \/ k = m
      OBVIOUS
    <3>. QED
      BY <2>4, <2>5, <3>1, Zenon
  <2>. QED
    BY <2>3, <2>6, Zenon DEF Good
<1>4. \A m \in 0 .. n : Good(m)
  <2> DEFINE T == {j \in 0 .. n : ~Good(j)}
  <2> SUFFICES ASSUME T # {} PROVE FALSE
    BY DEF T
  <2>0. T \in SUBSET Nat
    BY DEF T
  <2>1. PICK m \in T : \A j \in T : ~(j < m)
    BY <2>0, LeastNat, Zenon
  <2>2. m # 0
    BY <1>2 DEF T
  <2>3. Good(m - 1)
    <3>1. m \in 1 .. n
      BY <2>1, <2>2 DEF T
    <3>2. m - 1 \notin T
      <4>1. m - 1 < m
        BY <3>1
      <4>. QED
        BY <2>1, <4>1, Zenon
    <3>. QED
      BY <3>1, <3>2 DEF T
  <2>4. m \in 1 .. n /\ ~Good(m)
    BY <2>1, <2>2 DEF T
  <2>. QED
    BY <2>3, <2>4, <1>3, Zenon
<1>. QED
  <2>1. n \in 0 .. n
    OBVIOUS
  <2>. QED
    BY <1>4, <2>1, Zenon

\* The function over 0 .. n that the LET of WrapSum defines.
SumsOf(n, x) == CHOOSE s : s = SumStep(n, x, s)

\* SumsOf satisfies the recursion of WrapSum, and WrapSum(n, x) is its last
\* value.
LEMMA WrapSumRec ==
    ASSUME NEW n \in Nat, NEW x, \A i \in 1 .. n : x[i] \in Nat
    PROVE  /\ SumsOf(n, x) = SumStep(n, x, SumsOf(n, x))
           /\ WrapSum(n, x) = SumsOf(n, x)[n]
<1>1. SumsOf(n, x) = SumStep(n, x, SumsOf(n, x))
  BY SumExists, Zenon DEF SumsOf
<1>2. WrapSum(n, x) = SumsOf(n, x)[n]
  BY DEF WrapSum, SumStep, SumsOf
<1>. QED
  BY <1>1, <1>2

\* When no term exceeds L and n terms of L fit in a uint64_t, the loop's
\* sum never wraps: every partial sum is the previous one plus the term,
\* and the k-th is at most k * L.
LEMMA SumNoWrap ==
    ASSUME NEW n \in Nat, NEW x, NEW L \in Nat,
           \A i \in 1 .. n : x[i] \in 0 .. L,
           n * L < U64
    PROVE  \A k \in 0 .. n : /\ SumsOf(n, x)[k] \in 0 .. k * L
                             /\ k > 0 => SumsOf(n, x)[k] = SumsOf(n, x)[k - 1] + x[k]
<1> DEFINE s == SumsOf(n, x)
<1>00. s = SumStep(n, x, s)
  BY WrapSumRec
<1> DEFINE P(k) == /\ s[k] \in 0 .. k * L
                   /\ k > 0 => s[k] = s[k - 1] + x[k]
<1> HIDE DEF P
<1>0. \A k \in 0 .. n : s[k] = IF k = 0 THEN 0 ELSE (s[k - 1] + (x[k] % U64)) % U64
  <2>1. \A k \in 0 .. n : SumStep(n, x, s)[k]
                            = IF k = 0 THEN 0 ELSE (s[k - 1] + (x[k] % U64)) % U64
    BY DEF SumStep
  <2>. QED
    BY <1>00, <2>1, Zenon
<1>1. P(0)
  BY <1>0 DEF P
<1>2. ASSUME NEW k \in 1 .. n, P(k - 1)
      PROVE  P(k)
  <2>1. s[k - 1] \in 0 .. (k - 1) * L
    BY <1>2 DEF P
  <2>2. (k - 1) * L + L = k * L /\ k * L <= n * L
    <3>1. (k - 1) * L + L = k * L
      OBVIOUS
    <3>2. (n - k) * L >= 0
      OBVIOUS
    <3>. QED
      BY <3>1, <3>2
  <2>3. x[k] \in 0 .. L
    OBVIOUS
  <2>4. s[k - 1] + x[k] \in 0 .. k * L /\ s[k - 1] + x[k] < U64
    BY <2>1, <2>2, <2>3
  <2>5. x[k] % U64 = x[k]
    BY <2>2, <2>3, <2>4
  <2>6. s[k] = s[k - 1] + x[k]
    <3>1. k \in 0 .. n /\ k # 0
      OBVIOUS
    <3>2. s[k] = (s[k - 1] + (x[k] % U64)) % U64
      BY <1>0, <3>1, Zenon
    <3>3. (s[k - 1] + x[k]) % U64 = s[k - 1] + x[k]
      BY <2>4
    <3>. QED
      BY <2>5, <3>2, <3>3, Zenon
  <2>. QED
    BY <2>4, <2>6 DEF P
<1>3. \A k \in 0 .. n : P(k)
  <2> DEFINE T == {j \in 0 .. n : ~P(j)}
  <2> SUFFICES ASSUME T # {} PROVE FALSE
    BY DEF T
  <2>0. T \in SUBSET Nat
    BY DEF T
  <2>1. PICK m \in T : \A j \in T : ~(j < m)
    BY <2>0, LeastNat, Zenon
  <2>2. m \in 1 .. n /\ ~P(m)
    BY <1>1, <2>1 DEF T
  <2>3. m - 1 \notin T
    <3>1. m - 1 < m
      BY <2>2
    <3>. QED
      BY <2>1, <3>1, Zenon
  <2>4. P(m - 1)
    BY <2>2, <2>3 DEF T
  <2>. QED
    BY <1>2, <2>2, <2>4
<1>. QED
  BY <1>3 DEF P

\* Reducing a natural modulo 2^64 gives a natural no larger.
LEMMA ModBelow ==
    ASSUME NEW a \in Nat, NEW u \in Nat \ {0}
    PROVE  a % u \in 0 .. a
<1>1. a % u \in 0 .. u - 1
  OBVIOUS
<1>2. a < u => a % u = a
  OBVIOUS
<1>3. a >= u => a % u < a
  BY <1>1
<1>. QED
  BY <1>1, <1>2, <1>3

\* A uint64_t loop sum starts at 0, is a natural at every step, and each
\* step adds at most its term: "sum += x" either adds x or wraps below it.
LEMMA SumsWrapFacts ==
    ASSUME NEW n \in Nat, NEW x, \A i \in 1 .. n : x[i] \in Nat
    PROVE  /\ SumsOf(n, x)[0] = 0
           /\ \A k \in 0 .. n : SumsOf(n, x)[k] \in Nat
           /\ \A k \in 1 .. n : SumsOf(n, x)[k] <= SumsOf(n, x)[k - 1] + x[k]
<1> DEFINE s == SumsOf(n, x)
<1>0. \A k \in 0 .. n : s[k] = IF k = 0 THEN 0 ELSE (s[k - 1] + (x[k] % U64)) % U64
  <2>1. s = SumStep(n, x, s)
    BY WrapSumRec
  <2>2. \A k \in 0 .. n : SumStep(n, x, s)[k]
                            = IF k = 0 THEN 0 ELSE (s[k - 1] + (x[k] % U64)) % U64
    BY DEF SumStep
  <2>. QED
    BY <2>1, <2>2, Zenon
<1>1. s[0] = 0
  BY <1>0
<1> DEFINE P(k) == s[k] \in Nat
<1> HIDE DEF P
<1>2. ASSUME NEW k \in 1 .. n, P(k - 1)
      PROVE  P(k) /\ s[k] <= s[k - 1] + x[k]
  <2>1. s[k - 1] \in Nat /\ x[k] \in Nat
    BY <1>2 DEF P
  <2>2. s[k] = (s[k - 1] + (x[k] % U64)) % U64
    <3>1. k \in 0 .. n /\ k # 0
      OBVIOUS
    <3>. QED
      BY <1>0, <3>1, Zenon
  <2>3. (s[k - 1] + (x[k] % U64)) % U64 \in Nat
        /\ (s[k - 1] + (x[k] % U64)) % U64 <= s[k - 1] + x[k]
    <3>1. x[k] % U64 \in 0 .. x[k]
      BY <2>1, ModBelow
    <3>2. s[k - 1] + (x[k] % U64) \in Nat
      BY <2>1, <3>1
    <3>3. (s[k - 1] + (x[k] % U64)) % U64 \in 0 .. s[k - 1] + (x[k] % U64)
      BY <3>2, ModBelow
    <3>. QED
      BY <2>1, <3>1, <3>3
  <2>. QED
    BY <2>2, <2>3 DEF P
<1>3. \A k \in 0 .. n : P(k)
  <2> DEFINE T == {j \in 0 .. n : ~P(j)}
  <2> SUFFICES ASSUME T # {} PROVE FALSE
    BY DEF T
  <2>0. T \in SUBSET Nat
    BY DEF T
  <2>1. PICK m \in T : \A j \in T : ~(j < m)
    BY <2>0, LeastNat, Zenon
  <2>2. m \in 1 .. n /\ ~P(m)
    BY <1>1, <2>1 DEF T, P
  <2>3. m - 1 \notin T
    <3>1. m - 1 < m
      BY <2>2
    <3>. QED
      BY <2>1, <3>1, Zenon
  <2>4. P(m - 1)
    BY <2>2, <2>3 DEF T
  <2>. QED
    BY <1>2, <2>2, <2>4
<1>4. \A k \in 1 .. n : s[k] <= s[k - 1] + x[k]
  <2> SUFFICES ASSUME NEW k \in 1 .. n PROVE s[k] <= s[k - 1] + x[k]
    OBVIOUS
  <2>1. k - 1 \in 0 .. n
    OBVIOUS
  <2>. QED
    BY <1>2, <1>3, <2>1
<1>. QED
  BY <1>1, <1>3, <1>4 DEF P

\* If every block's product volume * blue is at most c times its volume,
\* a product sum that adds at most each product stays at most c times the
\* exact sum of the volumes.
LEMMA SumsDominated ==
    ASSUME NEW m \in Nat, NEW c \in Nat, NEW p, NEW v,
           \A i \in 1 .. m : /\ p[i] \in Nat /\ v[i] \in Nat
                             /\ p[i] <= c * v[i],
           \A k \in 0 .. m : SumsOf(m, p)[k] \in Nat /\ SumsOf(m, v)[k] \in Nat,
           SumsOf(m, p)[0] = 0, SumsOf(m, v)[0] = 0,
           \A k \in 1 .. m : /\ SumsOf(m, p)[k] <= SumsOf(m, p)[k - 1] + p[k]
                             /\ SumsOf(m, v)[k] = SumsOf(m, v)[k - 1] + v[k]
    PROVE  \A k \in 0 .. m : SumsOf(m, p)[k] <= c * SumsOf(m, v)[k]
<1> DEFINE ps == SumsOf(m, p)
           vs == SumsOf(m, v)
<1> DEFINE P(k) == ps[k] <= c * vs[k]
<1> HIDE DEF P
<1>1. P(0)
  BY DEF P
<1>2. ASSUME NEW k \in 1 .. m, P(k - 1)
      PROVE  P(k)
  <2>1. ps[k - 1] <= c * vs[k - 1]
    BY <1>2 DEF P
  <2>2. c * vs[k] = c * vs[k - 1] + c * v[k]
    OBVIOUS
  <2>3. /\ ps[k] <= ps[k - 1] + p[k] /\ p[k] <= c * v[k]
        /\ vs[k] = vs[k - 1] + v[k]
        /\ ps[k - 1] \in Nat /\ vs[k - 1] \in Nat /\ p[k] \in Nat /\ v[k] \in Nat
    OBVIOUS
  <2>4. ps[k] <= c * vs[k]
    BY <2>1, <2>2, <2>3
  <2>. QED
    BY <2>4 DEF P
<1>3. \A k \in 0 .. m : P(k)
  <2> DEFINE T == {j \in 0 .. m : ~P(j)}
  <2> SUFFICES ASSUME T # {} PROVE FALSE
    BY DEF T
  <2>0. T \in SUBSET Nat
    BY DEF T
  <2>1. PICK q \in T : \A j \in T : ~(j < q)
    BY <2>0, LeastNat, Zenon
  <2>2. q \in 1 .. m /\ ~P(q)
    BY <1>1, <2>1 DEF T
  <2>3. q - 1 \notin T
    <3>1. q - 1 < q
      BY <2>2
    <3>. QED
      BY <2>1, <3>1, Zenon
  <2>4. P(q - 1)
    BY <2>2, <2>3 DEF T
  <2>. QED
    BY <1>2, <2>2, <2>4
<1>. QED
  BY <1>3 DEF P

\* Integer division by a positive divisor: a <= c * b gives a \div b <= c.
LEMMA DivBound ==
    ASSUME NEW a \in Nat, NEW b \in Nat, NEW c \in Nat, b > 0, a <= c * b
    PROVE  a \div b \in 0 .. c
<1>1. (a \div b) * b <= a /\ a \div b \in Nat
  OBVIOUS
<1>2. SUFFICES ASSUME a \div b > c PROVE FALSE
  BY <1>1
<1>3. (a \div b) * b >= (c + 1) * b
  BY <1>1, <1>2
<1>. QED
  BY <1>1, <1>3

-----------------------------------------------------------------------------
(* The moving averages and the red.                                        *)

\* The blocks create_ribbon_red reads: Span blocks of the chain.
BlocksType == blocks \in [1 .. Span -> [volume : Volumes, blue : Blues]]

\* The largest term a loop may add Span times without wrapping.
NoWrapBound == (U64 - 1) \div Span

\* The volume loops of create_ribbon_red do not wrap: Span volumes sum to
\* less than 2^64.  Nothing is assumed of the blues, of the products
\* volume * blue or of their sums, and a volume may be 0.
VolumesFit == \A v \in Volumes : v <= NoWrapBound

\* Each moving average the code assigns is a single value, at most every
\* bound on the blues of its window: ma_sum / ma_vol_sum, whose wrapped
\* numerator is at most the largest blue times the exact denominator, or 0
\* when the window holds no volume.
LEMMA MovingAverageBound ==
    ASSUME VolumesFit, BlocksType, NEW k \in 1 .. 4, k = 3 => Ma3Defined
    PROVE  \E a \in Nat :
              /\ MovingAverages(k) = {a}
              /\ \A e \in Nat : (\A i \in 1 .. Span : blocks[i].blue <= e) => a <= e
<1> DEFINE n == Windows[k]
           L == NoWrapBound
<1>1. n \in 1 .. Span /\ Span \in Nat \ {0}
  BY DEF Span
<1>2. L \in Nat /\ n * L < U64
  <2>1. L \in Nat /\ L * Span <= U64 - 1
    BY <1>1 DEF NoWrapBound
  <2>2. n * L <= Span * L
    <3>1. (Span - n) * L >= 0
      BY <1>1, <2>1
    <3>. QED
      BY <1>1, <2>1, <3>1
  <2>. QED
    BY <2>1, <2>2, <1>1
<1>3. \A i \in 1 .. n : /\ Products[i] \in Nat /\ Vols[i] \in 0 .. L
                        /\ Products[i] = blocks[i].volume * blocks[i].blue
                        /\ Vols[i] = blocks[i].volume
  <2> SUFFICES ASSUME NEW i \in 1 .. n
               PROVE  /\ Products[i] \in Nat /\ Vols[i] \in 0 .. L
                      /\ Products[i] = blocks[i].volume * blocks[i].blue
                      /\ Vols[i] = blocks[i].volume
    OBVIOUS
  <2>1. i \in 1 .. Span
    BY <1>1
  <2>2. blocks[i].volume \in Volumes /\ blocks[i].blue \in Blues
    BY <2>1 DEF BlocksType
  <2>3. /\ blocks[i].volume \in Nat /\ blocks[i].blue \in Nat
        /\ blocks[i].volume <= L
    BY <2>2 DEF VolumesFit
  <2>4. Products[i] = blocks[i].volume * blocks[i].blue /\ Vols[i] = blocks[i].volume
    BY <2>1 DEF Products, Vols
  <2>. QED
    BY <2>3, <2>4
<1> DEFINE sp == SumsOf(n, Products)
           sv == SumsOf(n, Vols)
<1>4. WrapSum(n, Products) = sp[n] /\ WrapSum(n, Vols) = sv[n]
  <2>1. \A i \in 1 .. n : Products[i] \in Nat /\ Vols[i] \in Nat
    BY <1>3
  <2>. QED
    BY <1>1, <2>1, WrapSumRec
<1>5. /\ sp[0] = 0
      /\ \A j \in 0 .. n : sp[j] \in Nat
      /\ \A j \in 1 .. n : sp[j] <= sp[j - 1] + Products[j]
  BY <1>1, <1>3, SumsWrapFacts
<1>6. \A j \in 0 .. n : /\ sv[j] \in 0 .. j * L
                        /\ j > 0 => sv[j] = sv[j - 1] + Vols[j]
  BY <1>1, <1>2, <1>3, SumNoWrap
<1>7. /\ sv[0] = 0 /\ \A j \in 0 .. n : sv[j] \in Nat
      /\ \A j \in 1 .. n : sv[j] = sv[j - 1] + Vols[j]
  BY <1>2, <1>6
<1>8. CASE sv[n] = 0
  <2>1. k # 3
    <3>1. k = 3 => WrapSum(n, Vols) > 0
      BY DEF Ma3Defined
    <3>. QED
      BY <1>4, <1>8, <3>1
  <2>2. MovingAverages(k) = {0}
    BY <1>4, <1>8, <2>1 DEF MovingAverages
  <2>. QED
    BY <2>2
<1>9. CASE sv[n] # 0
  <2>1. sv[n] > 0 /\ sp[n] \in Nat
    BY <1>1, <1>5, <1>7, <1>9
  <2>2. MovingAverages(k) = {sp[n] \div sv[n]}
    BY <1>4, <2>1 DEF MovingAverages
  <2>3. ASSUME NEW e \in Nat, \A i \in 1 .. Span : blocks[i].blue <= e
        PROVE  sp[n] \div sv[n] <= e
    <3>1. \A i \in 1 .. n : Products[i] <= e * Vols[i]
      <4> SUFFICES ASSUME NEW i \in 1 .. n
                   PROVE  Products[i] <= e * Vols[i]
        OBVIOUS
      <4>0. i \in 1 .. Span
        BY <1>1
      <4>1. /\ blocks[i].volume \in Nat /\ blocks[i].blue \in Nat
            /\ blocks[i].blue <= e
            /\ Products[i] = blocks[i].volume * blocks[i].blue
            /\ Vols[i] = blocks[i].volume
        BY <4>0, <1>3, <2>3 DEF BlocksType
      <4>2. blocks[i].volume * (e - blocks[i].blue) >= 0
        BY <4>1
      <4>. QED
        BY <4>1, <4>2
    <3>2. \A j \in 0 .. n : sp[j] <= e * sv[j]
      <4>1. \A i \in 1 .. n : /\ Products[i] \in Nat /\ Vols[i] \in Nat
                              /\ Products[i] <= e * Vols[i]
        BY <1>3, <3>1
      <4>2. n \in Nat
        BY <1>1
      <4>. QED
        BY <4>1, <4>2, <1>5, <1>7, SumsDominated
    <3>3. sp[n] <= e * sv[n] /\ sv[n] \in Nat
      BY <1>1, <1>7, <3>2
    <3>. QED
      BY <2>1, <3>3, DivBound
  <2>4. sp[n] \div sv[n] \in Nat
    BY <2>1, <1>7
  <2>. QED
    BY <2>2, <2>3, <2>4
<1>. QED
  BY <1>8, <1>9

\* Wherever ma3 is assigned and the volume loops do not wrap, every value
\* create_ribbon_red may return is at most some ribbon_blue of its last
\* Span blocks: each moving average is at most the largest blue, so is their
\* sum over four, and the final % 2^64 only lowers the sum.
LEMMA RedWithinBluesState ==
    ASSUME VolumesFit, BlocksType, Ma3Defined
    PROVE  RedWithinBlues
<1> SUFFICES ASSUME NEW r \in CreateRibbonRed,
                    \A i \in 1 .. Span : ~(r <= blocks[i].blue)
             PROVE  FALSE
  BY DEF RedWithinBlues
<1>1. PICK a1 \in MovingAverages(1), a2 \in MovingAverages(2),
           a3 \in MovingAverages(3), a4 \in MovingAverages(4) :
         r = ((a1 + a2 + a3 + a4) % U64) \div 4
  BY DEF CreateRibbonRed
<1>2. \A i \in 1 .. Span : blocks[i].blue \in Nat
  BY DEF BlocksType
<1>3. Span \in Nat \ {0}
  BY DEF Span
<1>4. /\ a1 \in Nat /\ a2 \in Nat /\ a3 \in Nat /\ a4 \in Nat
      /\ \A e \in Nat : (\A i \in 1 .. Span : blocks[i].blue <= e) =>
                          a1 <= e /\ a2 <= e /\ a3 <= e /\ a4 <= e
  <2>1. ASSUME NEW k \in 1 .. 4, NEW a \in MovingAverages(k)
        PROVE  /\ a \in Nat
               /\ \A e \in Nat : (\A i \in 1 .. Span : blocks[i].blue <= e) => a <= e
    BY MovingAverageBound, Zenon
  <2>. QED
    BY <1>1, <2>1
<1>5. r \in Nat /\ r >= 1
  <2>1. r \in Nat
    BY <1>1, <1>4, <1>3 DEF RibbonRedAssumption
  <2>2. r > blocks[1].blue /\ blocks[1].blue \in Nat
    <3>1. 1 \in 1 .. Span
      BY <1>3
    <3>. QED
      BY <1>2, <2>1, <3>1
  <2>. QED
    BY <2>1, <2>2
<1>6. \A i \in 1 .. Span : blocks[i].blue <= r - 1
  BY <1>2, <1>5
<1>7. a1 + a2 + a3 + a4 <= 4 * (r - 1)
  BY <1>4, <1>5, <1>6
<1>8. (a1 + a2 + a3 + a4) % U64 \in Nat /\ (a1 + a2 + a3 + a4) % U64 <= a1 + a2 + a3 + a4
  BY <1>4
<1>9. r \in 0 .. r - 1
  <2> DEFINE t == (a1 + a2 + a3 + a4) % U64
  <2>1. t \in Nat /\ r - 1 \in Nat /\ 4 \in Nat /\ 4 > 0 /\ t <= (r - 1) * 4
    BY <1>4, <1>5, <1>7, <1>8
  <2>2. t \div 4 \in 0 .. r - 1
    <3>. HIDE DEF t
    <3>. QED
      BY <2>1, DivBound
  <2>. QED
    BY <1>1, <2>2
<1>. QED
  BY <1>9

\* Spec keeps the chain create_ribbon_red reads.
LEMMA BlocksTypeInvariant ==
    Spec => []BlocksType
<1>1. Init => BlocksType
  BY DEF Init, BlocksType
<1>2. BlocksType /\ [Next]_blocks => BlocksType'
  BY DEF BlocksType, Next
<1>. QED
  BY <1>1, <1>2, PTL DEF Spec

\* create_ribbon_red returns an average of the ribbon_blue values of the
\* last 1440 blocks that is never above the largest of them, wherever it
\* assigns ma3, for every window length and every choice of volumes whose
\* sums fit in a uint64_t: blocks and windows without volume, and products
\* and product sums that wrap, included.
THEOREM RedWithinBluesHolds ==
    ASSUME VolumesFit
    PROVE  Spec => []RedWithinBluesWhenDefined
<1>1. BlocksType => RedWithinBluesWhenDefined
  BY RedWithinBluesState DEF RedWithinBluesWhenDefined
<1>. QED
  BY <1>1, BlocksTypeInvariant, PTL

=============================================================================
