-------------------------- MODULE RibbonPriceProofs --------------------------
(***************************************************************************)
(* Proofs about the erase loop of filter_trades_by_deviation, for every    *)
(* set of prices and quantities and every vector of trades: the loop never *)
(* erases a trade within the band of the input, whatever erasures came     *)
(* before and however they shifted the indices.                            *)
(*                                                                         *)
(* The filter KeptOf is a recursive function over 0 .. Len(s).  Its        *)
(* inductions are done by hand, from a least counterexample, which exists  *)
(* because < is well-founded on Nat.  OutOfBand is never expanded: the     *)
(* proofs hold whatever the band test computes.                            *)
(***************************************************************************)
EXTENDS RibbonPrice, SequenceTheorems, WellFoundedInduction, TLAPS

USE RibbonPriceAssumption

\* Every nonempty set of naturals has a least element.
LEMMA LeastNat ==
    ASSUME NEW T \in SUBSET Nat, T # {}
    PROVE  \E m \in T : \A j \in T : ~(j < m)
<1>1. \E m \in T : \A j \in T : ~(<<j, m>> \in OpToRel(<, Nat))
  BY WFMin, NatLessThanWellFounded
<1>2. \A m, j \in T : (<<j, m>> \in OpToRel(<, Nat)) <=> j < m
  BY DEF OpToRel
<1>. QED
  BY <1>1, <1>2

-----------------------------------------------------------------------------
(* The recursion of KeptOf.                                                *)

\* One step of the recursive function KeptOf defines: the k-th trade of s
\* is appended when it lies within the band of ref.
KeptStep(ref, s, F) ==
    [k \in 0 .. Len(s) |->
        IF k = 0 THEN <<>>
        ELSE IF OutOfBand(ref, s[k].price) THEN F[k - 1]
        ELSE Append(F[k - 1], s[k])]

\* The function over 0 .. Len(s) that the LET of KeptOf defines.
KeptFun(ref, s) == CHOOSE F : F = KeptStep(ref, s, F)

\* For every vector of trades there is a function that satisfies the
\* recursion of KeptOf: one over 0 .. m - 1 is extended by its value at m.
LEMMA KeptExists ==
    ASSUME NEW ref, NEW s \in Seq(Trades)
    PROVE  \E F \in [0 .. Len(s) -> Seq(Trades)] : F = KeptStep(ref, s, F)
<1> DEFINE n == Len(s)
           Rec(g, k) == g[k] = IF k = 0 THEN <<>>
                               ELSE IF OutOfBand(ref, s[k].price) THEN g[k - 1]
                               ELSE Append(g[k - 1], s[k])
           Good(m) == \E g \in [0 .. m -> Seq(Trades)] : \A k \in 0 .. m : Rec(g, k)
<1> HIDE DEF Rec, Good
<1>0. n \in Nat /\ \A k \in 1 .. n : s[k] \in Trades
  BY LenProperties, ElementOfSeq
<1>1. SUFFICES Good(n)
  <2>1. ASSUME NEW g \in [0 .. n -> Seq(Trades)], \A k \in 0 .. n : Rec(g, k)
        PROVE  g = KeptStep(ref, s, g)
    BY <2>1 DEF KeptStep, Rec
  <2>. QED
    BY <1>1, <2>1 DEF Good
<1>2. Good(0)
  <2> DEFINE z == [k \in 0 .. 0 |-> << >>]
  <2>1. z \in [0 .. 0 -> Seq(Trades)] /\ \A k \in 0 .. 0 : Rec(z, k)
    BY EmptySeq DEF Rec
  <2>. QED
    BY <2>1 DEF Good
<1>3. ASSUME NEW m \in 1 .. n, Good(m - 1)
      PROVE  Good(m)
  <2>1. PICK g \in [0 .. m - 1 -> Seq(Trades)] : \A k \in 0 .. m - 1 : Rec(g, k)
    BY <1>3 DEF Good
  <2> DEFINE last == IF OutOfBand(ref, s[m].price) THEN g[m - 1]
                     ELSE Append(g[m - 1], s[m])
             h == [k \in 0 .. m |-> IF k < m THEN g[k] ELSE last]
  <2>2. last \in Seq(Trades)
    <3>1. g[m - 1] \in Seq(Trades) /\ s[m] \in Trades
      BY <1>0, <2>1
    <3>. QED
      BY <3>1, AppendProperties DEF last
  <2>3. h \in [0 .. m -> Seq(Trades)]
    BY <2>1, <2>2 DEF h
  <2>4. ASSUME NEW k \in 0 .. m - 1 PROVE Rec(h, k)
    <3>1. h[k] = g[k] /\ (k # 0 => h[k - 1] = g[k - 1])
      BY <1>3 DEF h
    <3>2. Rec(g, k)
      BY <2>1
    <3>. QED
      BY <3>1, <3>2, Zenon DEF Rec
  <2>5. Rec(h, m)
    BY <1>3 DEF Rec, h, last
  <2>6. \A k \in 0 .. m : Rec(h, k)
    <3>1. \A k \in 0 .. m : k \in 0 .. m - 1 \/ k = m
      OBVIOUS
    <3>. QED
      BY <2>4, <2>5, <3>1, Zenon
  <2>. QED
    BY <2>3, <2>6, Zenon DEF Good
<1>4. \A m \in 0 .. n : Good(m)
  <2> DEFINE T == {j \in 0 .. n : ~Good(j)}
  <2> SUFFICES ASSUME T # {} PROVE FALSE
    BY DEF T
  <2>0. T \in SUBSET Nat
    BY <1>0 DEF T
  <2>1. PICK m \in T : \A j \in T : ~(j < m)
    BY <2>0, LeastNat, Zenon
  <2>2. m \in 1 .. n /\ ~Good(m)
    BY <1>0, <1>2, <2>1 DEF T
  <2>3. m - 1 \notin T
    <3>1. m - 1 < m
      BY <1>0, <2>2
    <3>. QED
      BY <2>1, <3>1, Zenon
  <2>4. Good(m - 1)
    BY <1>0, <2>2, <2>3 DEF T
  <2>. QED
    BY <2>2, <2>4, <1>3, Zenon
<1>. QED
  <2>1. n \in 0 .. n
    BY <1>0
  <2>. QED
    BY <1>4, <2>1, Zenon

\* KeptFun satisfies the recursion of KeptOf, and KeptOf(ref, s) is its
\* last value.
LEMMA KeptRec ==
    ASSUME NEW ref, NEW s \in Seq(Trades)
    PROVE  /\ KeptFun(ref, s) = KeptStep(ref, s, KeptFun(ref, s))
           /\ KeptOf(ref, s) = KeptFun(ref, s)[Len(s)]
<1>1. KeptFun(ref, s) = KeptStep(ref, s, KeptFun(ref, s))
  BY KeptExists, Zenon DEF KeptFun
<1>2. KeptOf(ref, s) = KeptFun(ref, s)[Len(s)]
  BY DEF KeptOf, KeptStep, KeptFun
<1>. QED
  BY <1>1, <1>2

-----------------------------------------------------------------------------
(* Erasing a trade out of the band.                                        *)

\* trades.erase(trades.begin() + k - 1) removes the k-th trade and shifts
\* the ones after it down by one.
LEMMA RemoveAtShape ==
    ASSUME NEW S, NEW s \in Seq(S), NEW k \in 1 .. Len(s)
    PROVE  /\ RemoveAt(s, k) \in Seq(S)
           /\ Len(RemoveAt(s, k)) = Len(s) - 1
           /\ \A j \in 1 .. Len(s) - 1 :
                 RemoveAt(s, k)[j] = IF j < k THEN s[j] ELSE s[j + 1]
<1> DEFINE pre == SubSeq(s, 1, k - 1)
           post == SubSeq(s, k + 1, Len(s))
<1>1. Len(s) \in Nat /\ \A j \in 1 .. Len(s) : s[j] \in S
  BY LenProperties, ElementOfSeq
<1>2. /\ pre \in Seq(S) /\ Len(pre) = k - 1
      /\ \A j \in 1 .. k - 1 : pre[j] = s[j]
  BY <1>1, SubSeqProperties
<1>3. /\ post \in Seq(S) /\ Len(post) = Len(s) - k
      /\ \A j \in 1 .. Len(s) - k : post[j] = s[k + j]
  BY <1>1, SubSeqProperties
<1>4. RemoveAt(s, k) = pre \o post
  BY DEF RemoveAt
<1> HIDE DEF pre, post
<1>5. /\ pre \o post \in Seq(S)
      /\ Len(pre \o post) = Len(pre) + Len(post)
      /\ \A j \in 1 .. Len(pre) + Len(post) :
            (pre \o post)[j] = IF j <= Len(pre) THEN pre[j] ELSE post[j - Len(pre)]
  BY <1>2, <1>3, ConcatProperties
<1>. QED
  BY <1>1, <1>2, <1>3, <1>4, <1>5

\* The recursion of KeptOf, point by point.
LEMMA KeptPoints ==
    ASSUME NEW ref, NEW s \in Seq(Trades)
    PROVE  /\ KeptFun(ref, s)[0] = <<>>
           /\ \A j \in 1 .. Len(s) :
                 KeptFun(ref, s)[j] = IF OutOfBand(ref, s[j].price)
                                      THEN KeptFun(ref, s)[j - 1]
                                      ELSE Append(KeptFun(ref, s)[j - 1], s[j])
           /\ KeptOf(ref, s) = KeptFun(ref, s)[Len(s)]
<1> DEFINE F == KeptFun(ref, s)
<1>1. F = KeptStep(ref, s, F) /\ KeptOf(ref, s) = F[Len(s)]
  BY KeptRec
<1>2. Len(s) \in Nat
  BY LenProperties
<1>3. \A j \in 0 .. Len(s) :
         KeptStep(ref, s, F)[j] = IF j = 0 THEN <<>>
                                  ELSE IF OutOfBand(ref, s[j].price) THEN F[j - 1]
                                  ELSE Append(F[j - 1], s[j])
  BY DEF KeptStep
<1> HIDE DEF F
<1>4. F[0] = <<>>
  BY <1>1, <1>2, <1>3
<1>5. \A j \in 1 .. Len(s) :
         F[j] = IF OutOfBand(ref, s[j].price) THEN F[j - 1] ELSE Append(F[j - 1], s[j])
  BY <1>1, <1>2, <1>3
<1>. QED
  BY <1>1, <1>4, <1>5 DEF F

\* Erasing a trade out of the band of ref does not change the trades kept:
\* below the erased index the two recursions agree step by step, and from
\* there on the recursion of the shorter vector runs one index behind.
LEMMA KeptRemove ==
    ASSUME NEW ref, NEW s \in Seq(Trades), NEW k \in 1 .. Len(s),
           OutOfBand(ref, s[k].price)
    PROVE  KeptOf(ref, RemoveAt(s, k)) = KeptOf(ref, s)
<1> DEFINE n == Len(s)
           r == RemoveAt(s, k)
           F == KeptFun(ref, s)
           G == KeptFun(ref, r)
<1>1. /\ r \in Seq(Trades) /\ Len(r) = n - 1
      /\ \A j \in 1 .. n - 1 : r[j] = IF j < k THEN s[j] ELSE s[j + 1]
  BY RemoveAtShape
<1>2. /\ F[0] = <<>>
      /\ \A j \in 1 .. n :
            F[j] = IF OutOfBand(ref, s[j].price) THEN F[j - 1] ELSE Append(F[j - 1], s[j])
      /\ KeptOf(ref, s) = F[n]
  BY KeptPoints
<1>3. /\ G[0] = <<>>
      /\ \A j \in 1 .. n - 1 :
            G[j] = IF OutOfBand(ref, r[j].price) THEN G[j - 1] ELSE Append(G[j - 1], r[j])
      /\ KeptOf(ref, r) = G[n - 1]
  BY <1>1, KeptPoints
<1>0. n \in Nat /\ k \in 1 .. n
  BY LenProperties
<1> HIDE DEF n, r, F, G
<1>4. \A j \in 0 .. k - 1 : G[j] = F[j]
  <2> DEFINE T == {j \in 0 .. k - 1 : G[j] # F[j]}
  <2> SUFFICES ASSUME T # {} PROVE FALSE
    BY DEF T
  <2>0. T \in SUBSET Nat
    BY DEF T
  <2>1. PICK m \in T : \A j \in T : ~(j < m)
    BY <2>0, LeastNat, Zenon
  <2>2. m \in 1 .. k - 1 /\ G[m] # F[m]
    BY <1>2, <1>3, <2>1 DEF T
  <2>3. m - 1 \notin T
    <3>1. m - 1 < m
      BY <2>2
    <3>. QED
      BY <2>1, <3>1, Zenon
  <2>4. G[m - 1] = F[m - 1]
    BY <2>2, <2>3 DEF T
  <2>5. r[m] = s[m] /\ m \in 1 .. n /\ m \in 1 .. n - 1
    BY <1>0, <1>1, <2>2
  <2>. QED
    BY <1>2, <1>3, <2>2, <2>4, <2>5
<1>5. \A j \in k - 1 .. n - 1 : G[j] = F[j + 1]
  <2> DEFINE T == {j \in k - 1 .. n - 1 : G[j] # F[j + 1]}
  <2> SUFFICES ASSUME T # {} PROVE FALSE
    BY DEF T
  <2>0. T \in SUBSET Nat
    BY DEF T
  <2>1. PICK m \in T : \A j \in T : ~(j < m)
    BY <2>0, LeastNat, Zenon
  <2>2. m \in k - 1 .. n - 1 /\ G[m] # F[m + 1]
    BY <2>1 DEF T
  <2>3. CASE m = k - 1
    <3>1. G[k - 1] = F[k - 1]
      BY <1>4
    <3>2. F[k] = F[k - 1]
      BY <1>0, <1>2
    <3>. QED
      BY <1>0, <2>2, <2>3, <3>1, <3>2
  <2>4. CASE m # k - 1
    <3>1. m \in k .. n - 1 /\ m - 1 \in k - 1 .. n - 1
      BY <1>0, <2>2, <2>4
    <3>2. m - 1 \notin T
      <4>1. m - 1 < m
        BY <3>1
      <4>. QED
        BY <2>1, <4>1, Zenon
    <3>3. G[m - 1] = F[m]
      BY <3>1, <3>2 DEF T
    <3>4. r[m] = s[m + 1] /\ m \in 1 .. n - 1 /\ m + 1 \in 1 .. n
      BY <1>0, <1>1, <3>1
    <3>5. G[m] = IF OutOfBand(ref, s[m + 1].price) THEN G[m - 1] ELSE Append(G[m - 1], s[m + 1])
      BY <1>3, <3>4
    <3>6. F[m + 1] = IF OutOfBand(ref, s[m + 1].price) THEN F[m] ELSE Append(F[m], s[m + 1])
      BY <1>2, <3>4
    <3>. QED
      BY <2>2, <3>3, <3>5, <3>6
  <2>. QED
    BY <2>3, <2>4
<1>. QED
  <2>1. n - 1 \in k - 1 .. n - 1
    BY <1>0
  <2>2. G[n - 1] = F[n]
    <3>1. G[n - 1] = F[(n - 1) + 1]
      BY <1>5, <2>1
    <3>2. (n - 1) + 1 = n
      BY <1>0
    <3>. QED
      BY <3>1, <3>2
  <2>3. KeptOf(ref, r) = KeptOf(ref, s)
    BY <1>2, <1>3, <2>2
  <2>. QED
    BY <2>3 DEF r

-----------------------------------------------------------------------------
(* The erase loop keeps the trades within the band.                        *)

\* The variables of filter_trades_by_deviation keep their types: the input
\* and its copy are vectors of trades, and the index is a natural.
PriceTypeOK ==
    /\ input \in Seq(Trades)
    /\ trades \in Seq(Trades)
    /\ i \in Nat
    /\ pc \in {"loop", "done"}

\* The inductive invariant: FilterKeepsInBand needs only that the vectors
\* are vectors of trades, so that an erasure is a RemoveAt of one of them.
PInv == PriceTypeOK /\ FilterKeepsInBand

\* Every vector get_recent_trades may return is a vector of trades.
LEMMA InputsAreSeqs ==
    Inputs \subseteq Seq(Trades)
<1> SUFFICES ASSUME NEW x \in Inputs PROVE x \in Seq(Trades)
  OBVIOUS
<1>1. x \in UNION {[1 .. m -> Trades] : m \in 0 .. MaxTrades}
  BY DEF BoundedSeq, SeqOf, Trades
<1>2. PICK m \in 0 .. MaxTrades : x \in [1 .. m -> Trades]
  BY <1>1
<1>. QED
  BY <1>2, SeqDef

\* The loop starts on a copy of the input.
LEMMA PInvInit ==
    Init => PInv
BY InputsAreSeqs DEF Init, PInv, PriceTypeOK, FilterKeepsInBand, InBand

\* One iteration either erases a trade the band of the input rejects, which
\* leaves the kept trades as they were (KeptRemove), or erases nothing; the
\* return and a stutter change no vector.
LEMMA PInvStep ==
    PInv /\ [Next]_priceVars => PInv'
<1> SUFFICES ASSUME PInv, [Next]_priceVars PROVE PInv'
  OBVIOUS
<1>0. input \in Seq(Trades) /\ trades \in Seq(Trades) /\ i \in Nat
  BY DEF PInv, PriceTypeOK
<1>1. CASE FilterStep
  <2>1. i + 1 \in 1 .. Len(trades) /\ input' = input /\ pc' = pc /\ i' = i + 1
    BY <1>0, <1>1 DEF FilterStep
  <2>2. CASE OutOfBand(input, trades[i + 1].price)
    <3>1. trades' = RemoveAt(trades, i + 1)
      BY <1>1, <2>2 DEF FilterStep, Erase
    <3>2. trades' \in Seq(Trades)
      BY <1>0, <2>1, <3>1, RemoveAtShape
    <3>3. KeptOf(input, trades') = KeptOf(input, trades)
      BY <1>0, <2>1, <2>2, <3>1, KeptRemove
    <3>. QED
      BY <1>0, <2>1, <3>2, <3>3 DEF PInv, PriceTypeOK, FilterKeepsInBand
  <2>3. CASE ~OutOfBand(input, trades[i + 1].price)
    <3>1. trades' = trades
      BY <1>1, <2>3 DEF FilterStep
    <3>. QED
      BY <1>0, <2>1, <3>1 DEF PInv, PriceTypeOK, FilterKeepsInBand
  <2>. QED
    BY <2>2, <2>3
<1>2. CASE FilterReturn
  BY <1>2 DEF FilterReturn, PInv, PriceTypeOK, FilterKeepsInBand
<1>3. CASE UNCHANGED priceVars
  BY <1>3 DEF priceVars, PInv, PriceTypeOK, FilterKeepsInBand
<1>. QED
  BY <1>1, <1>2, <1>3 DEF Next

\* filter_trades_by_deviation never erases a trade within the band of its
\* input, for every vector and every band: at every iteration of its loop
\* the in-band trades of the vector are those of the input, in their order,
\* although each erasure shifts the later trades down one index.
THEOREM FilterKeepsInBandHolds ==
    Spec => []FilterKeepsInBand
<1>1. PInv => FilterKeepsInBand
  BY DEF PInv
<1>. QED
  BY <1>1, PInvInit, PInvStep, PTL DEF Spec

=============================================================================
