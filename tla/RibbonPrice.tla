---------------------------- MODULE RibbonPrice ----------------------------
(***************************************************************************)
(* filter_trades_by_deviation of src/src/cryptonote_core/ribbon.cpp, the   *)
(* step of create_ribbon_blue that drops the trades priced more than two   *)
(* standard deviations away from the volume-weighted mean, and             *)
(* trades_weighted_mean, which it calls before and after.                  *)
(*                                                                         *)
(* The erase loop is modelled step by step, one iteration per action.  The *)
(* C++ computes in double; the model computes the same quantities exactly  *)
(* over the integers: the mean is the fraction weighted_sum /              *)
(* XTRI_volume_sum, and the band test |price - mean| > 2 * deviation is    *)
(* squared and multiplied by the positive denominators.  Rounding at the   *)
(* band's edge is left out.                                                *)
(***************************************************************************)
EXTENDS Integers, Sequences, SequencesExt

CONSTANTS
    Prices,         \* exchange_trade::price values of a model
    Quantities,     \* exchange_trade::quantity values of a model
    MaxTrades,      \* bound on the number of trades in the vector
    Inputs          \* the vectors get_recent_trades may return, for a model

ASSUME RibbonPriceAssumption ==
    /\ Prices \subseteq Nat
    /\ Quantities \subseteq Nat \ {0}
    /\ MaxTrades \in Nat
    /\ Inputs \subseteq BoundedSeq([price : Prices, quantity : Quantities], MaxTrades)

Trades == [price : Prices, quantity : Quantities]

VARIABLES
    input,      \* the vector passed to filter_trades_by_deviation
    trades,     \* its local copy, erased from by the loop
    i,          \* the loop index
    pc,         \* "loop" while the for loop runs, "done" once it returned
    result      \* the returned trades_weighted_mean, as [num, den]

priceVars == <<input, trades, i, pc, result>>

SumOf(s, F(_)) == FoldLeft(LAMBDA acc, t : acc + F(t), 0, s)

\* trades_weighted_mean: weighted_sum / XTRI_volume_sum as a fraction; a
\* zero denominator (no trade) is the NaN of 0.0 / 0.0.
WeightedMean(s) ==
    [num |-> SumOf(s, LAMBDA t : t.price * t.quantity),
     den |-> SumOf(s, LAMBDA t : t.quantity)]

\* "trades[i].price > max || trades[i].price < min" with max and min the
\* weighted mean of s plus and minus twice sqrt(sum / n), sum being the
\* squared distances of the prices to the mean.  Every comparison with a
\* NaN is false, so nothing is out of band in an empty vector.
OutOfBand(s, p) ==
    LET m   == WeightedMean(s)
        sum == SumOf(s, LAMBDA t : (t.price * m.den - m.num) ^ 2)
    IN  /\ m.den > 0
        /\ Len(s) * (p * m.den - m.num) ^ 2 > 4 * sum

Init ==
    /\ input \in Inputs
    /\ trades = input
    /\ i = 0
    /\ pc = "loop"
    /\ result = [num |-> 0, den |-> 0]

\* Mistake: erasing the element after the one tested, trades.begin() + i + 1
\* (FilterKeepsInBand catches it).
EraseNext(k) == IF k + 2 <= Len(trades) THEN RemoveAt(trades, k + 2) ELSE trades

\* trades.erase(trades.begin() + k).
Erase(k) == RemoveAt(trades, k + 1)

\* One iteration of the for loop: the trade at index i is erased when it is
\* out of the band of the input, and i is incremented in either case.
FilterStep ==
    /\ pc = "loop"
    /\ i < Len(trades)
    /\ trades' = IF OutOfBand(input, trades[i + 1].price) THEN Erase(i) ELSE trades
    /\ i' = i + 1
    /\ UNCHANGED <<input, pc, result>>

\* The loop exits and the weighted mean of what is left is returned.
FilterReturn ==
    /\ pc = "loop"
    /\ i >= Len(trades)
    /\ pc' = "done"
    /\ result' = WeightedMean(trades)
    /\ UNCHANGED <<input, trades, i>>

Next == FilterStep \/ FilterReturn

Spec == Init /\ [][Next]_priceVars

-----------------------------------------------------------------------------
\* The trades of s within the band of ref, in their order: the value of
\* SelectSeq(s, LAMBDA t : ~OutOfBand(ref, t.price)), written as the
\* recursive function that defines SelectSeq.
KeptOf(ref, s) ==
    LET F[k \in 0 .. Len(s)] ==
            IF k = 0 THEN <<>>
            ELSE IF OutOfBand(ref, s[k].price) THEN F[k - 1]
            ELSE Append(F[k - 1], s[k])
    IN  F[Len(s)]

(* The reference: the trades of s within the band of s, in their order.    *)
InBand(s) == KeptOf(s, s)

\* The loop never erases a trade that lies within the band: at every step
\* the in-band trades of the vector are exactly those of the input, in the
\* same order, however the erasures shift the indices.
FilterKeepsInBand ==
    KeptOf(input, trades) = InBand(input)

\* The comment above filter_trades_by_deviation ("2 STDEV trades removed"):
\* when the function returns, exactly the trades within the band are left,
\* and the mean it returns is theirs.
FilterMatchesReference ==
    pc = "done" => /\ trades = InBand(input)
                   /\ result = WeightedMean(InBand(input))

=============================================================================
