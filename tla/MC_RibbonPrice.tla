--------------------------- MODULE MC_RibbonPrice ---------------------------
(* Model-checking instances of RibbonPrice.                                *)
EXTENDS RibbonPrice

\* Every vector of at most MaxTrades trades.
MCAllInputs == BoundedSeq(Trades, MaxTrades)

\* Vectors of exactly MaxTrades trades, the cheap ones at price 0 bought in
\* lots of 1 or 3 and the dear ones in lots of 1: two trades can lie out of
\* the band only in a vector of nine or more.
MCSkewedInputs ==
    [1 .. MaxTrades -> {t \in Trades : t.price = 0 \/ t.quantity = 1}]

=============================================================================
