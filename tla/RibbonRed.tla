----------------------------- MODULE RibbonRed -----------------------------
(***************************************************************************)
(* ribbon_protocol::create_ribbon_red (src/src/cryptonote_core/ribbon.cpp):*)
(* the average of four volume-weighted moving averages of the ribbon_blue  *)
(* values stored in the last 1440, 720, 360 and 180 blocks, computed in    *)
(* uint64_t.  The windows are constants, scaled down for a model.          *)
(*                                                                         *)
(* The function reads the chain and changes nothing; the module's one      *)
(* variable is the chain it reads.                                         *)
(***************************************************************************)
EXTENDS Integers, Sequences

CONSTANTS
    Windows,        \* <<1440, 720, 360, 180>>
    Volumes,        \* ribbon_volume values a block may store
    Blues,          \* ribbon_blue values a block may store
    U64             \* 2^64

ASSUME RibbonRedAssumption ==
    /\ Windows \in [1 .. 4 -> Nat \ {0}]
    /\ \A k \in 1 .. 4 : Windows[k] <= Windows[1]
    /\ Volumes \subseteq Nat /\ Blues \subseteq Nat
    /\ U64 \in Nat \ {0}

Span == Windows[1]

\* blocks[i] is the block at height - i.
VARIABLE blocks

Init == blocks \in [1 .. Span -> [volume : Volumes, blue : Blues]]

Next == UNCHANGED blocks

Spec == Init /\ [][Next]_blocks

\* The value of sum_{i = 1..n} x[i] in uint64_t, every addition and every
\* term wrapping modulo U64.
WrapSum(n, x) ==
    LET s[k \in 0 .. n] == IF k = 0 THEN 0 ELSE (s[k - 1] + (x[k] % U64)) % U64
    IN  s[n]

\* The terms the loops add up, block by block: the product
\* blk.ribbon_volume * blk.ribbon_blue and the volume.
Products == [i \in 1 .. Span |-> blocks[i].volume * blocks[i].blue]
Vols == [i \in 1 .. Span |-> blocks[i].volume]

\* Mistake: dividing by the number of blocks of the window instead of the
\* volume they hold (RedWithinBluesWhenDefined catches it).
MovingAveragesPerBlock(k) ==
    LET sum == WrapSum(Windows[k], Products)
        vol == WrapSum(Windows[k], Vols)
    IN  IF vol > 0 THEN {sum \div Windows[k]}
        ELSE IF k = 3 THEN 0 .. U64 - 1 ELSE {0}

\* The k-th moving average: ma_sum / ma_vol_sum when the window holds some
\* volume, else 0.  For the third the else branch is missing and ma3 is
\* read uninitialised: any uint64_t the stack holds.
MovingAverages(k) ==
    LET sum == WrapSum(Windows[k], Products)
        vol == WrapSum(Windows[k], Vols)
    IN  IF vol > 0 THEN {sum \div vol}
        ELSE IF k = 3 THEN 0 .. U64 - 1 ELSE {0}

\* The values create_ribbon_red may return.
CreateRibbonRed ==
    {((a + b + c + d) % U64) \div 4 :
        a \in MovingAverages(1), b \in MovingAverages(2),
        c \in MovingAverages(3), d \in MovingAverages(4)}

\* ma3_vol_sum > 0: the 360-block window holds some volume, so the branch
\* that assigns ma3 is taken.
Ma3Defined == WrapSum(Windows[3], Vols) > 0

-----------------------------------------------------------------------------
\* The spec's ribbon red is an average of averages of the blue values the
\* chain stores: create_ribbon_red never returns more than the largest
\* ribbon_blue of the last 1440 blocks.
RedWithinBlues ==
    \A r \in CreateRibbonRed :
        \E i \in 1 .. Span : r <= blocks[i].blue


\* Wherever the code assigns every moving average (ma3_vol_sum > 0), its
\* result is an average of the stored blues: blocks without volume, windows
\* without volume (ma1, ma2, ma4 = 0) and product sums that wrap in
\* uint64_t never push create_ribbon_red above the largest ribbon_blue.
RedWithinBluesWhenDefined == Ma3Defined => RedWithinBlues

=============================================================================
