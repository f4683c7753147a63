CONSTANTS
    Prices = {0, 1}
    Quantities = {1, 3}
    MaxTrades = 9
    Inputs <- MCSkewedInputs
SPECIFICATION Spec
\* filter_trades_by_deviation returns: the behaviour ends.
CHECK_DEADLOCK FALSE
INVARIANT FilterMatchesReference
