CONSTANTS
    Prices = {0, 4}
    Quantities = {1, 2}
    MaxTrades = 5
    Inputs <- MCAllInputs
SPECIFICATION Spec
\* filter_trades_by_deviation returns: the behaviour ends.
CHECK_DEADLOCK FALSE
INVARIANT FilterKeepsInBand
