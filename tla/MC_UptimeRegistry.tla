------------------------- MODULE MC_UptimeRegistry -------------------------
(* Model-checking instance of UptimeRegistry: two service nodes and one    *)
(* key that is not a service node, the proof intervals scaled down.        *)
EXTENDS UptimeRegistry, TLC

CONSTANTS a, b, c

MCNodes == {a, b, c}
MCServiceNodes == {a, b}

\* Nothing in the registry tells keys apart.
MCSymmetry == Permutations({a, b})

=============================================================================
