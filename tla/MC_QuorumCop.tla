--------------------------- MODULE MC_QuorumCop ----------------------------
(* Model-checking instance of QuorumCop: the local node me and one other   *)
(* service node x, each under test in the other's quorum at some heights.  *)
EXTENDS QuorumCop, TLC

CONSTANTS me, x

MCNodes == {me, x}

\* Height 2 has no cached quorum state; at height 3 me is the candidate and
\* x the only voter; elsewhere me votes on x.
MCQuorumStates ==
    [h \in 0 .. MaxHeight |->
        CASE h = 2 -> NoState
          [] h = 3 -> [quorum_nodes |-> <<x>>, nodes_to_test |-> <<me>>]
          [] OTHER -> [quorum_nodes |-> <<me>>, nodes_to_test |-> <<x>>]]

MCHeights == 0 .. MaxHeight

MCNoSenders == {}
MCSenders == {x}

\* Only x is ever judged by the local node, so only its proofs matter.
MCServiceNodes == {x}

\* Every feed quotes 1.
MCSteadyFeeds == [f \in UsdFeeds |-> {1}]

\* Gemini and Coinbase Pro may fail; the others quote 20.  get_usd_average
\* then returns 20, 16 (Gemini down) or 15 (both down).
MCFlakyFeeds ==
    [f \in UsdFeeds |-> IF f \in {"gemini", "coinbase_pro"} THEN {20, FeedDown} ELSE {20}]

MCBlues == {0} \cup {ConvertBtcToUsd(m, r) : m \in Means, r \in Rates}

=============================================================================
