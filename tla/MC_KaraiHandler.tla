--------------------------- MODULE MC_KaraiHandler --------------------------
(* Model-checking instance of KaraiHandler: two keys, one contract, prices *)
(* of one and two characters, one heap address, and libstdc++'s SSO of 15, *)
(* so prices are stored inline and every nonempty node list on the heap.   *)
EXTENDS KaraiHandler

CONSTANTS k1, k2, c1, p1

MCKeys == {k1, k2}

MCPrices == {<<"1">>, <<"1", "0">>, <<"0", "1">>}

\* No answer, no contract, one contract, one whose pair is missing, and the
\* same contract twice.
MCContractReplies == {NoReply, <<>>, <<c1>>, <<NoPair, c1>>, <<c1, c1>>}

=============================================================================
