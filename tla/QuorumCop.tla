------------------------------ MODULE QuorumCop ------------------------------
(***************************************************************************)
(* service_nodes::quorum_cop (src/src/cryptonote_core/quorum_cop.cpp):     *)
(* the block_added scan that judges the service nodes under test at every  *)
(* height old enough to be final and casts deregistration the       *)
(* reorg guard blockchain_detached, the init hook run at daemon start, and *)
(* the two registries (UptimeRegistry, RibbonRegistry) that network        *)
(* threads fill while the scan reads them.                                 *)
(*                                                                         *)
(* block_added runs on the block-processing thread and takes m_lock only   *)
(* around the test of one candidate, so the scan is a sequence of steps    *)
(* (scan.pc) between which proofs, attestations and pruning interleave.    *)
(* blockchain_detached and the init hook run on the same thread as         *)
(* block_added and never interleave with a scan.                           *)
(***************************************************************************)
EXTENDS UptimeRegistry, RibbonRegistry, Sequences, FiniteSets

CONSTANTS
    Me,             \* the local node's service node key
    HasKeys,        \* core::get_service_node_keys succeeds
    MIN_LIFETIME,   \* min_lifetime, 60 * 60 * 2 in block_added
    REORG_SAFETY_BUFFER_IN_BLOCKS,
    VOTE_LIFETIME_BY_HEIGHT,
    V5Height,       \* first height of hard fork 5 (deregistration)
    V6Height,       \* first height of hard fork 6 (ribbon consensus)
    QuorumStates,   \* core::get_quorum_state: height -> quorum_state
    NoState,        \* get_quorum_state returned a null pointer
    MaxHeight,      \* bound on the chain height, for model checking
    U64,            \* 2^64: uint64_t arithmetic is modulo U64
    Means,          \* filtered volume-weighted means of an exchange's trades
    NoTrades,       \* the exchange reported no trade in the last block
    UsdReplies,     \* feed -> what its BTC-USD request may answer
    FeedDown,       \* a request that failed (no connection, HTTP error)
    NaNCasts,       \* what static_cast<uint64_t> of a NaN yields in the build
    ClearHeights,   \* thresholds the host passes to clear_ribbon_data
    RibbonSenders   \* keys whose ribbon data reaches this node

QuorumStateRecords == [quorum_nodes : Seq(Nodes), nodes_to_test : Seq(Nodes)]

(* The BTC-USD price feeds of ribbon.cpp.                                  *)

\* The exchanges get_usd_average asks.
UsdFeeds == {"gemini", "coinbase_pro", "bitfinex", "nance", "stamp"}

\* get_gemini_btc_usd, get_coinbase_pro_btc_usd, get_bitfinex_btc_usd,
\* get_nance_btc_usd and get_stamp_btc_usd: btc_usd starts at 0 and the
\* loop over document.Size() sets it to the quoted price.  A failed request
\* (CURLOPT_FAILONERROR, no connection) leaves the body empty; its parse
\* yields no member and 0 is returned.
BtcUsd(reply) == IF reply = FeedDown THEN 0 ELSE reply

\* get_usd_average: the five quotes are added up and divided by five, or by
\* four when Coinbase Pro's quote is 0; a 0 from any other feed is counted.
QuotedSum(r) == BtcUsd(r["gemini"]) + BtcUsd(r["coinbase_pro"])
                + BtcUsd(r["bitfinex"]) + BtcUsd(r["nance"]) + BtcUsd(r["stamp"])
QuoteCount(r) == IF BtcUsd(r["coinbase_pro"]) = 0 THEN 4 ELSE 5
GetUsdAverage(r) == QuotedSum(r) \div QuoteCount(r)

\* What the five feeds may answer together.
FeedReplies == {r \in [UsdFeeds -> UNION {UsdReplies[f] : f \in UsdFeeds}] :
                   \A f \in UsdFeeds : r[f] \in UsdReplies[f]}

\* The values get_usd_average may return.
Rates == {GetUsdAverage(r) : r \in FeedReplies}

ASSUME QuorumCopConstantsAssumption ==
    /\ Me \in Nodes
    /\ HasKeys \in BOOLEAN
    /\ MIN_LIFETIME \in Nat
    /\ REORG_SAFETY_BUFFER_IN_BLOCKS \in Nat
    /\ VOTE_LIFETIME_BY_HEIGHT \in Nat
    \* the static_assert of quorum_cop.h
    /\ REORG_SAFETY_BUFFER_IN_BLOCKS < VOTE_LIFETIME_BY_HEIGHT
    /\ V5Height \in Nat /\ V6Height \in Nat /\ V5Height <= V6Height
    /\ MaxHeight \in Nat
    /\ Heights = 0 .. MaxHeight
    /\ QuorumStates \in [Heights -> QuorumStateRecords \cup {NoState}]
    /\ NoState \notin QuorumStateRecords
    /\ U64 \in Nat /\ U64 > MaxHeight
    /\ Means \subseteq Nat /\ NoTrades \notin Means
    /\ FeedDown \notin Nat
    /\ UsdReplies \in [UsdFeeds -> SUBSET (Nat \cup {FeedDown})]
    /\ Rates \subseteq Nat /\ Rates # {}
    \* the quotes of a model are chosen so that the double division of
    \* get_usd_average is exact
    /\ \A r \in FeedReplies : QuotedSum(r) % QuoteCount(r) = 0
    /\ NaNCasts \subseteq Nat /\ NaNCasts # {}
    /\ ClearHeights \subseteq Heights
    /\ Nodes \subseteq Attesters
    /\ RibbonSenders \subseteq Nodes
    /\ \A m \in Means, r \in Rates : m * r * 1000 \in Blues

VARIABLES
    chainHeight,    \* core::get_current_blockchain_height
    cursor,         \* m_last_height
    scan,           \* the locals of a running block_added
    trades,         \* store_trade_history_at_height: height -> stored trades
    market,         \* the trades an exchange reports for the latest block
    usd,            \* the BTC-USD average the price feeds report now
    startTime       \* core::get_start_time

vars == <<now, uptime, lastProof, ribbon, chainHeight, cursor, scan,
          trades, market, usd, startTime>>

-----------------------------------------------------------------------------
(* The host's view of the chain.                                           *)

\* core::get_hard_fork_version
HardForkVersion(h) == IF h >= V6Height THEN 6 ELSE IF h >= V5Height THEN 5 ELSE 4

\* core::get_quorum_state: cached only for heights of the chain.
QuorumAt(h) == IF h < chainHeight THEN QuorumStates[h] ELSE NoState

Maximum(a, b) == IF a >= b THEN a ELSE b

\* std::find over quorum_nodes finds x.
Contains(s, x) == \E i \in 1 .. Len(s) : s[i] = x

(* The ribbon arithmetic of ribbon.cpp.                                    *)

\* convert_btc_to_usd: static_cast<uint64_t>(usd_average * btc * 1000).
ConvertBtcToUsd(btc, rate) == btc * rate * 1000

\* create_ribbon_blue: the USD value of the filtered mean of the trades; the
\* mean of no trade is 0/0, and its cast to uint64_t is any of NaNCasts.
CreateRibbonBlue(t, rate) ==
    IF t = NoTrades THEN {ConvertBtcToUsd(x, rate) : x \in NaNCasts}
                    ELSE {ConvertBtcToUsd(t, rate)}

\* generate_ribbon_data_request: ribbon_blue is 0 without a recent trade.
GeneratedBlue(t, rate) == IF t = NoTrades THEN 0 ELSE ConvertBtcToUsd(t, rate)

-----------------------------------------------------------------------------

\* The locals of block_added: where it is (pc), the loop bound, the fork
\* version, the candidate index, and whether the last candidate test handed
\* a vote to core::add_deregister_vote.  The pool ignores a vote it already
\* holds, so the call, not the pool, is modelled; what the vote carries
\* (height, index, my_index_in_quorum, signature) is left out.
IdleScan == [pc |-> "idle", top |-> 0, version |-> 0, index |-> 0,
             cast |-> FALSE]

QCTypeOK ==
    /\ TypeOK
    /\ RibbonTypeOK
    /\ chainHeight \in Heights
    /\ cursor \in 0 .. U64 - 1
    /\ scan \in [pc : {"idle", "loop", "test"}, top : 0 .. U64 - 1,
                 version : 0 .. 6, index : Nat, cast : BOOLEAN]
    /\ trades \in [Heights -> Means \cup {NoTrades}]
    /\ market \in Means \cup {NoTrades}
    /\ usd \in Rates
    /\ startTime \in StartTime .. MaxTime

\* The constructor and init(): m_last_height = 0 and both maps cleared.
Init ==
    /\ UptimeInit
    /\ RibbonInit
    /\ chainHeight = 0
    /\ cursor = 0
    /\ scan = IdleScan
    /\ trades = [h \in Heights |-> NoTrades]
    /\ market \in Means \cup {NoTrades}
    /\ usd \in Rates
    /\ startTime = now

-----------------------------------------------------------------------------
(* block_added, its entry: the block at height chainHeight is appended;    *)
(* target is core::get_target_blockchain_height.                          *)

\* The early returns of block_added, in their order.
BlockIgnored(height, latest) ==
    \/ HardForkVersion(height) < 5
    \/ ~HasKeys
    \/ now - startTime < MIN_LIFETIME
    \/ latest < VOTE_LIFETIME_BY_HEIGHT
    \/ height < latest - VOTE_LIFETIME_BY_HEIGHT

BlockAdded(target) ==
    LET height  == chainHeight
        version == HardForkVersion(height)
        latest  == Maximum(chainHeight + 1, target)
        from    == latest - VOTE_LIFETIME_BY_HEIGHT
    IN  /\ scan.pc = "idle"
        /\ chainHeight < MaxHeight
        /\ chainHeight' = chainHeight + 1
        /\ \/ /\ BlockIgnored(height, latest)
              /\ UNCHANGED <<cursor, scan, trades>>
           \/ /\ ~BlockIgnored(height, latest)
              /\ cursor' = Maximum(cursor, from)
              /\ trades' = IF version > 5 THEN [trades EXCEPT ![height] = market]
                                          ELSE trades
              /\ scan' = [pc |-> "loop",
                           top |-> (height - REORG_SAFETY_BUFFER_IN_BLOCKS) % U64,
                           version |-> version, index |-> 0, cast |-> FALSE]
        /\ UNCHANGED <<now, uptime, lastProof, ribbon, market, usd,
                       startTime>>

(* The loop over m_last_height.                                            *)

\* Height h passes the three "continue"s before its candidates are judged:
\* the fork, a cached quorum state, and the local node among the voters.
JudgesHeight(h) ==
    /\ HardForkVersion(h) >= 5
    /\ QuorumAt(h) # NoState
    /\ Contains(QuorumAt(h).quorum_nodes, Me)

\* Mistake: the loop bound tested with "<=", judging the height at the
\* buffer's edge (VoteTimely catches it).
LoopContinuesInclusive == cursor <= scan.top

\* The loop condition "m_last_height < height - REORG_SAFETY_BUFFER_IN_BLOCKS".
LoopContinues == cursor < scan.top

ScanSkipHeight ==
    /\ scan.pc = "loop"
    /\ LoopContinues
    /\ ~JudgesHeight(cursor)
    /\ cursor' = cursor + 1
    /\ UNCHANGED <<now, uptime, lastProof, ribbon, chainHeight, scan,
                   trades, market, usd, startTime>>

ScanEnterHeight ==
    /\ scan.pc = "loop"
    /\ LoopContinues
    /\ JudgesHeight(cursor)
    /\ scan' = [scan EXCEPT !.pc = "test", !.index = 0]
    /\ UNCHANGED <<now, uptime, lastProof, ribbon, chainHeight, cursor,
                   trades, market, usd, startTime>>

ScanDone ==
    /\ scan.pc = "loop"
    /\ ~LoopContinues
    /\ scan' = IdleScan
    /\ UNCHANGED <<now, uptime, lastProof, ribbon, chainHeight, cursor,
                   trades, market, usd, startTime>>

\* The test of candidate scan.index at height cursor, under m_lock.  At the
\* ribbon tier the node's own ribbon_blue is recomputed from the trades
\* stored for the height and read through operator[], which inserts an
\* empty record when the candidate sent none.
ScanTestCandidate ==
    LET h       == cursor
        node    == QuorumAt(h).nodes_to_test[scan.index + 1]
        key     == <<node, h>>
        seen    == node \in DOMAIN uptime
        Judge(pass) == scan' = [scan EXCEPT !.index = scan.index + 1, !.cast = ~pass]
    IN  /\ scan.pc = "test"
        /\ scan.index < Len(QuorumAt(h).nodes_to_test)
        /\ \/ /\ scan.version > 5
              /\ \E myBlue \in {ConvertBtcToUsd(x, usd) :
                                   x \in CreateRibbonBlue(trades[h], usd)} :
                    LET received == IF key \in DOMAIN ribbon THEN ribbon[key] ELSE EmptyRibbon
                    IN  /\ ribbon' = IF key \in DOMAIN ribbon THEN ribbon
                                     ELSE [k \in DOMAIN ribbon \cup {key} |->
                                             IF k = key THEN EmptyRibbon ELSE ribbon[k]]
                        /\ Judge(seen /\ key \in DOMAIN ribbon /\ myBlue = received.blue)
           \/ /\ scan.version <= 5
              /\ ribbon' = ribbon
              /\ Judge(seen)
        /\ UNCHANGED <<now, uptime, lastProof, chainHeight, cursor, trades,
                       market, usd, startTime>>

\* Mistake: the loop's "m_last_height++" left out (ScanCompletes catches it).
ScanNextHeightStuck ==
    /\ scan.pc = "test"
    /\ scan.index >= Len(QuorumAt(cursor).nodes_to_test)
    /\ scan' = [scan EXCEPT !.pc = "loop"]
    /\ UNCHANGED <<now, uptime, lastProof, ribbon, chainHeight, cursor,
                   trades, market, usd, startTime>>

ScanNextHeight ==
    /\ scan.pc = "test"
    /\ scan.index >= Len(QuorumAt(cursor).nodes_to_test)
    /\ cursor' = cursor + 1
    /\ scan' = [scan EXCEPT !.pc = "loop"]
    /\ UNCHANGED <<now, uptime, lastProof, ribbon, chainHeight,
                   trades, market, usd, startTime>>

-----------------------------------------------------------------------------
(* blockchain_detached: the chain is popped back to height d.              *)

\* Mistakes: m_last_height left where it was (CursorBound catches it), or
\* set one below the new height (QCTypeOK catches the wrap at height 0).
BlockchainDetachedNoReset(d) ==
    /\ scan.pc = "idle"
    /\ d < chainHeight
    /\ chainHeight' = d
    /\ UNCHANGED <<now, uptime, lastProof, ribbon, cursor, scan, trades,
                   market, usd, startTime>>

BlockchainDetachedOffByOne(d) ==
    /\ scan.pc = "idle"
    /\ d < chainHeight
    /\ chainHeight' = d
    /\ cursor' = IF cursor >= d THEN d - 1 ELSE cursor
    /\ UNCHANGED <<now, uptime, lastProof, ribbon, scan, trades,
                   market, usd, startTime>>

BlockchainDetached(d) ==
    /\ scan.pc = "idle"
    /\ d < chainHeight
    /\ chainHeight' = d
    /\ cursor' = IF cursor >= d THEN d ELSE cursor
    /\ UNCHANGED <<now, uptime, lastProof, ribbon, scan, trades,
                   market, usd, startTime>>

\* The daemon restarts: the registries and m_last_height are rebuilt by
\* the constructor; the chain and the trade history are on disk.
Restart ==
    /\ uptime' = [n \in {} |-> 0]
    /\ lastProof' = [n \in {} |-> 0]
    /\ ribbon' = [k \in {} |-> EmptyRibbon]
    /\ cursor' = 0
    /\ scan' = IdleScan
    /\ startTime' = now
    /\ UNCHANGED <<now, chainHeight, trades, market, usd>>

-----------------------------------------------------------------------------
(* The network threads and the outside world.                              *)

\* handle_uptime_proof, on a network thread.
ReceiveUptimeProof(n, ts, versionOk, sigOk) ==
    /\ HandleUptimeProof(n, ts, versionOk, sigOk)
    /\ UNCHANGED <<ribbon, chainHeight, cursor, scan, trades, market,
                   usd, startTime>>

\* prune_uptime_proof, run periodically by the core.
Prune ==
    /\ PruneUptimeProof
    /\ UNCHANGED <<ribbon, chainHeight, cursor, scan, trades, market,
                   usd, startTime>>

\* handle_ribbon_data_received for the request a node n built with
\* generate_ribbon_data_request at the chain's top (honest), or for any
\* other value n signed.
ReceiveRibbonData(n, blue) ==
    /\ chainHeight > 0
    /\ HandleRibbonData(n, chainHeight - 1, blue, TRUE)
    /\ UNCHANGED <<now, uptime, lastProof, chainHeight, cursor, scan,
                   trades, market, usd, startTime>>

\* clear_ribbon_data, called by the host.
ClearRibbon(c) ==
    /\ ClearRibbonData(c)
    /\ UNCHANGED <<now, uptime, lastProof, chainHeight, cursor, scan,
                   trades, market, usd, startTime>>

\* The wall clock and the exchanges move on, and the BTC-USD feeds answer
\* anew: every later get_usd_average returns the average of the new quotes.
Clock ==
    /\ Tick
    /\ UNCHANGED <<ribbon, chainHeight, cursor, scan, trades, market,
                   usd, startTime>>

MarketMoves ==
    /\ market' \in (Means \cup {NoTrades}) \ {market}
    /\ UNCHANGED <<now, uptime, lastProof, ribbon, chainHeight, cursor, scan,
                   trades, usd, startTime>>

UsdMoves ==
    /\ \E r \in FeedReplies : usd' = GetUsdAverage(r)
    /\ usd' # usd
    /\ UNCHANGED <<now, uptime, lastProof, ribbon, chainHeight, cursor, scan,
                   trades, market, startTime>>

Next ==
    \/ \E t \in Heights : BlockAdded(t)
    \/ ScanSkipHeight
    \/ ScanEnterHeight
    \/ ScanTestCandidate
    \/ ScanNextHeight
    \/ ScanDone
    \/ \E d \in Heights : BlockchainDetached(d)
    \/ Restart
    \/ \E n \in Nodes, ts \in ProofTimes, v \in BOOLEAN, s \in BOOLEAN :
          ReceiveUptimeProof(n, ts, v, s)
    \/ Prune
    \/ \E n \in RibbonSenders, b \in {GeneratedBlue(market, usd), 0} : ReceiveRibbonData(n, b)
    \/ \E c \in ClearHeights : ClearRibbon(c)
    \/ Clock
    \/ MarketMoves
    \/ UsdMoves

Spec == Init /\ [][Next]_vars

\* The steps of a running block_added.  The block-processing thread keeps
\* running the call it is in: no other thread waits for it or blocks it
\* (m_lock is held by the network threads only for a map operation), so
\* the scan's steps are weakly fair.
ScanSteps == ScanSkipHeight \/ ScanEnterHeight \/ ScanTestCandidate
             \/ ScanNextHeight \/ ScanDone

FairSpec == Spec /\ WF_vars(ScanSteps)

-----------------------------------------------------------------------------
(***************************************************************************)
(* Properties.                                                             *)
(***************************************************************************)

\* The candidate a scan step tests, and whether the step is that test at
\* the uptime tier or at the ribbon tier and casts a vote.
Tested == QuorumAt(cursor).nodes_to_test[scan.index + 1]
TestStep(tier) ==
    /\ scan.pc = "test" /\ scan'.pc = "test" /\ scan'.index = scan.index + 1
    /\ IF tier = "uptime" THEN scan.version <= 5 ELSE scan.version > 5
Votes(tier) == TestStep(tier) /\ scan'.cast

\* The scan's cursor never runs ahead of the chain: block_added only moves
\* m_last_height to heights at least REORG_SAFETY_BUFFER_IN_BLOCKS below
\* the block it was called for, and blockchain_detached pulls it back when
\* the chain shrinks below it.  A cursor past the tip would skip every
\* height up to it without judging anyone.
CursorBound == cursor <= chainHeight

\* A block_added that started its loop returns: every height up to the
\* buffer's edge is skipped or has each of its candidates tested, whatever
\* proofs, attestations and pruning interleave, so the next block is
\* processed.
ScanCompletes == scan.pc # "idle" ~> scan.pc = "idle"

\* Every vote block_added casts for the block at height chainHeight - 1 is
\* for a height more than REORG_SAFETY_BUFFER_IN_BLOCKS below it (final)
\* and still within the vote lifetime, even when the node was unable to
\* vote for a while (restart, not yet running for MIN_LIFETIME) or when a
\* reorg pulled the cursor back.
VoteTimely ==
    [][(Votes("uptime") \/ Votes("ribbon")) =>
          /\ cursor + REORG_SAFETY_BUFFER_IN_BLOCKS < chainHeight - 1
          /\ cursor + VOTE_LIFETIME_BY_HEIGHT >= chainHeight]_vars

\* A node this process accepted an uptime proof from, whose proof is not yet
\* older than UPTIME_PROOF_MAX_TIME_IN_SECONDS, is never voted against at
\* the uptime-only tier, although prune_uptime_proof runs between the
\* candidate tests of a scan.
Fresh(n) == n \in DOMAIN lastProof /\ lastProof[n] >= now - UPTIME_PROOF_MAX_TIME_IN_SECONDS

RecentProofSpares == [][Votes("uptime") => ~Fresh(Tested)]_vars

\* The scan seen from above: the chain's height is the tip of JusticeWindow
\* and m_last_height its cursor.
Window == INSTANCE JusticeWindow WITH tip <- chainHeight, next <- cursor

\* block_added, blockchain_detached and a restart together implement
\* JusticeWindow: m_last_height passes heights one at a time, in increasing
\* order, only final heights whose votes are still valid, and goes back only
\* to the height blockchain_detached cuts the chain to, or to 0 on restart.
WindowRefinement == Window!Spec

(***************************************************************************)
(* Properties that the code is expected to have and does not; each is     *)
(* checked by a run that expects a violation.                              *)
(***************************************************************************)

\* Spec section 8, scenario A, and section 7 ("rejected input: no state
\* mutated"): at the uptime tier a candidate from which this process never
\* accepted an uptime proof is voted against.
NoProofNoPass ==
    [][TestStep("uptime") /\ Tested \notin DOMAIN lastProof => scan'.cast]_vars

\* A record handle_ribbon_data_received stores carries the height of its
\* key; one that does not was never received from a peer.
Received(key) == key \in DOMAIN ribbon /\ ribbon[key].height = key[2]

\* Spec section 4.4 d: at the ribbon tier a candidate that sent no ribbon
\* data for the height is voted against.
NoAttestationNoPass ==
    [][TestStep("ribbon") /\ ~Received(<<Tested, cursor>>) => scan'.cast]_vars

\* Spec section 8, scenario C, and section 4.4 d: a candidate is voted
\* against at the ribbon tier only if its ribbon data disagrees with the
\* value recomputed for the height; one with a fresh uptime proof that
\* reported the value generate_ribbon_data_request derives from the very
\* trades this node stored for the height is spared.
HonestAttestationSpared ==
    [][TestStep("ribbon") /\ Fresh(Tested) /\ Received(<<Tested, cursor>>)
         /\ trades[cursor] # NoTrades
         /\ ribbon[<<Tested, cursor>>].blue = GeneratedBlue(trades[cursor], usd)
       => ~scan'.cast]_vars

=============================================================================
