--------------------------- MODULE QuorumCopProofs ---------------------------
(***************************************************************************)
(* Proofs about the quorum_cop scan, for every value of the constants that *)
(* the assumptions of QuorumCop, UptimeRegistry and RibbonRegistry allow.  *)
(***************************************************************************)
EXTENDS QuorumCop, UptimeRegistryProofs, TLAPS

\* A test of block_added's inner loop counts the candidate and records
\* whether a vote was cast, and leaves the rest of the loop's state alone.
LEMMA JudgedScan ==
    ASSUME NEW b,
           NEW s \in [pc : {"idle", "loop", "test"}, top : 0 .. U64 - 1,
                      version : 0 .. 6, index : Nat, cast : BOOLEAN]
    PROVE  [s EXCEPT !.index = s.index + 1, !.cast = b]
             = [pc |-> s.pc, top |-> s.top, version |-> s.version,
                index |-> s.index + 1, cast |-> b]
<1>1. [s EXCEPT !.index = s.index + 1]
        = [pc |-> s.pc, top |-> s.top, version |-> s.version,
           index |-> s.index + 1, cast |-> s.cast]
  OBVIOUS
<1>2. [[pc |-> s.pc, top |-> s.top, version |-> s.version,
        index |-> s.index + 1, cast |-> s.cast] EXCEPT !.cast = b]
        = [pc |-> s.pc, top |-> s.top, version |-> s.version,
           index |-> s.index + 1, cast |-> b]
  OBVIOUS
<1>. QED
  BY <1>1, <1>2

\* Moving block_added to another point of its loop changes only where it is.
LEMMA MovedScan ==
    ASSUME NEW p,
           NEW s \in [pc : {"idle", "loop", "test"}, top : 0 .. U64 - 1,
                      version : 0 .. 6, index : Nat, cast : BOOLEAN]
    PROVE  [s EXCEPT !.pc = p]
             = [pc |-> p, top |-> s.top, version |-> s.version,
                index |-> s.index, cast |-> s.cast]
OBVIOUS

\* Entering a height starts its candidates from the first.
LEMMA EnteredScan ==
    ASSUME NEW s \in [pc : {"idle", "loop", "test"}, top : 0 .. U64 - 1,
                      version : 0 .. 6, index : Nat, cast : BOOLEAN]
    PROVE  [s EXCEPT !.pc = "test", !.index = 0]
             = [pc |-> "test", top |-> s.top, version |-> s.version,
                index |-> 0, cast |-> s.cast]
<1>1. [s EXCEPT !.pc = "test"]
        = [pc |-> "test", top |-> s.top, version |-> s.version,
           index |-> s.index, cast |-> s.cast]
  BY MovedScan
<1>2. [[pc |-> "test", top |-> s.top, version |-> s.version,
        index |-> s.index, cast |-> s.cast] EXCEPT !.index = 0]
        = [pc |-> "test", top |-> s.top, version |-> s.version,
           index |-> 0, cast |-> s.cast]
  OBVIOUS
<1>. QED
  BY <1>1, <1>2

USE UptimeConstantsAssumption, RibbonConstantsAssumption, QuorumCopConstantsAssumption

\* Hard fork 5 starts at a height at least REORG_SAFETY_BUFFER_IN_BLOCKS, as
\* on every public network of the daemon.  Without it the loop bound
\* "height - REORG_SAFETY_BUFFER_IN_BLOCKS" of block_added wraps around (the
\* run MC_QuorumCop_wrap shows the cursor then leaving the chain).
NoForkBelowBuffer == V5Height >= REORG_SAFETY_BUFFER_IN_BLOCKS

\* While block_added runs, its loop bound lies below the block it was
\* called for, the cursor is on the chain, and a height whose candidates
\* are being tested lies below the bound and has a quorum state.
ScanWithinChain ==
    scan.pc # "idle" => /\ scan.top < chainHeight
                        /\ cursor < chainHeight
                        /\ scan.pc = "test" => /\ cursor < scan.top
                                               /\ QuorumAt(cursor) \in QuorumStateRecords

QInv == QCTypeOK /\ CursorBound /\ ScanWithinChain

\* Every step but a restart is a step of the uptime registry or leaves it
\* alone.
LEMMA UptimeSteps ==
    ASSUME [Next]_vars, ~Restart
    PROVE  [UptimeNext]_uptimeVars
<1>1. CASE \E n \in Nodes, ts \in ProofTimes, v \in BOOLEAN, s \in BOOLEAN :
              ReceiveUptimeProof(n, ts, v, s)
  BY <1>1 DEF ReceiveUptimeProof, UptimeNext
<1>2. CASE Prune
  BY <1>2 DEF Prune, UptimeNext
<1>3. CASE Clock
  BY <1>3 DEF Clock, UptimeNext
<1>4. CASE ~(\E n \in Nodes, ts \in ProofTimes, v \in BOOLEAN, s \in BOOLEAN :
                ReceiveUptimeProof(n, ts, v, s))
           /\ ~Prune /\ ~Clock
  BY <1>4 DEF Next, vars, uptimeVars, BlockAdded, ScanSkipHeight, ScanEnterHeight,
              ScanTestCandidate, ScanNextHeight, ScanDone, BlockchainDetached,
              ReceiveRibbonData, ClearRibbon, MarketMoves, UsdMoves
<1>. QED
  BY <1>1, <1>2, <1>3, <1>4

LEMMA QInvInit == Init => QInv
BY DEF Init, QInv, QCTypeOK, CursorBound, ScanWithinChain, UptimeInit, TypeOK,
       RibbonInit, RibbonTypeOK, IdleScan, Times

\* The parts of QInv about the chain and the scan, other than the type of
\* the registries.
ScanTypeOK ==
    /\ chainHeight \in Heights
    /\ cursor \in 0 .. U64 - 1
    /\ scan \in [pc : {"idle", "loop", "test"}, top : 0 .. U64 - 1,
                 version : 0 .. 6, index : Nat, cast : BOOLEAN]
    /\ trades \in [Heights -> Means \cup {NoTrades}]
    /\ market \in Means \cup {NoTrades}
    /\ usd \in Rates
    /\ startTime \in StartTime .. MaxTime

LEMMA QCTypeOKSplit == QCTypeOK <=> TypeOK /\ RibbonTypeOK /\ ScanTypeOK
BY DEF QCTypeOK, ScanTypeOK

ChainInv == ScanTypeOK /\ CursorBound /\ ScanWithinChain

\* block_added's entry keeps the cursor on the chain: it is raised to
\* latest - VOTE_LIFETIME_BY_HEIGHT only when the block's height is at
\* least that, and the loop bound is REORG_SAFETY_BUFFER_IN_BLOCKS below
\* the block, which the fork height keeps from wrapping.
LEMMA BlockAddedChain ==
    ASSUME NoForkBelowBuffer, ChainInv, NEW t \in Heights, BlockAdded(t)
    PROVE  ChainInv'
<1> DEFINE height == chainHeight
           latest == Maximum(chainHeight + 1, t)
           from   == latest - VOTE_LIFETIME_BY_HEIGHT
<1>0. /\ chainHeight \in 0 .. MaxHeight - 1
      /\ chainHeight' = chainHeight + 1
      /\ scan.pc = "idle"
      /\ UNCHANGED <<market, usd, startTime>>
  BY DEF BlockAdded, ChainInv, ScanTypeOK
<1>1. CASE BlockIgnored(height, latest)
  <2>1. UNCHANGED <<cursor, scan, trades>>
    BY <1>1 DEF BlockAdded
  <2>. QED
    BY <1>0, <2>1 DEF ChainInv, ScanTypeOK, CursorBound, ScanWithinChain
<1>2. CASE ~BlockIgnored(height, latest)
  <2>1. /\ cursor' = Maximum(cursor, from)
        /\ trades' = IF HardForkVersion(height) > 5
                        THEN [trades EXCEPT ![height] = market] ELSE trades
        /\ scan' = [pc |-> "loop",
                     top |-> (height - REORG_SAFETY_BUFFER_IN_BLOCKS) % U64,
                     version |-> HardForkVersion(height), index |-> 0, cast |-> FALSE]
    BY <1>2 DEF BlockAdded
  <2>2. /\ height >= REORG_SAFETY_BUFFER_IN_BLOCKS
        /\ from <= height
        /\ latest \in Int
    BY <1>0, <1>2 DEF BlockIgnored, HardForkVersion, NoForkBelowBuffer, Maximum
  <2>3. cursor' \in 0 .. height
    <3>1. from \in Int /\ from <= height
      BY <2>2 DEF from
    <3>2. cursor \in 0 .. height
      BY DEF ChainInv, CursorBound, ScanTypeOK, height
    <3>. QED
      BY <2>1, <3>1, <3>2 DEF Maximum
  <2>4. scan' = [pc |-> "loop", top |-> height - REORG_SAFETY_BUFFER_IN_BLOCKS,
                 version |-> HardForkVersion(height), index |-> 0, cast |-> FALSE]
    <3>1. height - REORG_SAFETY_BUFFER_IN_BLOCKS \in 0 .. U64 - 1
      BY <1>0, <2>2 DEF height
    <3>2. (height - REORG_SAFETY_BUFFER_IN_BLOCKS) % U64 = height - REORG_SAFETY_BUFFER_IN_BLOCKS
      BY <3>1
    <3>. QED
      BY <2>1, <3>2
  <2>5. scan' \in [pc : {"idle", "loop", "test"}, top : 0 .. U64 - 1,
                   version : 0 .. 6, index : Nat, cast : BOOLEAN]
    <3>1. height - REORG_SAFETY_BUFFER_IN_BLOCKS \in 0 .. U64 - 1
      BY <1>0, <2>2 DEF height
    <3>2. HardForkVersion(height) \in 0 .. 6
      BY DEF HardForkVersion
    <3>. QED
      BY <2>4, <3>1, <3>2
  <2>6. trades' \in [Heights -> Means \cup {NoTrades}]
    BY <1>0, <2>1 DEF ChainInv, ScanTypeOK
  <2>7. ScanWithinChain'
    BY <1>0, <2>2, <2>3, <2>4 DEF ScanWithinChain, height
  <2>8. ScanTypeOK'
    BY <1>0, <2>3, <2>5, <2>6 DEF ChainInv, ScanTypeOK, height
  <2>. QED
    BY <1>0, <2>3, <2>7, <2>8 DEF ChainInv, CursorBound, height
<1>. QED
  BY <1>1, <1>2

\* The loop's steps move the cursor by one, and only below the bound.
LEMMA ScanChain ==
    ASSUME ChainInv, ScanSteps
    PROVE  ChainInv'
<1> USE DEF ChainInv, ScanTypeOK, CursorBound, ScanWithinChain
<1>1. CASE ScanSkipHeight
  BY <1>1 DEF ScanSkipHeight, LoopContinues
<1>2. CASE ScanEnterHeight
  <2>0. scan' = [scan EXCEPT !.pc = "test", !.index = 0]
    BY <1>2 DEF ScanEnterHeight
  <2>1. /\ scan.pc = "loop" /\ cursor < scan.top /\ JudgesHeight(cursor)
        /\ UNCHANGED <<chainHeight, cursor, trades, market, usd, startTime>>
    BY <1>2 DEF ScanEnterHeight, LoopContinues
  <2>2. QuorumAt(cursor) \in QuorumStateRecords
    <3>1. cursor \in Heights /\ cursor < chainHeight
      BY <2>1
    <3>. QED
      BY <2>1, <3>1 DEF JudgesHeight, QuorumAt
  <2>3. scan' = [pc |-> "test", top |-> scan.top, version |-> scan.version,
                 index |-> 0, cast |-> scan.cast]
    <3>1. scan \in [pc : {"idle", "loop", "test"}, top : 0 .. U64 - 1,
                    version : 0 .. 6, index : Nat, cast : BOOLEAN]
      OBVIOUS
    <3>2. [scan EXCEPT !.pc = "test", !.index = 0]
            = [pc |-> "test", top |-> scan.top, version |-> scan.version,
               index |-> 0, cast |-> scan.cast]
      BY <3>1, EnteredScan
    <3>. QED
      BY <2>0, <3>2, Zenon
  <2>4. QuorumAt(cursor)' = QuorumAt(cursor)
    BY <2>1 DEF QuorumAt
  <2>. QED
    BY <2>1, <2>2, <2>3, <2>4
<1>3. CASE ScanTestCandidate
  <2>1. /\ scan.pc = "test"
        /\ UNCHANGED <<chainHeight, cursor, trades, market, usd, startTime>>
    BY <1>3 DEF ScanTestCandidate
  <2>2. \E b \in BOOLEAN : scan' = [scan EXCEPT !.index = scan.index + 1, !.cast = b]
    BY <1>3, Zenon DEF ScanTestCandidate
  <2>3. PICK b \in BOOLEAN : scan' = [scan EXCEPT !.index = scan.index + 1, !.cast = b]
    BY <2>2
  <2>5. scan' = [pc |-> scan.pc, top |-> scan.top, version |-> scan.version,
                 index |-> scan.index + 1, cast |-> b]
    <3>1. scan \in [pc : {"idle", "loop", "test"}, top : 0 .. U64 - 1,
                    version : 0 .. 6, index : Nat, cast : BOOLEAN]
      OBVIOUS
    <3>2. [scan EXCEPT !.index = scan.index + 1, !.cast = b]
            = [pc |-> scan.pc, top |-> scan.top, version |-> scan.version,
               index |-> scan.index + 1, cast |-> b]
      BY <3>1, JudgedScan
    <3>. QED
      BY <2>3, <3>2, Zenon
  <2>6. QuorumAt(cursor)' = QuorumAt(cursor)
    BY <2>1 DEF QuorumAt
  <2>. QED
    BY <2>1, <2>5, <2>6
<1>4. CASE ScanNextHeight
  <2>0. scan' = [scan EXCEPT !.pc = "loop"]
    BY <1>4 DEF ScanNextHeight
  <2>1. /\ scan.pc = "test"
        /\ cursor' = cursor + 1
        /\ UNCHANGED <<chainHeight, trades, market, usd, startTime>>
    BY <1>4 DEF ScanNextHeight
  <2>2. scan' = [pc |-> "loop", top |-> scan.top, version |-> scan.version,
                 index |-> scan.index, cast |-> scan.cast]
    <3>1. scan \in [pc : {"idle", "loop", "test"}, top : 0 .. U64 - 1,
                    version : 0 .. 6, index : Nat, cast : BOOLEAN]
      OBVIOUS
    <3>2. [scan EXCEPT !.pc = "loop"]
            = [pc |-> "loop", top |-> scan.top, version |-> scan.version,
               index |-> scan.index, cast |-> scan.cast]
      BY <3>1, MovedScan
    <3>. QED
      BY <2>0, <3>2, Zenon
  <2>3. cursor < scan.top /\ scan.top < chainHeight
    BY <2>1
  <2>4. scan' \in [pc : {"idle", "loop", "test"}, top : 0 .. U64 - 1,
                   version : 0 .. 6, index : Nat, cast : BOOLEAN]
    BY <2>2
  <2>5. scan.top \in 0 .. U64 - 1 /\ cursor \in 0 .. U64 - 1 /\ chainHeight \in Nat
    OBVIOUS
  <2>6. cursor' \in 0 .. U64 - 1 /\ cursor' < chainHeight'
    BY <2>1, <2>3, <2>5
  <2>. QED
    BY <2>1, <2>2, <2>3, <2>4, <2>6
<1>5. CASE ScanDone
  BY <1>5 DEF ScanDone, IdleScan
<1>. QED
  BY <1>1, <1>2, <1>3, <1>4, <1>5 DEF ScanSteps

\* blockchain_detached pulls the cursor back to the new height when it is
\* beyond it; a restart sets it to 0; every other step leaves the chain,
\* the cursor and the scan alone.
LEMMA OtherChain ==
    ASSUME TypeOK, ChainInv, [Next]_vars,
           ~\E t \in Heights : BlockAdded(t),
           ~ScanSteps
    PROVE  ChainInv'
<1> USE DEF ChainInv, ScanTypeOK, CursorBound, ScanWithinChain, QuorumAt
<1>1. CASE \E d \in Heights : BlockchainDetached(d)
  BY <1>1 DEF BlockchainDetached
<1>2. CASE Restart
  <2>1. /\ cursor' = 0 /\ scan' = IdleScan /\ startTime' = now
        /\ UNCHANGED <<chainHeight, trades, market, usd>>
    BY <1>2 DEF Restart
  <2>2. now \in StartTime .. MaxTime
    BY DEF TypeOK
  <2>. QED
    BY <2>1, <2>2 DEF IdleScan
<1>3. CASE MarketMoves
  BY <1>3 DEF MarketMoves
<1>4. CASE UsdMoves
  <2>1. usd' \in Rates
    BY <1>4 DEF UsdMoves, Rates
  <2>. QED
    BY <1>4, <2>1 DEF UsdMoves
<1>5. CASE UNCHANGED <<chainHeight, cursor, scan, trades, market, usd, startTime>>
  BY <1>5
<1>. QED
  BY <1>1, <1>2, <1>3, <1>4, <1>5
     DEF Next, vars, ReceiveUptimeProof, Prune, ReceiveRibbonData, ClearRibbon, Clock, ScanSteps

\* Storing a record under a key of the map keeps it a map from keys to
\* records: the shape of both writes to m_ribbon_data_received
\* (handle_ribbon_data_received, and operator[] in block_added).
LEMMA RibbonInsertType ==
    ASSUME RibbonTypeOK, NEW key \in RibbonKeys, NEW r \in RibbonData,
           ribbon' = [k \in DOMAIN ribbon \cup {key} |->
                        IF k = key THEN r ELSE ribbon[k]]
    PROVE  RibbonTypeOK'
BY DEF RibbonTypeOK

\* The candidate block_added tests is a node of the quorum state, at a
\* height of the chain.
LEMMA TestedKey ==
    ASSUME ChainInv, scan.pc = "test",
           scan.index < Len(QuorumAt(cursor).nodes_to_test)
    PROVE  <<QuorumAt(cursor).nodes_to_test[scan.index + 1], cursor>> \in RibbonKeys
<1>1. QuorumAt(cursor) \in QuorumStateRecords /\ cursor < chainHeight
  BY DEF ChainInv, ScanWithinChain
<1>2. QuorumAt(cursor).nodes_to_test \in Seq(Nodes)
  BY <1>1 DEF QuorumStateRecords
<1>3. scan.index \in Nat
  BY DEF ChainInv, ScanTypeOK
<1>4. QuorumAt(cursor).nodes_to_test[scan.index + 1] \in Attesters
  BY <1>2, <1>3
<1>5. cursor \in Heights
  BY <1>1 DEF ChainInv, ScanTypeOK
<1>. QED
  BY <1>4, <1>5 DEF RibbonKeys

\* No step gives m_ribbon_data_received a key or a record outside its type.
LEMMA RibbonStep ==
    ASSUME RibbonTypeOK, ChainInv, [Next]_vars
    PROVE  RibbonTypeOK'
<1>0. EmptyRibbon \in RibbonData
  BY DEF EmptyRibbon, RibbonData
<1>1. CASE ScanTestCandidate
  <2> DEFINE node == QuorumAt(cursor).nodes_to_test[scan.index + 1]
             key  == <<node, cursor>>
  <2>1. /\ scan.pc = "test"
        /\ scan.index < Len(QuorumAt(cursor).nodes_to_test)
        /\ \/ ribbon' = ribbon
           \/ ribbon' = [k \in DOMAIN ribbon \cup {key} |->
                           IF k = key THEN EmptyRibbon ELSE ribbon[k]]
    BY <1>1 DEF ScanTestCandidate, node, key
  <2>2. key \in RibbonKeys
    BY <2>1, TestedKey DEF key, node
  <2>3. CASE ribbon' = ribbon
    BY <2>3 DEF RibbonTypeOK
  <2>4. CASE ribbon' = [k \in DOMAIN ribbon \cup {key} |->
                          IF k = key THEN EmptyRibbon ELSE ribbon[k]]
    BY <1>0, <2>2, <2>4, RibbonInsertType
  <2>. QED
    BY <2>1, <2>3, <2>4
<1>2. CASE \E n \in RibbonSenders, b \in {GeneratedBlue(market, usd), 0} :
              ReceiveRibbonData(n, b)
  <2>1. PICK n \in RibbonSenders, b \in {GeneratedBlue(market, usd), 0} :
               ReceiveRibbonData(n, b)
    BY <1>2
  <2>2. chainHeight > 0 /\ chainHeight \in Heights
    BY <2>1 DEF ReceiveRibbonData, ChainInv, ScanTypeOK
  <2>3. <<n, chainHeight - 1>> \in RibbonKeys
    BY <2>2 DEF RibbonKeys
  <2>4. b \in Blues
    <3>1. market \in Means \cup {NoTrades} /\ usd \in Rates
      BY DEF ChainInv, ScanTypeOK
    <3>. QED
      BY <3>1 DEF GeneratedBlue, ConvertBtcToUsd
  <2>5. [height |-> chainHeight - 1, blue |-> b] \in RibbonData
    BY <2>2, <2>4 DEF RibbonData
  <2>. QED
    BY <2>1, <2>3, <2>5, RibbonInsertType DEF ReceiveRibbonData, HandleRibbonData
<1>3. CASE \E c \in ClearHeights : ClearRibbon(c)
  BY <1>3 DEF ClearRibbon, ClearRibbonData, Restrict, RibbonTypeOK
<1>4. CASE Restart
  BY <1>4 DEF Restart, RibbonTypeOK
<1>5. CASE UNCHANGED ribbon
  BY <1>5 DEF RibbonTypeOK
<1>. QED
  BY <1>1, <1>2, <1>3, <1>4, <1>5
     DEF Next, vars, BlockAdded, ScanSkipHeight, ScanEnterHeight, ScanNextHeight,
         ScanDone, BlockchainDetached, ReceiveUptimeProof, Prune, Clock,
         MarketMoves, UsdMoves

\* The uptime registry keeps its type: a restart empties it, and every
\* other step is a step of UptimeRegistry.
LEMMA UptimeTypeKept ==
    ASSUME TypeOK, [Next]_vars
    PROVE  TypeOK'
<1>1. CASE Restart
  BY <1>1 DEF Restart, TypeOK
<1>2. CASE ~Restart
  BY <1>2, UptimeSteps, UptimeTypeStep
<1>. QED
  BY <1>1, <1>2

\* QInv is inductive when hard fork 5 starts above the reorg buffer.
LEMMA QInvStep ==
    ASSUME NoForkBelowBuffer, QInv, [Next]_vars
    PROVE  QInv'
<1>1. TypeOK /\ RibbonTypeOK /\ ChainInv
  BY QCTypeOKSplit DEF QInv, ChainInv
<1>2. TypeOK' /\ RibbonTypeOK'
  BY <1>1, UptimeTypeKept, RibbonStep
<1>3. ChainInv'
  <2>1. CASE \E t \in Heights : BlockAdded(t)
    BY <1>1, <2>1, BlockAddedChain
  <2>2. CASE ScanSteps
    BY <1>1, <2>2, ScanChain
  <2>3. CASE /\ ~\E t \in Heights : BlockAdded(t)
             /\ ~ScanSteps
    BY <1>1, <2>3, OtherChain
  <2>. QED
    BY <2>1, <2>2, <2>3
<1>. QED
  BY <1>2, <1>3 DEF QInv, ChainInv, QCTypeOK, ScanTypeOK

\* The state of quorum_cop keeps its type, for every value of the
\* constants: in particular m_last_height never wraps below zero, and
\* operator[] never inserts a key outside the maps' types.
THEOREM QuorumCopTypeCorrect ==
    ASSUME NoForkBelowBuffer
    PROVE  Spec => []QCTypeOK
<1>1. Init => QInv
  BY QInvInit
<1>2. QInv /\ [Next]_vars => QInv'
  BY QInvStep
<1>3. QInv => QCTypeOK
  BY DEF QInv
<1>. QED
  BY <1>1, <1>2, <1>3, PTL DEF Spec

\* m_last_height never passes the chain's height: blockchain_detached pulls
\* it back with the chain, and block_added's loop stops below the block.
THEOREM CursorBoundInvariant ==
    ASSUME NoForkBelowBuffer
    PROVE  Spec => []CursorBound
<1>1. Init => QInv
  BY QInvInit
<1>2. QInv /\ [Next]_vars => QInv'
  BY QInvStep
<1>3. QInv => CursorBound
  BY DEF QInv
<1>. QED
  BY <1>1, <1>2, <1>3, PTL DEF Spec

-----------------------------------------------------------------------------
(***************************************************************************)
(* block_added, blockchain_detached and a restart implement JusticeWindow. *)
(***************************************************************************)

\* While block_added runs, its loop bound is REORG_SAFETY_BUFFER_IN_BLOCKS
\* below the block it was called for (the newest, at chainHeight - 1), and
\* the cursor is within VOTE_LIFETIME_BY_HEIGHT of the chain's height: the
\* entry raised it to latest - VOTE_LIFETIME_BY_HEIGHT and latest is above
\* the block.
ScanWindow ==
    scan.pc # "idle" =>
        /\ scan.top = chainHeight - 1 - REORG_SAFETY_BUFFER_IN_BLOCKS
        /\ cursor + VOTE_LIFETIME_BY_HEIGHT >= chainHeight

LEMMA ScanWindowInit == Init => ScanWindow
BY DEF Init, ScanWindow, IdleScan

\* block_added's entry sets the loop bound and raises the cursor; its steps
\* keep the chain and the bound and only raise the cursor; every other step
\* leaves the scan idle or the chain, the cursor and the scan alone.
LEMMA ScanWindowStep ==
    ASSUME NoForkBelowBuffer, QInv, ScanWindow, [Next]_vars
    PROVE  ScanWindow'
<1>0. ChainInv /\ QInv'
  BY QInvStep, QCTypeOKSplit DEF QInv, ChainInv
<1>1. ASSUME NEW t \in Heights, BlockAdded(t)
      PROVE  ScanWindow'
  <2> DEFINE height == chainHeight
             latest == Maximum(chainHeight + 1, t)
             from   == latest - VOTE_LIFETIME_BY_HEIGHT
  <2>1. chainHeight \in Nat /\ chainHeight' = chainHeight + 1 /\ cursor \in Nat
    BY <1>0, <1>1 DEF BlockAdded, ChainInv, ScanTypeOK
  <2>2. CASE BlockIgnored(height, latest)
    BY <1>1, <2>2 DEF BlockAdded, ScanWindow
  <2>3. CASE ~BlockIgnored(height, latest)
    <3>1. /\ cursor' = Maximum(cursor, from)
          /\ scan'.top = (height - REORG_SAFETY_BUFFER_IN_BLOCKS) % U64
      BY <1>1, <2>3 DEF BlockAdded
    <3>2. height >= REORG_SAFETY_BUFFER_IN_BLOCKS /\ height < U64
      BY <1>1, <2>1, <2>3 DEF BlockAdded, BlockIgnored, HardForkVersion, NoForkBelowBuffer
    <3>3. scan'.top = chainHeight' - 1 - REORG_SAFETY_BUFFER_IN_BLOCKS
      BY <2>1, <3>1, <3>2
    <3>4. t \in Nat /\ latest >= chainHeight + 1
      BY <2>1 DEF Maximum
    <3>5. cursor' + VOTE_LIFETIME_BY_HEIGHT >= chainHeight'
      BY <2>1, <3>1, <3>4 DEF Maximum
    <3>. QED
      BY <3>3, <3>5 DEF ScanWindow
  <2>. QED
    BY <2>2, <2>3
<1>2. CASE ScanSteps
  <2>0. /\ scan \in [pc : {"idle", "loop", "test"}, top : 0 .. U64 - 1,
                     version : 0 .. 6, index : Nat, cast : BOOLEAN]
        /\ cursor \in Nat /\ chainHeight \in Nat
    BY <1>0 DEF ChainInv, ScanTypeOK
  <2>1. CASE ScanSkipHeight
    BY <2>0, <2>1 DEF ScanSkipHeight, ScanWindow
  <2>2. CASE ScanDone
    BY <2>2 DEF ScanDone, ScanWindow, IdleScan
  <2>3. CASE ScanEnterHeight
    <3>1. scan'.top = scan.top /\ scan.pc # "idle"
      <4>1. scan' = [scan EXCEPT !.pc = "test", !.index = 0]
        BY <2>3 DEF ScanEnterHeight
      <4>2. [scan EXCEPT !.pc = "test", !.index = 0]
              = [pc |-> "test", top |-> scan.top, version |-> scan.version,
                 index |-> 0, cast |-> scan.cast]
        BY <2>0, EnteredScan
      <4>. QED
        BY <2>3, <4>1, <4>2 DEF ScanEnterHeight
    <3>. QED
      BY <2>3, <3>1 DEF ScanEnterHeight, ScanWindow
  <2>4. CASE ScanTestCandidate
    <3>1. scan'.top = scan.top /\ scan'.pc = scan.pc /\ scan.pc # "idle"
      <4>1. PICK b \in BOOLEAN : scan' = [scan EXCEPT !.index = scan.index + 1, !.cast = b]
        BY <2>4, Zenon DEF ScanTestCandidate
      <4>2. [scan EXCEPT !.index = scan.index + 1, !.cast = b]
              = [pc |-> scan.pc, top |-> scan.top, version |-> scan.version,
                 index |-> scan.index + 1, cast |-> b]
        BY <2>0, JudgedScan
      <4>3. scan.pc = "test"
        BY <2>4 DEF ScanTestCandidate
      <4>. QED
        BY <4>1, <4>2, <4>3
    <3>. QED
      BY <2>4, <3>1 DEF ScanTestCandidate, ScanWindow
  <2>5. CASE ScanNextHeight
    <3>1. scan'.top = scan.top /\ scan.pc # "idle"
      <4>1. scan' = [scan EXCEPT !.pc = "loop"]
        BY <2>5 DEF ScanNextHeight
      <4>2. [scan EXCEPT !.pc = "loop"]
              = [pc |-> "loop", top |-> scan.top, version |-> scan.version,
                 index |-> scan.index, cast |-> scan.cast]
        BY <2>0, MovedScan
      <4>. QED
        BY <2>5, <4>1, <4>2 DEF ScanNextHeight
    <3>2. cursor' = cursor + 1 /\ UNCHANGED chainHeight
      BY <2>5 DEF ScanNextHeight
    <3>. QED
      BY <2>0, <3>1, <3>2 DEF ScanWindow
  <2>. QED
    BY <1>2, <2>1, <2>2, <2>3, <2>4, <2>5 DEF ScanSteps
<1>3. CASE /\ ~\E t \in Heights : BlockAdded(t)
           /\ ~ScanSteps
  <2>1. \/ scan' = IdleScan
        \/ UNCHANGED <<chainHeight, cursor, scan>>
    BY <1>3 DEF Next, vars, ScanSteps, BlockchainDetached, Restart, ReceiveUptimeProof,
               Prune, ReceiveRibbonData, ClearRibbon, Clock, MarketMoves, UsdMoves
  <2>. QED
    BY <2>1 DEF ScanWindow, IdleScan
<1>. QED
  BY <1>1, <1>2, <1>3


\* Every step of quorum_cop is a step of JusticeWindow on (chainHeight,
\* m_last_height) or leaves both alone.
LEMMA WindowStep ==
    ASSUME NoForkBelowBuffer, QInv, ScanWindow, [Next]_vars
    PROVE  [Window!Next]_Window!windowVars
<1>0. /\ chainHeight \in Nat /\ cursor \in Nat /\ cursor <= chainHeight
      /\ ScanWithinChain
  BY DEF QInv, QCTypeOK, CursorBound
<1>1. ASSUME NEW t \in Heights, BlockAdded(t)
      PROVE  Window!Append
  <2> DEFINE latest == Maximum(chainHeight + 1, t)
             from   == latest - VOTE_LIFETIME_BY_HEIGHT
  <2>1. chainHeight < MaxHeight /\ chainHeight' = chainHeight + 1
    BY <1>1 DEF BlockAdded
  <2>2. cursor' \in cursor .. chainHeight
    <3>1. CASE BlockIgnored(chainHeight, latest)
      BY <1>0, <1>1, <3>1 DEF BlockAdded
    <3>2. CASE ~BlockIgnored(chainHeight, latest)
      <4>1. cursor' = Maximum(cursor, from)
        BY <1>1, <3>2 DEF BlockAdded
      <4>2. t \in Nat /\ from \in Int /\ from <= chainHeight
        BY <1>0, <3>2 DEF BlockIgnored, Maximum
      <4>. QED
        BY <1>0, <4>1, <4>2 DEF Maximum
    <3>. QED
      BY <3>1, <3>2
  <2>. QED
    BY <2>1, <2>2 DEF Window!Append
<1>2. CASE ScanSkipHeight
  <2>1. scan.pc = "loop" /\ cursor < scan.top /\ cursor' = cursor + 1
        /\ UNCHANGED chainHeight
    BY <1>2 DEF ScanSkipHeight, LoopContinues
  <2>. QED
    BY <1>0, <2>1 DEF ScanWindow, Window!Next, Window!Pass
<1>3. CASE ScanNextHeight
  <2>1. scan.pc = "test" /\ cursor' = cursor + 1 /\ UNCHANGED chainHeight
    BY <1>3 DEF ScanNextHeight
  <2>2. cursor < scan.top
    BY <1>0, <2>1 DEF ScanWithinChain
  <2>. QED
    BY <1>0, <2>1, <2>2 DEF ScanWindow, Window!Next, Window!Pass
<1>4. ASSUME NEW d \in Heights, BlockchainDetached(d)
      PROVE  Window!Cut(d)
  BY <1>4 DEF BlockchainDetached, Window!Cut
<1>5. ASSUME Restart
      PROVE  Window!Forget
  BY <1>5 DEF Restart, Window!Forget
<1>6. CASE UNCHANGED <<chainHeight, cursor>>
  BY <1>6 DEF Window!windowVars
<1>7. CASE ScanEnterHeight \/ ScanTestCandidate \/ ScanDone
  <2>1. UNCHANGED <<chainHeight, cursor>>
    BY <1>7 DEF ScanEnterHeight, ScanTestCandidate, ScanDone
  <2>. QED
    BY <1>6, <2>1
<1>8. CASE \/ \E n \in Nodes, ts \in ProofTimes, v \in BOOLEAN, s \in BOOLEAN :
                ReceiveUptimeProof(n, ts, v, s)
           \/ Prune
  <2>1. UNCHANGED <<chainHeight, cursor>>
    BY <1>8 DEF ReceiveUptimeProof, Prune
  <2>. QED
    BY <1>6, <2>1
<1>9. CASE \/ \E n \in RibbonSenders, b \in {GeneratedBlue(market, usd), 0} :
                ReceiveRibbonData(n, b)
           \/ \E c \in ClearHeights : ClearRibbon(c)
           \/ Clock \/ MarketMoves \/ UsdMoves
  <2>1. UNCHANGED <<chainHeight, cursor>>
    BY <1>9 DEF ReceiveRibbonData, ClearRibbon, Clock, MarketMoves, UsdMoves
  <2>. QED
    BY <1>6, <2>1
<1>. QED
  <2>1. Heights = 0 .. MaxHeight
    OBVIOUS
  <2>2. CASE Next
    <3>1. CASE \E t \in Heights : BlockAdded(t)
      BY <1>1, <2>1, <3>1 DEF Window!Next
    <3>2. CASE \E d \in Heights : BlockchainDetached(d)
      BY <1>4, <2>1, <3>2 DEF Window!Next
    <3>3. CASE Restart
      BY <1>5, <3>3 DEF Window!Next
    <3>. QED
      BY <1>2, <1>3, <1>7, <1>8, <1>9, <2>2, <3>1, <3>2, <3>3, Zenon DEF Next
  <2>3. CASE UNCHANGED vars
    BY <1>6, <2>3 DEF vars
  <2>. QED
    BY <2>2, <2>3

\* When hard fork 5 starts at or above the reorg buffer, quorum_cop
\* implements JusticeWindow under the mapping tip <- chainHeight,
\* next <- m_last_height: block_added judges heights one at a time, in
\* increasing order, only final ones whose votes are still valid, and
\* m_last_height goes back only to where blockchain_detached cuts the chain
\* or to 0 when the daemon restarts.
THEOREM WindowRefined ==
    ASSUME NoForkBelowBuffer
    PROVE  Spec => WindowRefinement
<1>1. Init => QInv /\ ScanWindow /\ Window!Init
  BY QInvInit, ScanWindowInit DEF Init, Window!Init
<1>2. QInv /\ ScanWindow /\ [Next]_vars => (QInv /\ ScanWindow)'
  BY QInvStep, ScanWindowStep
<1>3. QInv /\ ScanWindow /\ [Next]_vars => [Window!Next]_Window!windowVars
  BY WindowStep
<1>. QED
  BY <1>1, <1>2, <1>3, PTL DEF Spec, WindowRefinement, Window!Spec, Window!windowVars

=============================================================================
