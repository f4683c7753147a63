------------------------- MODULE QuorumCopVoteProofs -------------------------
(***************************************************************************)
(* Proofs about the votes block_added casts: when it casts them            *)
(* (VoteTimely) and against whom it never casts them (RecentProofSpares),  *)
(* for every value of the constants.  Both are action properties; each     *)
(* follows from a state invariant of quorum_cop that is inductive.         *)
(***************************************************************************)
EXTENDS QuorumCopProofs

USE UptimeConstantsAssumption, RibbonConstantsAssumption, QuorumCopConstantsAssumption

-----------------------------------------------------------------------------
(* VoteTimely.                                                             *)

\* A vote is cast only by a test of a candidate, so only while the scan is
\* testing a height.
LEMMA VotesWhileTesting ==
    ASSUME NEW tier, Votes(tier)
    PROVE  scan.pc = "test"
BY DEF Votes, TestStep

\* In a state where QInv and ScanWindow hold, a candidate test is for a
\* height below the loop bound, which is REORG_SAFETY_BUFFER_IN_BLOCKS below
\* the newest block, and within the vote lifetime of the chain's height.
LEMMA VoteTimelyState ==
    ASSUME QInv, ScanWindow
    PROVE  [(Votes("uptime") \/ Votes("ribbon")) =>
               /\ cursor + REORG_SAFETY_BUFFER_IN_BLOCKS < chainHeight - 1
               /\ cursor + VOTE_LIFETIME_BY_HEIGHT >= chainHeight]_vars
<1> SUFFICES ASSUME Votes("uptime") \/ Votes("ribbon")
             PROVE  /\ cursor + REORG_SAFETY_BUFFER_IN_BLOCKS < chainHeight - 1
                    /\ cursor + VOTE_LIFETIME_BY_HEIGHT >= chainHeight
  OBVIOUS
<1>1. scan.pc = "test"
  BY VotesWhileTesting
<1>2. /\ cursor < scan.top
      /\ scan.top = chainHeight - 1 - REORG_SAFETY_BUFFER_IN_BLOCKS
      /\ cursor + VOTE_LIFETIME_BY_HEIGHT >= chainHeight
  BY <1>1 DEF QInv, ScanWithinChain, ScanWindow
<1>3. cursor \in Nat /\ chainHeight \in Nat
  BY DEF QInv, QCTypeOK
<1>. QED
  BY <1>2, <1>3

\* Every vote block_added casts is for a final height (more than
\* REORG_SAFETY_BUFFER_IN_BLOCKS below the newest block) whose votes have
\* not expired, whatever reorgs, restarts and early returns came before:
\* the loop bound and the raise of m_last_height at the entry of
\* block_added keep the candidates' height inside that window for as long
\* as the scan runs, because no block is added and no reorg happens while
\* it runs.
THEOREM VoteTimelyHolds ==
    ASSUME NoForkBelowBuffer
    PROVE  Spec => VoteTimely
<1>1. Init => QInv /\ ScanWindow
  BY QInvInit, ScanWindowInit
<1>2. QInv /\ ScanWindow /\ [Next]_vars => (QInv /\ ScanWindow)'
  BY QInvStep, ScanWindowStep
<1>3. QInv /\ ScanWindow =>
        [(Votes("uptime") \/ Votes("ribbon")) =>
            /\ cursor + REORG_SAFETY_BUFFER_IN_BLOCKS < chainHeight - 1
            /\ cursor + VOTE_LIFETIME_BY_HEIGHT >= chainHeight]_vars
  BY VoteTimelyState
<1>. QED
  BY <1>1, <1>2, <1>3, PTL DEF Spec, VoteTimely

-----------------------------------------------------------------------------
(* RecentProofSpares.                                                      *)

\* ProofRetained holds of the whole quorum_cop: a restart empties both the
\* registry and the history of accepted proofs, and every other step is a
\* step of the uptime registry or leaves it alone.
LEMMA ProofRetainedKept ==
    ASSUME TypeOK, ProofRetained, [Next]_vars
    PROVE  ProofRetained'
<1>1. CASE Restart
  BY <1>1 DEF Restart, ProofRetained
<1>2. CASE ~Restart
  BY <1>2, UptimeSteps, ProofRetainedStep DEF UInv
<1>. QED
  BY <1>1, <1>2

\* A test at the uptime tier casts a vote exactly when the candidate has no
\* entry in m_uptime_proof_seen.
LEMMA UptimeTestVotes ==
    ASSUME QCTypeOK, ScanTestCandidate, scan.version <= 5
    PROVE  scan'.cast = (Tested \notin DOMAIN uptime)
<1>2. scan \in [pc : {"idle", "loop", "test"}, top : 0 .. U64 - 1,
                version : 0 .. 6, index : Nat, cast : BOOLEAN]
  BY DEF QCTypeOK
<1>0. ~(scan.version > 5)
  BY <1>2
<1>1. scan' = [scan EXCEPT !.index = scan.index + 1,
                           !.cast = ~(Tested \in DOMAIN uptime)]
  BY <1>0, Zenon DEF ScanTestCandidate, Tested
<1>3. scan'.cast = ~(Tested \in DOMAIN uptime)
  BY <1>1, <1>2, JudgedScan, Zenon
<1>. QED
  BY <1>3

\* Only a candidate test counts a candidate: every other step leaves the
\* index alone or does not stay in the test of a height.
LEMMA TestStepIsTest ==
    ASSUME QCTypeOK, [Next]_vars, NEW tier, TestStep(tier)
    PROVE  ScanTestCandidate
<1>0. scan \in [pc : {"idle", "loop", "test"}, top : 0 .. U64 - 1,
                version : 0 .. 6, index : Nat, cast : BOOLEAN]
  BY DEF QCTypeOK
<1>1. /\ scan.pc = "test" /\ scan'.pc = "test"
      /\ scan'.index = scan.index + 1 /\ scan.index \in Nat
  BY <1>0 DEF TestStep
<1>2. scan' # scan
  BY <1>1
<1>3. CASE ScanNextHeight
  <2>1. scan'.pc = "loop"
    BY <1>0, <1>3, MovedScan, Zenon DEF ScanNextHeight
  <2>. QED
    BY <1>1, <2>1
<1>4. CASE Restart
  BY <1>1, <1>4 DEF Restart, IdleScan
<1>5. CASE ScanDone
  BY <1>1, <1>5 DEF ScanDone
<1>6. CASE ScanEnterHeight
  BY <1>1, <1>6 DEF ScanEnterHeight
<1>7. CASE \E t \in Heights : BlockAdded(t)
  BY <1>1, <1>7 DEF BlockAdded
<1>8. CASE \E d \in Heights : BlockchainDetached(d)
  BY <1>1, <1>8 DEF BlockchainDetached
<1>9. CASE /\ ~ScanNextHeight /\ ~Restart /\ ~ScanDone /\ ~ScanEnterHeight
           /\ ~\E t \in Heights : BlockAdded(t)
           /\ ~\E d \in Heights : BlockchainDetached(d)
           /\ ~ScanTestCandidate
  <2>1. scan' = scan
    BY <1>9 DEF Next, vars, ScanSkipHeight, ReceiveUptimeProof, Prune,
                ReceiveRibbonData, ClearRibbon, Clock, MarketMoves, UsdMoves
  <2>. QED
    BY <1>2, <2>1
<1>. QED
  BY <1>3, <1>4, <1>5, <1>6, <1>7, <1>8, <1>9

\* In a state where the registries keep their type and ProofRetained
\* holds, no step votes at the uptime tier against a node whose last
\* accepted proof is fresh.
LEMMA RecentProofSparesStep ==
    ASSUME QCTypeOK, ProofRetained, [Next]_vars
    PROVE  [Votes("uptime") => ~Fresh(Tested)]_vars
<1> SUFFICES ASSUME Votes("uptime"), Fresh(Tested)
             PROVE  FALSE
  OBVIOUS
<1>1. ScanTestCandidate /\ scan.version <= 5
  BY TestStepIsTest DEF Votes, TestStep
<1>2. Tested \notin DOMAIN uptime
  BY <1>1, UptimeTestVotes DEF Votes
<1>3. Tested \in DOMAIN uptime
  BY DEF Fresh, ProofRetained
<1>. QED
  BY <1>2, <1>3

\* block_added never votes at the uptime tier against a service node whose
\* proof this process accepted less than UPTIME_PROOF_MAX_TIME_IN_SECONDS
\* ago, although prune_uptime_proof and handle_uptime_proof run between
\* its candidate tests: pruning keeps every entry of that age, and the
\* operator[] of the throttle test never replaces an entry.
THEOREM RecentProofSparesHolds ==
    ASSUME NoForkBelowBuffer
    PROVE  Spec => RecentProofSpares
<1>1. Init => QInv /\ ProofRetained
  BY QInvInit DEF Init, UptimeInit, ProofRetained
<1>2. QInv /\ ProofRetained /\ [Next]_vars => (QInv /\ ProofRetained)'
  BY QInvStep, ProofRetainedKept DEF QInv, QCTypeOK
<1>3. QInv /\ ProofRetained /\ [Next]_vars => [Votes("uptime") => ~Fresh(Tested)]_vars
  BY RecentProofSparesStep DEF QInv
<1>. QED
  BY <1>1, <1>2, <1>3, PTL DEF Spec, RecentProofSpares

=============================================================================
