# Formal model of the Equilibria service-node quorum cop and ribbon oracle

This directory holds TLA+ models of the consensus-side C++ under `src/src`:
- the service-node *quorum cop*, which decides which service nodes to vote off;
- the *ribbon* price oracle that feeds it;
- the *karai* block handler.

It also holds TLC configurations that model-check the models on small instances, and TLAPS proofs of their main invariants for every value of the constants.

## The system

`service_nodes::quorum_cop` (`cryptonote_core/quorum_cop.{h,cpp}`) is hooked into the blockchain. Three kinds of thread touch it:

* **Network threads.**
  - `handle_uptime_proof` records in `m_uptime_proof_seen` the local time at which a service node's signed uptime proof arrived. A node's proofs are throttled to one per half proof interval.
  - `handle_ribbon_data_received` records in `m_ribbon_data_received` a node's signed *ribbon blue*: the filtered mean of the exchange trades of the last block, in USD.
* **The core.** It calls `prune_uptime_proof` periodically, and `clear_ribbon_data`.
* **The block thread.**
  - For every new block, `block_added` raises `m_last_height` to the oldest height whose votes are still valid. It then walks the heights up to `REORG_SAFETY_BUFFER_IN_BLOCKS` below the new block.
  - At each height where the local node is in the quorum, it tests every node under test. A node passes if its uptime proof was seen. From hard fork 6 on, its ribbon data must also have been seen and agree with the value the judge recomputes from the trades stored for that height. Otherwise the judge casts a deregistration vote.
  - `m_lock` is held only around one candidate's test, so the registries change between tests.
  - `blockchain_detached` rewinds `m_last_height` on a reorg.
  - The constructor and `init` clear everything at start.

The ribbon oracle (`cryptonote_core/ribbon.cpp`) computes:
- *ribbon blue*: `filter_trades_by_deviation`, which drops trades more than two standard deviations from the volume-weighted mean; then `convert_btc_to_usd`;
- *ribbon red*: `create_ribbon_red`, the average of four volume-weighted moving averages of the stored blues.

The USD rate comes from `get_usd_average` (`ribbon.cpp`). It asks five BTC-USD feeds and divides their sum by 5. If Coinbase Pro answered 0, it divides by 4 instead. A feed whose request failed answers 0.

`karai::handle_block` (`karai_handler/send_data.cpp`) signs `make_data_hash(pubkey, data)` for what it sends:
- the block's winner sends the node list;
- every other node asks `get_contract_karai` (`delfi/price_provider.cpp`) for the contracts' pairs, then sends one price per contract from `get_trade_ogre_price`. A failed ticker request makes that function `return 0;` as a `std::string`, which throws `std::logic_error` and ends the loop.

## Modules

| Module | Models | State | Actions |
|---|---|---|---|
| `UptimeRegistry` | `m_uptime_proof_seen`, `handle_uptime_proof`, `prune_uptime_proof` | `now`, `uptime`, `lastProof` (history: the last accepted proof) | `HandleUptimeProof`, `PruneUptimeProof`, `Tick` |
| `RibbonRegistry` | `m_ribbon_data_received`, `handle_ribbon_data_received`, `clear_ribbon_data` | `ribbon` | operators used by `QuorumCop` |
| `JusticeWindow` | what `block_added`/`blockchain_detached` promise about the heights judged (abstract) | `tip`, `next` | `Append`, `Pass`, `Cut`, `Forget` |
| `QuorumCop` | `block_added`, `blockchain_detached`, constructor/`init`, `get_usd_average`, composed with both registries | adds `chainHeight`, `cursor` (`m_last_height`), `scan` (the locals of a running `block_added`), `trades` (stored trade history), `market`, `usd`, `startTime` | `BlockAdded`, `ScanSkipHeight`, `ScanEnterHeight`, `ScanTestCandidate`, `ScanNextHeight`, `ScanDone`, `BlockchainDetached`, `Restart`, `ReceiveUptimeProof`, `Prune`, `ReceiveRibbonData`, `ClearRibbon`, `Clock`, `MarketMoves`, `UsdMoves` |
| `RibbonPrice` | `filter_trades_by_deviation`, `trades_weighted_mean` | `input`, `trades`, `i`, `pc`, `result` | `FilterStep` (one loop iteration), `FilterReturn` |
| `RibbonRed` | `create_ribbon_red` | `blocks` (the chain it reads) | none (a pure function) |
| `KaraiHandler` | `handle_block`, `make_data_hash`, `get_contract_karai`, `get_trade_ogre_price` | `sent` (the signed payloads) | `HandleBlock` |
| `UptimeRegistryProofs`, `QuorumCopProofs`, `QuorumCopVoteProofs`, `RibbonRedProofs`, `RibbonPriceProofs` | TLAPS proofs | | |
| `MC_*` | TLC instances | | |

### How the models map to the code

- **Maps.** A `std::unordered_map` is a function whose `DOMAIN` is the set of keys present. `operator[]` is modelled by what it does: a read of an absent key inserts a value-initialised entry (`SubscriptInsert`, `EmptyRibbon`).
- **Ribbon keys.** They are `<<pubkey, height>>` pairs; `make_ribbon_key_hash` is taken as injective.
- **Signatures.** Each is a Boolean: verifies or not.
- **uint64 arithmetic.** It wraps modulo `U64` where it can overflow: the loop bound of `block_added`, the sums of `create_ribbon_red`.
- **Doubles.** `RibbonPrice` replaces them by exact integer fractions. The band test `|p - mean| > 2 * sqrt(sum / n)` is squared and multiplied by the positive denominators. Rounding at the band's edge is the one thing left out.
- **Undefined values.**
  - `static_cast<uint64_t>` of the NaN from `0.0 / 0.0` is any member of `NaNCasts`.
  - The uninitialised `ma3` is any `uint64_t`.
- **`ScanTestCandidate`.** It is the whole body of the inner loop under `m_lock`: the `find` tests, the recomputed blue, the `operator[]` read, and the decision. `scan.cast` records whether the test handed a vote to `add_deregister_vote`.
- **Restarts.** `Restart` is a daemon restart: the constructor clears the registries and `m_last_height`, while the chain and trade history persist.
- **The environment.** `MarketMoves` stands for the exchanges' trades.
- **USD feeds.** `UsdMoves` is a new call of `get_usd_average`. Each of the five feeds answers a member of `UsdReplies[f]` or `FeedDown`, and `BtcUsd` maps `FeedDown` to 0, as the fetchers' error paths do.
  - `GetUsdAverage` keeps the code's divisor rule: 4 when Coinbase Pro answered 0, otherwise 5.
  - The double division is exact in the model: an assumption requires the model's quotes to divide exactly.
  - In `quorum_cop_uptime`, Gemini and Coinbase Pro may fail (`MCFlakyFeeds`), giving rates 20, 16 and 15.
- **Karai prices.** `GetContractKarai` returns the contract list, or the empty list when the request fails. `GetTradeOgrePrice` returns the price or `Thrown`. `Handled` is the prefix of contracts sent before the first throw.
- **Refinement.** `Window == INSTANCE JusticeWindow WITH tip <- chainHeight, next <- cursor`. The mapping hides the candidates, registries and votes.
  - A block maps to `Append`; the loop's `m_last_height++` maps to `Pass`.
  - `blockchain_detached` maps to `Cut`; a restart maps to `Forget`.

## Runs

| Run | Config | Expect | What it shows |
|---|---|---|---|
| `uptime_registry` | `MC_UptimeRegistry.cfg` | pass | `ProofRetained`: a proof accepted less than `MAX_TIME` ago is still in the map with a time at least as recent. `UptimeThrottle`: two accepted proofs of a node are more than half an interval apart. |
| `quorum_cop_uptime` | `MC_QuorumCop.cfg` | pass | Fork 5 only, with proofs, pruning, reorgs, restarts and failing USD feeds interleaving with the scan. `QCTypeOK`. `CursorBound`. `WindowRefinement`: the scan implements `JusticeWindow`. `VoteTimely`: a vote is cast only for a height that is final (below the reorg buffer) and whose votes have not expired. `RecentProofSpares`: no vote against a node with an accepted proof younger than `MAX_TIME`. `ScanCompletes`: a running scan finishes. |
| `quorum_cop_ribbon` | `MC_QuorumCop_ribbon.cfg` | pass | Fork 6, with attestations, clears and market moves: `QCTypeOK`. The ribbon actions change neither `cursor` nor `chainHeight`, and votes go through the same `ScanTestCandidate` guards, so the cursor and vote properties are left to `quorum_cop_uptime`. |
| `ribbon_filter` | `MC_RibbonPrice.cfg` | pass | `FilterKeepsInBand`: for every vector of up to 5 trades, the in-band trades left are those of the input, in order, at every step. |
| `ribbon_red_volume` | `MC_RibbonRed_volume.cfg` | pass | `RedWithinBluesWhenDefined`: wherever `ma3` is assigned, the red is at most the largest blue. Checked on every 4-block chain of volumes 0, 1 and 3 and blues 0, 2 and 3, with `U64 = 16`, so windows without volume occur and product sums wrap. |
| `phantom_proof` | `MC_QuorumCop_phantom_proof.cfg` | violation | `NoProofNoPass` fails: a proof rejected for its signature still makes the node pass. |
| `wrap` | `MC_QuorumCop_wrap.cfg` | violation | `CursorBound` fails when fork 5 starts at height 0: the loop bound wraps. |
| `honest_ribbon` | `MC_QuorumCop_honest_ribbon.cfg` | violation | `HonestAttestationSpared` fails: an honest attestation never agrees (double USD conversion). |
| `phantom_ribbon` | `MC_QuorumCop_phantom_ribbon.cfg` | violation | `NoAttestationNoPass` fails: after a reorg, the record inserted by `operator[]` counts as an attestation. |
| `ribbon_skip` | `MC_RibbonPrice_skip.cfg` | violation | `FilterMatchesReference` fails: erase-while-iterating keeps an out-of-band trade. |
| `ribbon_red` | `MC_RibbonRed.cfg` | violation | `RedWithinBlues` fails: the uninitialised `ma3`. |
| `karai_hash` | `MC_KaraiHandler.cfg` | violation | `SignedHashBindsData` fails: two different node lists of the same length, both on the heap at the same address, share a signed hash; prices, stored inline, never do. |

Every property of a passing run is broken by a plausible mutant of the code, listed in `PROJECT.json`:
- a strict throttle or prune comparison;
- a missing or off-by-one reset in `blockchain_detached` (which also breaks `WindowRefinement`: the cursor stays above the cut);
- an inclusive loop bound;
- a missing `m_last_height++`;
- erasing the wrong element.

### Bounds

- **Quorum cop.** Two nodes (`me` and `x`), heights `0..7` (`0..4` at the ribbon tier) and a clock of a few seconds.
  - The ribbon tier stops the clock one second after `StartTime` (`MaxTime = 4`). Its questions concern heights, blues and clears rather than time, and the restart and pruning interleavings are already explored in the `quorum_cop_uptime` run, which runs to 9. One more second multiplies the states past a five-minute run.
  - The intervals are scaled down, keeping their order: buffer < vote lifetime, and half frequency ≤ max time.
  - Height 2 has no quorum state, and at height 3 `me` is itself under test, so every `continue` of the loop is taken.
  - The scan reaches real votes, reorgs below the cursor, restarts after the minimum lifetime, and pruning between acceptance and test.
  - `U64` is just above the largest height, so a wrap is visible and no legal value is cut off.
- **Ribbon filter.** All vectors of up to five trades with two prices and two quantities. This includes vectors with an out-of-band trade.
- **Karai hash.** `SSO` is libstdc++'s real 15. Each key adds 64 hex characters to `nodes_json_string`, so every nonempty node list is a heap string, while the prices (one or two characters, as real TradeOgre prices are under 15) stay inline. One heap address models the allocator reusing the block freed by the previous call.
- **The skip.** It needs two out-of-band trades adjacent after an erasure. That takes a vector of nine, so `ribbon_skip` enumerates skewed vectors of nine.

### Fairness

`FairSpec` adds weak fairness on the scan's steps only:
- `block_added` runs to completion on the block thread;
- the network threads hold `m_lock` only for one map operation.

No fairness is assumed for the network, the clock, the exchanges or new blocks.

## Proofs (TLAPS)

### `UptimeRegistryProofs`

Under `UptimeConstantsAssumption`, which says that `time(nullptr)` exceeds every interval, so `now - X` never wraps:

* **`UptimeTypeCorrect`**: `UptimeSpec => []TypeOK`.
* **`ProofRetainedInvariant`**: `UptimeSpec => []ProofRetained`. It is proved through the inductive `TypeOK /\ ProofRetained`. Pruning keeps entries of age at most `MAX_TIME`. An accepted proof writes the same time into both maps. A throttled or rejected proof only inserts an entry where none existed.
* **`UptimeThrottleHolds`**: `UptimeSpec => UptimeThrottle`, assuming `PruneOutlivesThrottle` (half the frequency is at most `MAX_TIME`). It rests on `ProofRetained`: within half an interval of an accepted proof, its entry cannot have been pruned, so the throttle sees it.

### `QuorumCopProofs`

Under the constants' assumptions and `NoForkBelowBuffer` (fork 5 starts at or above `REORG_SAFETY_BUFFER_IN_BLOCKS`; the `wrap` run shows what happens without it):

* **`QuorumCopTypeCorrect`**: `Spec => []QCTypeOK`.
* **`CursorBoundInvariant`**: `Spec => []CursorBound`.

Both are proved through `QInv == QCTypeOK /\ CursorBound /\ ScanWithinChain`. `ScanWithinChain` says that while a scan runs:
- its bound is below the block it was called for, and the cursor is on the chain;
- while candidates are tested, the cursor is below the bound and has a quorum state.

`QCTypeOK` alone is not inductive. The loop's `m_last_height++` stays in range only because the cursor is below the bound, and the bound is below the chain height. The `operator[]` insertion of an empty ribbon record stays within `RibbonKeys` only because the tested node comes from a quorum state that exists.

The step proof has one lemma per group of actions, cited by `QInvStep`:
- `BlockAddedChain`;
- `ScanChain`;
- `OtherChain`;
- `RibbonStep`;
- `UptimeTypeKept`, which reuses `UptimeTypeStep`.

* **`WindowRefined`**: `Spec => WindowRefinement`, so the detailed scan implements `JusticeWindow` for every value of the constants.
  - Initial states map to `Window!Init`.
  - Every step maps to a `Window!Next` step or to a stutter (lemma `WindowStep`).
  - `Pass` needs two facts about the scan: the loop bound is `chainHeight - 1 - REORG_SAFETY_BUFFER_IN_BLOCKS`, and the cursor is within the vote lifetime. Neither holds of every state; they hold while a scan runs. So the proof uses the invariant `ScanWindow`, which says that while a scan runs, the bound is that value and `cursor + VOTE_LIFETIME_BY_HEIGHT >= chainHeight`.
  - `ScanWindow` is inductive together with `QInv` (`ScanWindowInit`, `ScanWindowStep`). A new block can arrive only while the scan is idle, and the entry of `block_added` raises `m_last_height` to `latest - VOTE_LIFETIME_BY_HEIGHT`, with `latest` at least the new chain height, which establishes the lifetime bound when a scan starts.

### `QuorumCopVoteProofs`

Two action properties of the votes `block_added` casts. Each is proved the same way:
- an inductive invariant holds initially and is kept by every step;
- in a state where it holds, every step satisfies the action.
`PTL` then combines the two.

* **`VoteTimelyHolds`**: `Spec => VoteTimely`, under `NoForkBelowBuffer`.
  - A vote is cast only by a candidate test (`VotesWhileTesting`).
  - While candidates are tested, `ScanWithinChain` puts the cursor below the loop bound.
  - `ScanWindow` fixes that bound at `chainHeight - 1 - REORG_SAFETY_BUFFER_IN_BLOCKS` and keeps the cursor within `VOTE_LIFETIME_BY_HEIGHT` of the chain height.
  - The invariant is the one `WindowRefined` uses: `QInv /\ ScanWindow`.
* **`RecentProofSparesHolds`**: `Spec => RecentProofSpares`, under `NoForkBelowBuffer`. The invariant is `QInv /\ ProofRetained`.
  - `ProofRetained` is lifted from the registry to the whole `quorum_cop` (`ProofRetainedKept`). A restart empties both maps. Every other step is a registry step, for which `ProofRetainedStep` applies, or leaves the registry alone.
  - A vote at the uptime tier comes from a candidate test (`TestStepIsTest`). That test votes exactly when the node has no entry in `m_uptime_proof_seen` (`UptimeTestVotes`).
  - `ProofRetained` gives every node with a fresh accepted proof such an entry.

### `RibbonRedProofs`

* **`RedWithinBluesHolds`**: `Spec => []RedWithinBluesWhenDefined`, under `VolumesFit`, for every window length and every width of `uint64_t`.
  - `RedWithinBluesWhenDefined` says: wherever `ma3_vol_sum > 0` (`Ma3Defined`), so that the code assigns every moving average, the red is at most some stored blue.
  - `VolumesFit` bounds the volumes only: `Span` of them sum below `2^64`. A block may hold no volume. A window may hold none, and then `ma1`, `ma2` or `ma4` takes its `else 0`. Blues, products `volume * blue` and product sums may be arbitrarily large and wrap.
  - The point of the argument is that a wrapped product sum only lowers an average: `(s + x % 2^64) % 2^64 <= s + x`, while the exact volume sum is the divisor. A wrapped *volume* sum could shrink the divisor, and that is what `VolumesFit` excludes.
  - The `ribbon_red_volume` run checks the same property on 4-block chains with zero volumes and product sums that wrap modulo 16. The `ribbon_red` run shows the one case the property leaves out, a window of 360 blocks without volume: the uninitialised `ma3` can push the red above every blue (H14, a bug of the code, not an assumption of convenience).

The argument goes through these lemmas:
- `WrapSumRec` gives `WrapSum` its recursion equation. The function the `LET` of `WrapSum` defines is `SumsOf(n, x)`. `SumExists` proves that such a function exists, by induction.
- `SumNoWrap`: under the bound, each partial sum of the volumes is the previous one plus the term, and is at most `k * L`.
- `ModBelow` and `SumsWrapFacts`: a wrapped sum starts at 0, stays a natural, and each step adds at most its term.
- `SumsDominated`: if every blue is at most `e`, the wrapped sum of the products is at most `e` times the exact sum of the volumes.
- `DivBound` and `MovingAverageBound`: each moving average the code assigns is a single value, at most every bound on the blues. It is 0 when its window holds no volume.
- `RedWithinBluesState`: suppose the red `r` exceeded every blue. Then every average would be at most `r - 1`. The sum `% 2^64` would be at most `4 * (r - 1)`. So `r` would be at most `r - 1`.

The inductions avoid the library's induction theorems, which take an operator parameter that no installed prover can instantiate. Each one takes the least counterexample instead: `LeastNat`, from `WFMin` and `NatLessThanWellFounded`. `WrapSum` is written as a `LET`-defined recursive function, not a `RECURSIVE` operator, so the SMT backend stays available.

### `RibbonPriceProofs`

* **`FilterKeepsInBandHolds`**: `Spec => []FilterKeepsInBand`, for every set of prices and quantities, every bound on the vector and every input.
  - The inductive invariant is `PInv == PriceTypeOK /\ FilterKeepsInBand`. The vectors must be vectors of trades, so that an erasure is a `RemoveAt` of one of them. TLC checked `PInv` on the `ribbon_filter` instance before it was proved.
  - The step rests on `KeptRemove`: erasing a trade that lies outside the band of the reference leaves `KeptOf` unchanged.
  - `KeptRemove` is proved by two inductions on the recursion of `KeptOf` (`KeptPoints`). Below the erased index the two recursions agree. From there on, the shorter vector's recursion runs one index behind.
  - `RemoveAtShape` gives the length and the elements of `RemoveAt(s, k)`, from `SubSeqProperties` and `ConcatProperties`.
  - The inductions take a least counterexample, as in `RibbonRedProofs`.
  - `OutOfBand` is never expanded. So the result holds whatever the band test computes, and in particular with the C++ doubles.
* The in-band filter `KeptOf` is the recursive function that defines `SelectSeq` in the `Sequences` module. `tlapm` has no definition of `SelectSeq` to expand, so writing the filter out is what makes it provable. TLC checks the same property either way.
* `ribbon_skip` shows the other side: the loop does not drop every out-of-band trade. `FilterKeepsInBand` is what it does keep.

### Left to TLC

These are only model-checked:
- liveness (`ScanCompletes`): `ENABLED` and fairness are out of the prover's reach;
- what the feeds' failures do to the USD rate (the partial-failure hazard at `ribbon.cpp:260`), and the karai throw (`price_provider.cpp:102`): both are modelled, but no run checks a property of them;
- what `WeightedMean` and `OutOfBand` compute (`FoldLeft` sums). The proof of `FilterKeepsInBand` never expands them, so it holds whatever the band test decides.
- `KaraiHandler`, which has only its violation run.

## Not modelled

- The HTTP fetchers of trades and orders (`ribbon.cpp`, `trades_*`, `get_*_orders`), and the karai HTTP and JSON senders. These are I/O and formatting; their results enter as environment choices (`MarketMoves`, the reply sets).
- The other fetchers of `delfi/price_provider.cpp`. They have no caller in this tree; only `get_contract_karai` and `get_trade_ogre_price` are modelled, where `handle_block` calls them.
- The BTC-USD fetchers themselves. Only their result (a price or 0 on failure) enters `get_usd_average`.
- `create_ribbon_green`, `get_volume_for_block`, `create_adjusted_liqudities`, `create_mac`. These are arithmetic that no modelled decision reads.
- `service_node_rules.h`: declarations and inline helpers with no caller in this tree.
- The data race of `clear_ribbon_data`, which erases without `m_lock`. The model's map operations are atomic, and the undefined behaviour of a racing rehash has no outcome set to enumerate. It is listed as a hazard in `PROJECT.json`.
