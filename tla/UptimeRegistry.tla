--------------------------- MODULE UptimeRegistry ---------------------------
(***************************************************************************)
(* The uptime-proof registry of service_nodes::quorum_cop                  *)
(* (src/src/cryptonote_core/quorum_cop.cpp): the map m_uptime_proof_seen   *)
(* from a service node's public key to the wall-clock time at which its    *)
(* last uptime proof was accepted, the network handler that fills it       *)
(* (handle_uptime_proof) and the periodic pruning (prune_uptime_proof).    *)
(*                                                                         *)
(* The map is a TLA+ function whose DOMAIN is the set of keys present in   *)
(* the std::unordered_map, so "find(k) != end()" is "k \in DOMAIN".        *)
(* A public key is a model value; the proof's signature is abstracted to   *)
(* whether it verifies against make_hash(pubkey, timestamp).               *)
(***************************************************************************)
EXTENDS Integers, Functions

CONSTANTS
    Nodes,          \* public keys that may appear in a proof
    ServiceNodes,   \* keys for which core::is_service_node is true
    UPTIME_PROOF_BUFFER_IN_SECONDS,
    UPTIME_PROOF_FREQUENCY_IN_SECONDS,
    UPTIME_PROOF_MAX_TIME_IN_SECONDS,
    StartTime,      \* time(nullptr) when the daemon starts
    MaxTime         \* bound on the wall clock, for model checking

\* Half the proof interval, the anti-spam throttle of handle_uptime_proof
\* (integer division as in the C++).
HALF_FREQUENCY == UPTIME_PROOF_FREQUENCY_IN_SECONDS \div 2

\* time(nullptr) is far larger than every interval, so none of the unsigned
\* subtractions "now - X" in the handlers wraps around; StartTime records
\* that fact for the small clock of a model.
ASSUME UptimeConstantsAssumption ==
    /\ ServiceNodes \subseteq Nodes
    /\ UPTIME_PROOF_BUFFER_IN_SECONDS \in Nat
    /\ UPTIME_PROOF_FREQUENCY_IN_SECONDS \in Nat
    /\ UPTIME_PROOF_MAX_TIME_IN_SECONDS \in Nat
    /\ StartTime \in Nat
    /\ MaxTime \in Nat
    /\ StartTime > UPTIME_PROOF_BUFFER_IN_SECONDS
    /\ StartTime > HALF_FREQUENCY
    /\ StartTime > UPTIME_PROOF_MAX_TIME_IN_SECONDS
    /\ StartTime <= MaxTime

VARIABLES
    now,        \* the wall clock, time(nullptr)
    uptime,     \* m_uptime_proof_seen : pubkey -> timestamp
    lastProof   \* history: the time of the last proof this process accepted

Times == 0 .. MaxTime

uptimeVars == <<now, uptime, lastProof>>

TypeOK ==
    /\ now \in StartTime .. MaxTime
    /\ DOMAIN uptime \subseteq Nodes
    /\ uptime \in [DOMAIN uptime -> Times]
    /\ DOMAIN lastProof \subseteq Nodes
    /\ lastProof \in [DOMAIN lastProof -> Times]

UptimeInit ==
    /\ now = StartTime
    /\ uptime = [n \in {} |-> 0]
    /\ lastProof = [n \in {} |-> 0]

\* std::unordered_map::operator[]: the value at k, a value-initialised 0
\* being inserted first when k is absent.
Put(f, k, v) == [x \in DOMAIN f \cup {k} |-> IF x = k THEN v ELSE f[x]]
Subscript(f, k) == IF k \in DOMAIN f THEN f[k] ELSE 0
SubscriptInsert(f, k) == IF k \in DOMAIN f THEN f ELSE Put(f, k, 0)

\* Mistake: the throttle compared with ">" (UptimeThrottle catches it).
ThrottledStrict(n) == Subscript(uptime, n) > now - HALF_FREQUENCY

\* The throttle test "m_uptime_proof_seen[pubkey] >= now - FREQUENCY / 2".
Throttled(n) == Subscript(uptime, n) >= now - HALF_FREQUENCY

\* handle_uptime_proof: a proof from key n with timestamp ts, declaring the
\* required version (versionOk) and with a signature that does or does not
\* verify (sigOk).  The window, membership and version tests return before
\* the lock; the throttle test inserts n through operator[] whether or not
\* the proof is then accepted.
HandleUptimeProof(n, ts, versionOk, sigOk) ==
    /\ \/ /\ \/ ts < now - UPTIME_PROOF_BUFFER_IN_SECONDS
             \/ ts > now + UPTIME_PROOF_BUFFER_IN_SECONDS
             \/ n \notin ServiceNodes
             \/ ~versionOk
          /\ UNCHANGED <<uptime, lastProof>>
       \/ /\ ts >= now - UPTIME_PROOF_BUFFER_IN_SECONDS
          /\ ts <= now + UPTIME_PROOF_BUFFER_IN_SECONDS
          /\ n \in ServiceNodes
          /\ versionOk
          /\ IF Throttled(n) \/ ~sigOk
                THEN /\ uptime' = SubscriptInsert(uptime, n)
                     /\ UNCHANGED lastProof
                ELSE /\ uptime' = Put(uptime, n, now)
                     /\ lastProof' = Put(lastProof, n, now)
    /\ UNCHANGED now

\* Mistake: pruning also the entries exactly MAX_TIME old (ProofRetained
\* and QuorumCop's RecentProofSpares catch it).
PruneUptimeProofStrict ==
    /\ uptime' = Restrict(uptime,
                   {k \in DOMAIN uptime : uptime[k] > now - UPTIME_PROOF_MAX_TIME_IN_SECONDS})
    /\ UNCHANGED <<now, lastProof>>

\* prune_uptime_proof: erase every entry older than now - MAX_TIME.
PruneUptimeProof ==
    /\ uptime' = Restrict(uptime,
                   {k \in DOMAIN uptime : uptime[k] >= now - UPTIME_PROOF_MAX_TIME_IN_SECONDS})
    /\ UNCHANGED <<now, lastProof>>

\* The wall clock advances.
Tick ==
    /\ now < MaxTime
    /\ now' = now + 1
    /\ UNCHANGED <<uptime, lastProof>>

\* The timestamps a peer may put in a proof: inside and just outside the
\* accepted window.
ProofTimes == (now - UPTIME_PROOF_BUFFER_IN_SECONDS - 1) .. (now + UPTIME_PROOF_BUFFER_IN_SECONDS + 1)

UptimeNext ==
    \/ \E n \in Nodes, ts \in ProofTimes, v \in BOOLEAN, s \in BOOLEAN :
          HandleUptimeProof(n, ts, v, s)
    \/ PruneUptimeProof
    \/ Tick

UptimeSpec == UptimeInit /\ [][UptimeNext]_uptimeVars

-----------------------------------------------------------------------------
(***************************************************************************)
(* Properties.                                                             *)
(***************************************************************************)

\* The spec's throttle (section 3): a node never has two uptime proofs
\* accepted less than half the proof interval apart.  handle_uptime_proof
\* enforces it against m_uptime_proof_seen, which prune_uptime_proof may
\* have emptied in between, so it holds only if pruning never forgets a
\* proof younger than half the interval.
UptimeThrottle ==
    [][\A n \in DOMAIN lastProof' :
          n \in DOMAIN lastProof /\ lastProof'[n] # lastProof[n]
             => lastProof'[n] - lastProof[n] > HALF_FREQUENCY]_uptimeVars

\* A proof this process accepted is not forgotten while it is fresh: every
\* node whose last accepted proof is younger than MAX_TIME still has an
\* entry in m_uptime_proof_seen at least as recent.  prune_uptime_proof
\* must keep it, and operator[] in the throttle test of
\* handle_uptime_proof must not overwrite it.  block_added's "seen" test
\* relies on it.
ProofRetained ==
    \A n \in DOMAIN lastProof :
        lastProof[n] >= now - UPTIME_PROOF_MAX_TIME_IN_SECONDS
           => n \in DOMAIN uptime /\ uptime[n] >= lastProof[n]

=============================================================================
