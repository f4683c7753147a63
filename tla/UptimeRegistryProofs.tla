------------------------- MODULE UptimeRegistryProofs -------------------------
(***************************************************************************)
(* Proofs about the uptime-proof registry, for every value of the          *)
(* constants that UptimeConstantsAssumption allows.                        *)
(***************************************************************************)
EXTENDS UptimeRegistry, TLAPS

USE UptimeConstantsAssumption

\* What operator[] and the assignment "m_uptime_proof_seen[pubkey] = now"
\* do to the type of a map of timestamps.
LEMMA PutType ==
    ASSUME NEW f, NEW S, NEW T, NEW k \in S, NEW v \in T,
           DOMAIN f \subseteq S, f \in [DOMAIN f -> T]
    PROVE  /\ DOMAIN Put(f, k, v) \subseteq S
           /\ Put(f, k, v) \in [DOMAIN Put(f, k, v) -> T]
BY DEF Put

\* The type of the registry is preserved by every step: handle_uptime_proof
\* stores the current time or a value-initialised 0, prune_uptime_proof
\* only erases, and the clock stays within its bound.
LEMMA UptimeTypeStep == TypeOK /\ [UptimeNext]_uptimeVars => TypeOK'
  <2> SUFFICES ASSUME TypeOK, [UptimeNext]_uptimeVars PROVE TypeOK'
    OBVIOUS
  <2>0. now \in Times
    BY DEF TypeOK, Times
  <2>1. ASSUME NEW n \in Nodes, NEW ts \in ProofTimes, NEW v \in BOOLEAN,
               NEW s \in BOOLEAN, HandleUptimeProof(n, ts, v, s)
        PROVE  TypeOK'
    <3>1. CASE UNCHANGED <<uptime, lastProof>>
      BY <2>1, <3>1 DEF HandleUptimeProof, TypeOK
    <3>2. CASE /\ uptime' = SubscriptInsert(uptime, n)
               /\ UNCHANGED lastProof
      <4>1. 0 \in Times
        BY DEF Times
      <4>2. uptime' = uptime \/ uptime' = Put(uptime, n, 0)
        BY <3>2 DEF SubscriptInsert
      <4>3. now' = now /\ lastProof' = lastProof
        BY <2>1, <3>2 DEF HandleUptimeProof
      <4>4. DOMAIN uptime' \subseteq Nodes /\ uptime' \in [DOMAIN uptime' -> Times]
        <5>1. CASE uptime' = uptime
          BY <5>1 DEF TypeOK
        <5>2. CASE uptime' = Put(uptime, n, 0)
          <6>1. /\ DOMAIN Put(uptime, n, 0) \subseteq Nodes
                /\ Put(uptime, n, 0) \in [DOMAIN Put(uptime, n, 0) -> Times]
            BY <4>1, PutType DEF TypeOK
          <6>. QED
            BY <5>2, <6>1
        <5>. QED
          BY <4>2, <5>1, <5>2
      <4>. QED
        BY <4>3, <4>4 DEF TypeOK
    <3>3. CASE /\ uptime' = Put(uptime, n, now)
               /\ lastProof' = Put(lastProof, n, now)
      BY <2>0, <2>1, <3>3, PutType DEF HandleUptimeProof, TypeOK
    <3>. QED
      BY <2>1, <3>1, <3>2, <3>3 DEF HandleUptimeProof
  <2>2. CASE PruneUptimeProof
    BY <2>2 DEF PruneUptimeProof, Restrict, TypeOK
  <2>3. CASE Tick
    BY <2>3 DEF Tick, TypeOK
  <2>4. CASE UNCHANGED uptimeVars
    BY <2>4 DEF uptimeVars, TypeOK
  <2>. QED
    BY <2>1, <2>2, <2>3, <2>4 DEF UptimeNext

THEOREM UptimeTypeCorrect == UptimeSpec => []TypeOK
<1>1. UptimeInit => TypeOK
  BY DEF UptimeInit, TypeOK, Times
<1>. QED
  BY <1>1, UptimeTypeStep, PTL DEF UptimeSpec

-----------------------------------------------------------------------------
UInv == TypeOK /\ ProofRetained

\* The step of ProofRetained: a proof accepted less than MAX_TIME ago is
\* still in m_uptime_proof_seen, at least as recent, after any step.
\* prune_uptime_proof keeps every entry of age at most MAX_TIME, a rejected
\* proof inserts through operator[] only a key that is absent, and an
\* accepted one sets both maps to now.
LEMMA ProofRetainedStep == UInv /\ [UptimeNext]_uptimeVars => ProofRetained'
<1> SUFFICES ASSUME TypeOK, ProofRetained, [UptimeNext]_uptimeVars
             PROVE  ProofRetained'
  BY DEF UInv
<1>1. ASSUME NEW n \in Nodes, NEW ts \in ProofTimes, NEW v \in BOOLEAN,
             NEW s \in BOOLEAN, HandleUptimeProof(n, ts, v, s)
      PROVE  ProofRetained'
  <2>0. now' = now
    BY <1>1 DEF HandleUptimeProof
  <2>1. CASE UNCHANGED <<uptime, lastProof>>
    BY <2>0, <2>1 DEF ProofRetained
  <2>2. CASE /\ uptime' = SubscriptInsert(uptime, n)
             /\ UNCHANGED lastProof
    <3> SUFFICES ASSUME NEW m \in DOMAIN lastProof, lastProof[m] >= now - UPTIME_PROOF_MAX_TIME_IN_SECONDS
                 PROVE  m \in DOMAIN uptime' /\ uptime'[m] >= lastProof[m]
      BY <2>0, <2>2 DEF ProofRetained
    <3>1. m \in DOMAIN uptime /\ uptime[m] >= lastProof[m]
      BY DEF ProofRetained
    <3>2. m \in DOMAIN uptime' /\ uptime'[m] = uptime[m]
      BY <2>2, <3>1 DEF Put, SubscriptInsert
    <3>. QED
      BY <3>1, <3>2
  <2>3. CASE /\ uptime' = Put(uptime, n, now)
             /\ lastProof' = Put(lastProof, n, now)
    <3> SUFFICES ASSUME NEW m \in DOMAIN lastProof', lastProof'[m] >= now - UPTIME_PROOF_MAX_TIME_IN_SECONDS
                 PROVE  m \in DOMAIN uptime' /\ uptime'[m] >= lastProof'[m]
      BY <2>0 DEF ProofRetained
    <3>1. CASE m = n
      BY <2>3, <3>1 DEF Put, TypeOK, Times
    <3>2. CASE m # n
      <4>1. m \in DOMAIN lastProof /\ lastProof'[m] = lastProof[m]
        BY <2>3, <3>2 DEF Put
      <4>2. m \in DOMAIN uptime /\ uptime[m] >= lastProof[m]
        BY <4>1 DEF ProofRetained
      <4>. QED
        BY <2>3, <3>2, <4>1, <4>2 DEF Put
    <3>. QED
      BY <3>1, <3>2
  <2>. QED
    BY <1>1, <2>1, <2>2, <2>3 DEF HandleUptimeProof
<1>2. CASE PruneUptimeProof
  <2> SUFFICES ASSUME NEW m \in DOMAIN lastProof, lastProof[m] >= now - UPTIME_PROOF_MAX_TIME_IN_SECONDS
               PROVE  m \in DOMAIN uptime' /\ uptime'[m] >= lastProof[m]
    BY <1>2 DEF PruneUptimeProof, ProofRetained
  <2>1. m \in DOMAIN uptime /\ uptime[m] >= lastProof[m]
    BY DEF ProofRetained
  <2>2. uptime[m] >= now - UPTIME_PROOF_MAX_TIME_IN_SECONDS
    BY <2>1 DEF TypeOK, Times
  <2>. QED
    BY <1>2, <2>1, <2>2 DEF PruneUptimeProof, Restrict
<1>3. CASE Tick
  <2> SUFFICES ASSUME NEW m \in DOMAIN lastProof, lastProof[m] >= now + 1 - UPTIME_PROOF_MAX_TIME_IN_SECONDS
               PROVE  m \in DOMAIN uptime /\ uptime[m] >= lastProof[m]
    BY <1>3 DEF Tick, ProofRetained, TypeOK
  <2>1. lastProof[m] >= now - UPTIME_PROOF_MAX_TIME_IN_SECONDS
    BY DEF TypeOK, Times
  <2>. QED
    BY <2>1 DEF ProofRetained
<1>4. CASE UNCHANGED uptimeVars
  BY <1>4 DEF uptimeVars, ProofRetained
<1>. QED
  BY <1>1, <1>2, <1>3, <1>4 DEF UptimeNext

\* ProofRetained holds in every state; TypeOK is the strengthening that
\* makes it inductive.
THEOREM ProofRetainedInvariant == UptimeSpec => []ProofRetained
<1>1. UptimeInit => UInv
  BY DEF UptimeInit, UInv, TypeOK, ProofRetained, Times
<1>2. UInv /\ [UptimeNext]_uptimeVars => UInv'
  BY UptimeTypeStep, ProofRetainedStep DEF UInv
<1>. QED
  BY <1>1, <1>2, PTL DEF UptimeSpec, UInv

-----------------------------------------------------------------------------
\* The pruning age is at least the throttle's half interval, as in the
\* daemon's configuration (the constants are defined outside src/).
PruneOutlivesThrottle == HALF_FREQUENCY <= UPTIME_PROOF_MAX_TIME_IN_SECONDS

\* One step of the throttle: when handle_uptime_proof accepts a proof from
\* a node it accepted one from before, the earlier one is more than half
\* an interval old.  Had it been younger, ProofRetained would keep an entry
\* at least as recent in m_uptime_proof_seen, and the throttle test would
\* have rejected the new proof.
LEMMA ThrottleStep ==
    ASSUME PruneOutlivesThrottle, UInv, [UptimeNext]_uptimeVars
    PROVE  \A n \in DOMAIN lastProof' :
              n \in DOMAIN lastProof /\ lastProof'[n] # lastProof[n]
                 => lastProof'[n] - lastProof[n] > HALF_FREQUENCY
<1> SUFFICES ASSUME NEW m \in DOMAIN lastProof', m \in DOMAIN lastProof,
                    lastProof'[m] # lastProof[m]
             PROVE  lastProof'[m] - lastProof[m] > HALF_FREQUENCY
  OBVIOUS
<1>1. PICK n \in Nodes, ts \in ProofTimes, v \in BOOLEAN, s \in BOOLEAN :
          /\ ts >= now - UPTIME_PROOF_BUFFER_IN_SECONDS
          /\ ts <= now + UPTIME_PROOF_BUFFER_IN_SECONDS
          /\ n \in ServiceNodes
          /\ v
          /\ ~(Throttled(n) \/ ~s)
          /\ uptime' = Put(uptime, n, now)
          /\ lastProof' = Put(lastProof, n, now)
  \* every other step leaves lastProof alone
  BY DEF UptimeNext, HandleUptimeProof, PruneUptimeProof, Tick, uptimeVars
<1>2. m = n /\ lastProof'[m] = now
  BY <1>1 DEF Put
<1>3. lastProof[m] < now - HALF_FREQUENCY
  <2>1. SUFFICES ASSUME lastProof[m] >= now - HALF_FREQUENCY PROVE FALSE
    BY DEF HALF_FREQUENCY, UInv, TypeOK, Times
  <2>2. lastProof[m] >= now - UPTIME_PROOF_MAX_TIME_IN_SECONDS
    BY <2>1 DEF PruneOutlivesThrottle, HALF_FREQUENCY, UInv, TypeOK, Times
  <2>3. m \in DOMAIN uptime /\ uptime[m] >= lastProof[m]
    <3>1. ProofRetained
      BY DEF UInv
    <3>. QED
      BY <2>2, <3>1 DEF ProofRetained
  <2>4. Throttled(n)
    BY <1>2, <2>1, <2>3 DEF Throttled, Subscript, HALF_FREQUENCY, UInv, TypeOK, Times
  <2>. QED
    BY <1>1, <2>4
<1>. QED
  BY <1>2, <1>3 DEF HALF_FREQUENCY, UInv, TypeOK, Times

\* The spec's anti-spam throttle: two proofs of a node are never accepted
\* less than half a proof interval apart, although prune_uptime_proof may
\* empty m_uptime_proof_seen in between and rejected proofs reinsert keys.
THEOREM UptimeThrottleHolds ==
    ASSUME PruneOutlivesThrottle
    PROVE  UptimeSpec => UptimeThrottle
<1>1. UptimeInit => UInv
  BY DEF UptimeInit, UInv, TypeOK, ProofRetained, Times
<1>2. UInv /\ [UptimeNext]_uptimeVars => UInv'
  BY UptimeTypeStep, ProofRetainedStep DEF UInv
<1>3. UInv /\ [UptimeNext]_uptimeVars
         => [\A n \in DOMAIN lastProof' :
               n \in DOMAIN lastProof /\ lastProof'[n] # lastProof[n]
                  => lastProof'[n] - lastProof[n] > HALF_FREQUENCY]_uptimeVars
  BY ThrottleStep
<1>. QED
  BY <1>1, <1>2, <1>3, PTL DEF UptimeSpec, UptimeThrottle

=============================================================================
