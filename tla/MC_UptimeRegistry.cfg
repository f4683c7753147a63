CONSTANTS
    a = a
    b = b
    c = c
    Nodes <- MCNodes
    ServiceNodes <- MCServiceNodes
    UPTIME_PROOF_BUFFER_IN_SECONDS = 1
    UPTIME_PROOF_FREQUENCY_IN_SECONDS = 4
    UPTIME_PROOF_MAX_TIME_IN_SECONDS = 5
    StartTime = 6
    MaxTime = 16
SPECIFICATION UptimeSpec
SYMMETRY MCSymmetry
INVARIANT ProofRetained
PROPERTY UptimeThrottle
